--------------------------- MODULE AnalysisProofs ---------------------------
(***************************************************************************)
(* Proofs about the analysis of a swarm's events (Swarms, Analysis and     *)
(* Insight), for any courses of events: what lists are made of, what the   *)
(* detectors find in them, what the knowledge graph joins, and what the    *)
(* twin's branches with fewer retries are accused of.                      *)
(***************************************************************************)
EXTENDS Intelligence, FoldFacts

-----------------------------------------------------------------------------
(* Counting                                                                *)

(* A set of places of a list is finite, and one place more counts once.    *)
LEMMA CountPlaces ==
  ASSUME NEW n \in Nat, NEW A \in SUBSET (1 .. n)
  PROVE  /\ IsFiniteSet(A) /\ Cardinality(A) \in Nat /\ Cardinality(A) <= n
         /\ IsFiniteSet(A \cup {n + 1}) /\ Cardinality(A \cup {n + 1}) = Cardinality(A) + 1
<1>1. IsFiniteSet(1 .. n) /\ Cardinality(1 .. n) = IF 1 > n THEN 0 ELSE n - 1 + 1
  <2>1. n \in Int /\ 1 \in Int
    OBVIOUS
  <2> QED
    BY ONLY <2>1, FS_Interval
<1>2. IsFiniteSet(A) /\ Cardinality(A) <= Cardinality(1 .. n)
  BY <1>1, FS_Subset
<1>3. Cardinality(A) \in Nat
  BY <1>2, FS_CardinalityType
<1>4. n + 1 \notin A
  OBVIOUS
<1>5. /\ IsFiniteSet(A \cup {n + 1})
      /\ Cardinality(A \cup {n + 1}) = IF n + 1 \in A THEN Cardinality(A) ELSE Cardinality(A) + 1
  BY ONLY <1>2, FS_AddElement
<1> QED
  BY <1>1, <1>2, <1>3, <1>4, <1>5

(* The places that ranks give are a permutation, and fewer are better than *)
(* a place says.                                                           *)
Permutes(p, n) ==
  /\ p \in [1 .. n -> 1 .. n]
  /\ \A k \in 1 .. n : \E m \in 1 .. n : p[m] = k
  /\ \A k, m \in 1 .. n : p[k] = p[m] => k = m

LEMMA RankPlaces ==
  ASSUME NEW N \in Nat, NEW r, DOMAIN r = 1 .. N, \A n \in 1 .. N : r[n] \in Int, NEW p, p = PlaceByRank(r)
  PROVE  /\ Permutes(p, N)
         /\ \A n \in 1 .. N : Cardinality({m \in 1 .. N : r[m] > r[n]}) < p[n]
<1> DEFINE B(n) == {m \in 1 .. N : r[m] > r[n] \/ (r[m] = r[n] /\ m < n)}
<1>1. p = [n \in 1 .. N |-> 1 + Cardinality(B(n))]
  BY DEF PlaceByRank
<1>2. IsFiniteSet(1 .. N) /\ Cardinality(1 .. N) = N
  <2>1. 1 \in Int /\ N \in Int
    OBVIOUS
  <2>2. IsFiniteSet(1 .. N) /\ Cardinality(1 .. N) = IF 1 > N THEN 0 ELSE N - 1 + 1
    BY ONLY <2>1, FS_Interval
  <2> QED
    BY <2>2
<1>3. ASSUME NEW n \in 1 .. N, NEW A \in SUBSET ((1 .. N) \ {n})
      PROVE  /\ IsFiniteSet(A) /\ Cardinality(A) \in Nat /\ Cardinality(A) <= N - 1
             /\ Cardinality(A \cup {n}) = Cardinality(A) + 1 /\ IsFiniteSet(A \cup {n})
  <2>1. A \subseteq 1 .. N /\ A \cup {n} \subseteq 1 .. N /\ n \notin A
    OBVIOUS
  <2>2. IsFiniteSet(A) /\ Cardinality(A) \in Nat /\ IsFiniteSet(A \cup {n}) /\ Cardinality(A \cup {n}) <= N
    <3>1. PICK D, E : D = 1 .. N /\ E = A \cup {n}
      OBVIOUS
    <3>2. IsFiniteSet(D) /\ Cardinality(D) = N /\ A \subseteq D /\ E \subseteq D
      BY <1>2, <2>1, <3>1
    <3>3. IsFiniteSet(A) /\ IsFiniteSet(E) /\ Cardinality(E) <= Cardinality(D)
      BY ONLY <3>2, FS_Subset
    <3>4. Cardinality(A) \in Nat
      BY ONLY <3>3, FS_CardinalityType
    <3> QED
      BY <3>1, <3>2, <3>3, <3>4
  <2>3. Cardinality(A \cup {n}) = Cardinality(A) + 1
    BY <2>1, <2>2, FS_AddElement
  <2> QED
    BY <2>2, <2>3
<1>4. \A n \in 1 .. N : B(n) \in SUBSET ((1 .. N) \ {n})
  OBVIOUS
<1>5. \A n \in 1 .. N : IsFiniteSet(B(n)) /\ Cardinality(B(n)) \in Nat /\ Cardinality(B(n)) <= N - 1
  <2> SUFFICES ASSUME NEW n \in 1 .. N
               PROVE  IsFiniteSet(B(n)) /\ Cardinality(B(n)) \in Nat /\ Cardinality(B(n)) <= N - 1
    OBVIOUS
  <2>1. PICK b : b = B(n)
    OBVIOUS
  <2>2. b \in SUBSET ((1 .. N) \ {n})
    BY <1>4, <2>1
  <2> HIDE DEF B
  <2> QED
    BY <1>3, <2>1, <2>2
<1>6. ASSUME NEW m \in 1 .. N, NEW n \in 1 .. N, m \in B(n) PROVE Cardinality(B(m)) < Cardinality(B(n))
  <2>1. B(m) \cup {m} \subseteq B(n) /\ B(m) \in SUBSET ((1 .. N) \ {m})
    <3>1. r[m] \in Int /\ r[n] \in Int
      OBVIOUS
    <3>2. \A o \in 1 .. N : r[o] \in Int
      OBVIOUS
    <3> QED
      BY <1>4, <1>6, <3>1, <3>2
  <2>2. PICK bm, bn : bm = B(m) /\ bn = B(n)
    OBVIOUS
  <2>3. bm \cup {m} \subseteq bn /\ bm \in SUBSET ((1 .. N) \ {m}) /\ IsFiniteSet(bn) /\ Cardinality(bn) \in Nat
    BY <1>5, <2>1, <2>2
  <2> HIDE DEF B
  <2>4. Cardinality(bm \cup {m}) <= Cardinality(bn) /\ Cardinality(bm \cup {m}) = Cardinality(bm) + 1
        /\ Cardinality(bm) \in Nat
    BY <1>3, <2>3, FS_Subset
  <2> QED
    BY <2>2, <2>3, <2>4
<1>7. p \in [1 .. N -> 1 .. N]
  <2> SUFFICES ASSUME NEW n \in 1 .. N PROVE 1 + Cardinality(B(n)) \in 1 .. N
    BY <1>1
  <2>1. PICK c : c = Cardinality(B(n))
    OBVIOUS
  <2>2. c \in Nat /\ c <= N - 1
    BY <1>5, <2>1
  <2> QED
    BY <2>1, <2>2
<1>8. \A m, n \in 1 .. N : p[m] = p[n] => m = n
  <2> SUFFICES ASSUME NEW m \in 1 .. N, NEW n \in 1 .. N, m # n PROVE p[m] # p[n]
    OBVIOUS
  <2>1. m \in B(n) \/ n \in B(m)
    <3>1. r[m] \in Int /\ r[n] \in Int
      OBVIOUS
    <3> QED
      BY <3>1
  <2> HIDE DEF B
  <2>2. Cardinality(B(m)) # Cardinality(B(n))
    BY <1>5, <1>6, <2>1
  <2> QED
    BY <1>1, <1>5, <2>2
<1>9. \A k \in 1 .. N : \E n \in 1 .. N : p[n] = k
  <2>1. p \in Injection(1 .. N, 1 .. N)
    BY <1>7, <1>8 DEF Injection, IsInjective
  <2>2. p \in Surjection(1 .. N, 1 .. N)
    BY <1>2, <2>1, FS_Injection
  <2> QED
    BY <2>2 DEF Surjection
<1>10. ASSUME NEW n \in 1 .. N PROVE Cardinality({m \in 1 .. N : r[m] > r[n]}) < p[n]
  <2>1. {m \in 1 .. N : r[m] > r[n]} \subseteq B(n)
    OBVIOUS
  <2>2. PICK b, c : b = B(n) /\ c = {m \in 1 .. N : r[m] > r[n]}
    OBVIOUS
  <2>3. c \subseteq b /\ IsFiniteSet(b) /\ Cardinality(b) \in Nat /\ p[n] = 1 + Cardinality(b)
    BY <1>1, <1>5, <2>1, <2>2
  <2>4. Cardinality(c) \in Nat /\ Cardinality(c) <= Cardinality(b)
    BY ONLY <2>3, FS_Subset, FS_CardinalityType
  <2> QED
    BY <2>2, <2>3, <2>4
<1>11. Permutes(p, N)
  BY ONLY <1>7, <1>8, <1>9 DEF Permutes
<1> QED
  BY <1>10, <1>11

(* Sums of lists of numbers.                                               *)
SumsUp(t, s, n) ==
  /\ t \in [0 .. n -> Int] /\ t[0] = 0 /\ t[n] = SumOf(s)
  /\ \A k \in 1 .. n : t[k] = t[k - 1] + s[k]

LEMMA SumPasses ==
  ASSUME NEW n, n \in Nat, NEW s, DOMAIN s = 1 .. n, \A k \in 1 .. n : s[k] \in Int
  PROVE  \E t : SumsUp(t, s, n)
<1> DEFINE D == DOMAIN s
           F == [p \in (1 .. n) \X Int |-> p[2] + s[p[1]]]
           iter[d \in SUBSET D] == IF d = {} THEN 0 ELSE LET x == Max(d) IN iter[d \ {x}] + s[x]
           Is(h) == h = [d \in SUBSET D |-> IF d = {} THEN 0 ELSE LET x == Max(d) IN h[d \ {x}] + s[x]]
<1>1. D = 1 .. n /\ 0 \in Int
  OBVIOUS
<1>2. \A i \in 1 .. n, v \in Int : v + s[i] \in Int
  OBVIOUS
<1>3. F \in [(1 .. n) \X Int -> Int] /\ \A i \in 1 .. n, v \in Int : F[i, v] = v + s[i]
  BY <1>2
<1>4. SumOf(s) = iter[D]
  BY Zenon DEF SumOf, FoldLeft, MapThenFoldSet
<1>5. Is(iter)
  <2>1. iter = CHOOSE h : Is(h)
    BY Zenon
  <2> HIDE DEF F, iter, D
  <2>2. PICK g \in [SUBSET (1 .. n) -> Int] : Folded(g, n, 0, F)
    BY <1>1, <1>3, Foldable
  <2>3. \A d \in SUBSET (1 .. n) : d # {} => Max(d) \in 1 .. n /\ d \ {Max(d)} \in SUBSET (1 .. n)
    BY <1>1, GreatestOf
  <2>4. \A d \in SUBSET D : g[d] = IF d = {} THEN 0 ELSE g[d \ {Max(d)}] + s[Max(d)]
    BY <1>1, <1>3, <2>2, <2>3 DEF Folded
  <2>5. Is(g)
    BY <1>1, <2>2, <2>4
  <2> HIDE DEF Is
  <2> QED
    BY <2>1, <2>5, Zenon
<1>6. Folds(iter, n, 0, F, Int)
  <2> HIDE DEF F, iter, D
  <2>1. \A d \in SUBSET (1 .. n) : d # {} => Max(d) \in 1 .. n
    BY <1>1, GreatestOf
  <2> QED
    BY <1>1, <1>3, <1>5, <2>1 DEF Folds
<1> HIDE DEF F, iter
<1>7. PICK t : Passes(t, iter, n, 0, F, Int)
  BY <1>1, <1>3, <1>6, PassesThrough
<1>8. \A k \in 1 .. n : t[k] = t[k - 1] + s[k]
  <2>1. \A k \in 1 .. n : k - 1 \in 0 .. n
    OBVIOUS
  <2> QED
    BY <1>3, <1>7, <2>1 DEF Passes
<1> QED
  BY <1>1, <1>4, <1>7, <1>8 DEF Passes, SumsUp

(* A number times the length of a list bounds the sum when it bounds each. *)
LEMMA SumBounds ==
  ASSUME NEW n, n \in Nat, NEW s, DOMAIN s = 1 .. n, \A k \in 1 .. n : s[k] \in Int, NEW v, v \in Int
  PROVE  /\ SumOf(s) \in Int
         /\ (\A k \in 1 .. n : s[k] <= v) => SumOf(s) <= n * v
         /\ (\A k \in 1 .. n : s[k] >= v) => SumOf(s) >= n * v
<1>1. PICK t : SumsUp(t, s, n)
  BY SumPasses
<1>2. t \in [0 .. n -> Int] /\ t[0] = 0 /\ t[n] = SumOf(s) /\ \A k \in 1 .. n : t[k] = t[k - 1] + s[k]
  BY <1>1 DEF SumsUp
<1>3. \A k \in Nat : (k + 1) * v = k * v + v /\ k * v \in Int
  OBVIOUS
<1>4. \A k \in Nat : k + 1 <= n => k + 1 \in 1 .. n /\ k \in 0 .. n /\ t[k + 1] = t[k] + s[k + 1] /\ t[k] \in Int
  <2> SUFFICES ASSUME NEW k \in Nat, k + 1 <= n
               PROVE  k + 1 \in 1 .. n /\ k \in 0 .. n /\ t[k + 1] = t[k] + s[k + 1] /\ t[k] \in Int
    OBVIOUS
  <2>1. k + 1 \in 1 .. n /\ k \in 0 .. n /\ (k + 1) - 1 = k
    OBVIOUS
  <2>2. t[k + 1] = t[(k + 1) - 1] + s[k + 1]
    BY <1>2, <2>1
  <2> QED
    BY <1>2, <2>1, <2>2
<1>5. ASSUME \A k \in 1 .. n : s[k] <= v PROVE t[n] <= n * v
  <2> DEFINE P == {k \in Nat : k <= n => t[k] <= k * v}
  <2>1. 0 \in P
    BY <1>2
  <2>2. ASSUME NEW k \in P PROVE k + 1 \in P
    <3>1. SUFFICES ASSUME k + 1 <= n PROVE t[k + 1] <= (k + 1) * v
      OBVIOUS
    <3>2. k \in Nat /\ (k <= n => t[k] <= k * v)
      OBVIOUS
    <3>3. t[k + 1] = t[k] + s[k + 1] /\ t[k] \in Int /\ k + 1 \in 1 .. n
      BY <1>4, <3>1, <3>2
    <3>4. s[k + 1] <= v /\ s[k + 1] \in Int
      BY <1>5, <3>3
    <3>5. (k + 1) * v = k * v + v /\ k * v \in Int
      BY <1>3, <3>2
    <3>6. t[k] <= k * v
      BY <3>1, <3>2
    <3> QED
      BY <3>3, <3>4, <3>5, <3>6
  <2>3. P \in SUBSET Nat
    OBVIOUS
  <2>4. P = Nat
    <3> HIDE DEF P
    <3> QED
      BY <2>1, <2>2, <2>3, NumbersByStep
  <2>5. n \in P
    BY <2>4
  <2> QED
    BY <2>5
<1>6. ASSUME \A k \in 1 .. n : s[k] >= v PROVE t[n] >= n * v
  <2> DEFINE P == {k \in Nat : k <= n => t[k] >= k * v}
  <2>1. 0 \in P
    BY <1>2
  <2>2. ASSUME NEW k \in P PROVE k + 1 \in P
    <3>1. SUFFICES ASSUME k + 1 <= n PROVE t[k + 1] >= (k + 1) * v
      OBVIOUS
    <3>2. k \in Nat /\ (k <= n => t[k] >= k * v)
      OBVIOUS
    <3>3. t[k + 1] = t[k] + s[k + 1] /\ t[k] \in Int /\ k + 1 \in 1 .. n
      BY <1>4, <3>1, <3>2
    <3>4. s[k + 1] >= v /\ s[k + 1] \in Int
      BY <1>6, <3>3
    <3>5. (k + 1) * v = k * v + v /\ k * v \in Int
      BY <1>3, <3>2
    <3>6. t[k] >= k * v
      BY <3>1, <3>2
    <3> QED
      BY <3>3, <3>4, <3>5, <3>6
  <2>3. P \in SUBSET Nat
    OBVIOUS
  <2>4. P = Nat
    <3> HIDE DEF P
    <3> QED
      BY <2>1, <2>2, <2>3, NumbersByStep
  <2>5. n \in P
    BY <2>4
  <2> QED
    BY <2>5
<1>7. SumOf(s) \in Int
  BY <1>2
<1> QED
  BY ONLY <1>2, <1>5, <1>6, <1>7

-----------------------------------------------------------------------------
(* Lists: what is taken from them, put in a row or ranked                  *)

(* A list of its own elements.                                             *)
Proper(s) == s \in Seq(ToSet(s))

(* Numbers in a row, each greater than those before.                       *)
Rising(g, n) == \A j, k \in 1 .. n : j < k => g[j] < g[k]

(* The list t has the elements of s at some places, in their order.        *)
Taken(t, s, places, g) ==
  /\ g \in [1 .. Len(t) -> places] /\ Rising(g, Len(t))
  /\ \A n \in places : \E k \in 1 .. Len(t) : g[k] = n
  /\ \A k \in 1 .. Len(t) : t[k] = s[g[k]]

(* A list given place by place is a list of its own elements.              *)
LEMMA ListIs ==
  ASSUME NEW n \in Nat, NEW s, s = [k \in 1 .. n |-> s[k]]
  PROVE  Proper(s) /\ Len(s) = n /\ DOMAIN s = 1 .. n /\ ToSet(s) = {s[k] : k \in 1 .. n}
<1>1. DOMAIN s = 1 .. n
  OBVIOUS
<1>2. ToSet(s) = {s[k] : k \in 1 .. n}
  BY <1>1 DEF ToSet
<1>3. s \in [1 .. n -> ToSet(s)]
  BY <1>2
<1> QED
  BY <1>1, <1>2, <1>3 DEF Proper

(* What such a list is: its places are 1 to its length.                    *)
LEMMA ProperIs ==
  ASSUME NEW s, Proper(s)
  PROVE  /\ IsList(s) /\ Len(s) \in Nat /\ DOMAIN s = 1 .. Len(s) /\ s = [k \in 1 .. Len(s) |-> s[k]]
         /\ ToSet(s) = {s[k] : k \in 1 .. Len(s)}
<1>1. Len(s) \in Nat /\ DOMAIN s = 1 .. Len(s) /\ s = [k \in 1 .. Len(s) |-> s[k]]
  BY DEF Proper
<1> QED
  BY <1>1 DEF ToSet, IsList

(* The members of a finite set of places, one after the other.             *)
LEMMA InTurn ==
  ASSUME NEW n \in Nat, NEW P \in SUBSET (1 .. n), NEW c, c = Cardinality(P)
  PROVE  \A k \in 1 .. c : \E p \in P : Cardinality({m \in P : m <= p}) = k
<1> DEFINE D(p) == {m \in P : m <= p}
           f == [p \in P |-> Cardinality(D(p))]
<1>1. IsFiniteSet(P) /\ c \in Nat
  BY CountPlaces
<1>2. ASSUME NEW p \in P PROVE Cardinality(D(p)) \in 1 .. c
  <2>1. PICK d : d = D(p)
    OBVIOUS
  <2>2. d \subseteq P /\ p \in d /\ {p} \subseteq d
    BY <2>1
  <2>3. IsFiniteSet(d) /\ Cardinality(d) <= c
    BY ONLY <1>1, <2>2, FS_Subset, c = Cardinality(P)
  <2>4. Cardinality({p}) <= Cardinality(d)
    BY ONLY <2>2, <2>3, FS_Subset
  <2>5. Cardinality({p}) = 1 /\ Cardinality(d) \in Nat
    BY ONLY <2>3, FS_Singleton, FS_CardinalityType
  <2> QED
    BY <1>1, <2>1, <2>3, <2>4, <2>5
<1>3. ASSUME NEW p \in P, NEW q \in P, p < q PROVE Cardinality(D(p)) < Cardinality(D(q))
  <2>1. PICK d, e : d = D(p) /\ e = D(q)
    OBVIOUS
  <2>2. d \cup {q} \subseteq e /\ q \notin d /\ e \subseteq P /\ d \subseteq P
    <3>1. \A m \in P : m <= p => m <= q /\ m # q
      BY <1>3
    <3>2. p \in P /\ q \in P /\ q <= q
      OBVIOUS
    <3>3. d = {m \in P : m <= p} /\ e = {m \in P : m <= q}
      BY <2>1
    <3> QED
      BY ONLY <3>1, <3>2, <3>3, Zenon
  <2>3. IsFiniteSet(d) /\ IsFiniteSet(e)
    BY ONLY <1>1, <2>2, FS_Subset
  <2>4. Cardinality(d \cup {q}) = Cardinality(d) + 1
    BY ONLY <2>2, <2>3, FS_AddElement
  <2>5. Cardinality(d \cup {q}) <= Cardinality(e)
    BY ONLY <2>2, <2>3, FS_Subset
  <2>6. Cardinality(d) \in Nat /\ Cardinality(e) \in Nat
    BY ONLY <2>3, FS_CardinalityType
  <2> QED
    BY <2>1, <2>4, <2>5, <2>6
<1>4. f \in [P -> 1 .. c] /\ \A p \in P : f[p] = Cardinality(D(p))
  BY <1>2
<1>5. \A p, q \in P : f[p] = f[q] => p = q
  <2> SUFFICES ASSUME NEW p \in P, NEW q \in P, f[p] = f[q] PROVE p = q
    OBVIOUS
  <2>1. p \in Int /\ q \in Int /\ f[p] \in Int /\ f[q] \in Int
    BY <1>4
  <2>2. (p < q => f[p] < f[q]) /\ (q < p => f[q] < f[p])
    BY <1>3, <1>4
  <2> HIDE DEF f
  <2> QED
    BY <2>1, <2>2
<1> HIDE DEF f
<1>6. IsFiniteSet(1 .. c) /\ Cardinality(1 .. c) = c
  <2>1. 1 \in Int /\ c \in Int
    BY <1>1
  <2>2. IsFiniteSet(1 .. c) /\ Cardinality(1 .. c) = IF 1 > c THEN 0 ELSE c - 1 + 1
    BY ONLY <2>1, FS_Interval
  <2> QED
    BY <1>1, <2>2
<1>7. f \in Injection(P, 1 .. c)
  BY <1>4, <1>5 DEF Injection, IsInjective
<1>8. f \in Surjection(P, 1 .. c)
  BY ONLY <1>1, <1>6, <1>7, FS_Injection, c = Cardinality(P)
<1>9. \A k \in 1 .. c : \E p \in P : f[p] = k
  BY <1>8 DEF Surjection
<1> QED
  BY <1>4, <1>9

(* What is taken at some places: one element for each, in their order.     *)
LEMMA AtIs ==
  ASSUME NEW n \in Nat, NEW s, NEW P \in SUBSET (1 .. n), NEW t, t = At(s, P)
  PROVE  /\ Proper(t) /\ Len(t) = Cardinality(P) /\ ToSet(t) = {s[p] : p \in P}
         /\ \E g : Taken(t, s, P, g)
<1> DEFINE c == Cardinality(P)
           nth(k) == CHOOSE p \in P : Cardinality({m \in P : m <= p}) = k
           g == [k \in 1 .. c |-> nth(k)]
<1>1. c \in Nat /\ IsFiniteSet(P)
  BY CountPlaces
<1>2. t = [k \in 1 .. c |-> s[nth(k)]]
  BY DEF At
<1>3. \A k \in 1 .. c : nth(k) \in P /\ Cardinality({m \in P : m <= nth(k)}) = k
  <2> SUFFICES ASSUME NEW k \in 1 .. c PROVE nth(k) \in P /\ Cardinality({m \in P : m <= nth(k)}) = k
    OBVIOUS
  <2>1. c = Cardinality(P)
    OBVIOUS
  <2> HIDE DEF c
  <2>2. \A x \in 1 .. c : \E p \in P : Cardinality({m \in P : m <= p}) = x
    BY <2>1, InTurn
  <2> QED
    BY ONLY <2>2
<1> HIDE DEF nth
<1>4. t = [k \in 1 .. c |-> t[k]] /\ \A k \in 1 .. c : t[k] = s[g[k]] /\ g[k] \in P /\ Cardinality({m \in P : m <= g[k]}) = k
  BY <1>2, <1>3
<1>5. Proper(t) /\ Len(t) = c /\ DOMAIN t = 1 .. c /\ ToSet(t) = {t[k] : k \in 1 .. c}
  <2> HIDE DEF c, g
  <2> QED
    BY <1>1, <1>4, ListIs
<1>6. ASSUME NEW p \in P PROVE \E k \in 1 .. c : g[k] = p
  <2> DEFINE D(q) == {m \in P : m <= q}
  <2>1. PICK d : d = D(p)
    OBVIOUS
  <2>2. d \subseteq P /\ {p} \subseteq d
    BY <2>1
  <2>3. IsFiniteSet(d) /\ Cardinality(d) <= c
    BY ONLY <1>1, <2>2, FS_Subset
  <2>4. Cardinality({p}) <= Cardinality(d) /\ Cardinality({p}) = 1 /\ Cardinality(d) \in Nat
    BY ONLY <2>2, <2>3, FS_Subset, FS_Singleton, FS_CardinalityType
  <2>5. PICK k \in 1 .. c : k = Cardinality(d)
    BY <1>1, <2>3, <2>4
  <2>6. PICK q, e : q = g[k] /\ e = D(q)
    OBVIOUS
  <2>7. q \in P /\ Cardinality(e) = Cardinality(d)
    BY <1>4, <2>1, <2>5, <2>6
  <2>8. (d \subseteq e \/ e \subseteq d) /\ (d = e => p = q)
    <3>1. (\A m \in P : m <= p => m <= q) \/ (\A m \in P : m <= q => m <= p)
      BY <2>7
    <3>2. d = {m \in P : m <= p} /\ e = {m \in P : m <= q}
      BY <2>1, <2>6
    <3>3. p \in P /\ q \in P /\ p <= p /\ q <= q /\ (p <= q /\ q <= p => p = q)
      BY <2>7
    <3>4. d \subseteq e \/ e \subseteq d
      BY ONLY <3>1, <3>2, Zenon
    <3>5. ASSUME d = e PROVE p <= q /\ q <= p
      BY ONLY <3>2, <3>3, <3>5, Zenon
    <3> QED
      BY ONLY <3>3, <3>4, <3>5
  <2>9. e \subseteq P
    BY <2>6
  <2>10. IsFiniteSet(e)
    BY ONLY <1>1, <2>9, FS_Subset
  <2>11. d = e
    BY ONLY <2>3, <2>7, <2>8, <2>10, FS_Subset
  <2> QED
    BY <2>6, <2>8, <2>11
<1>7. Rising(g, c)
  <2> SUFFICES ASSUME NEW j \in 1 .. c, NEW k \in 1 .. c, j < k PROVE g[j] < g[k]
    BY DEF Rising
  <2>1. PICK p, q : p = g[j] /\ q = g[k]
    OBVIOUS
  <2>2. /\ p \in P /\ q \in P /\ p \in Int /\ q \in Int
        /\ Cardinality({m \in P : m <= p}) = j /\ Cardinality({m \in P : m <= q}) = k
    BY <1>4, <2>1
  <2>3. PICK d, e : d = {m \in P : m <= p} /\ e = {m \in P : m <= q}
    OBVIOUS
  <2>4. d \subseteq P /\ e \subseteq P /\ (q <= p => e \subseteq d)
    <3>1. q <= p => \A m \in P : m <= q => m <= p
      BY <2>2
    <3> QED
      BY ONLY <2>3, <3>1, Zenon
  <2>5. IsFiniteSet(d)
    BY ONLY <1>1, <2>4, FS_Subset
  <2>6. q <= p => Cardinality(e) <= Cardinality(d)
    BY ONLY <2>4, <2>5, FS_Subset
  <2>7. ~(k <= j) /\ (q <= p => k <= j)
    BY <2>2, <2>3, <2>6
  <2> QED
    BY ONLY <2>1, <2>2, <2>7
<1>8. g \in [1 .. c -> P]
  BY <1>4
<1>9. Taken(t, s, P, g)
  <2> HIDE DEF g, c
  <2> QED
    BY <1>4, <1>5, <1>6, <1>7, <1>8 DEF Taken
<1>10. ToSet(t) = {s[p] : p \in P}
  <2> HIDE DEF g, c
  <2>1. \A p \in P : \E k \in 1 .. c : g[k] = p
    BY <1>6
  <2>2. \A k \in 1 .. c : t[k] = s[g[k]] /\ g[k] \in P
    BY <1>4
  <2>3. ToSet(t) = {t[k] : k \in 1 .. c}
    BY <1>5
  <2>4. \A p \in P : \E k \in 1 .. c : t[k] = s[p]
    BY ONLY <2>1, <2>2
  <2>5. ASSUME NEW x \in ToSet(t) PROVE \E p \in P : x = s[p]
    BY ONLY <2>2, <2>3, x \in ToSet(t)
  <2>6. ASSUME NEW p \in P PROVE s[p] \in ToSet(t)
    BY ONLY <2>3, <2>4, p \in P
  <2> QED
    BY ONLY <2>5, <2>6
<1> QED
  BY <1>5, <1>9, <1>10

(* One list after another.                                                 *)
LEMMA RowOfTwo ==
  ASSUME NEW s, Proper(s), NEW t, Proper(t)
  PROVE  /\ Proper(s \o t) /\ Len(s \o t) = Len(s) + Len(t) /\ ToSet(s \o t) = ToSet(s) \cup ToSet(t)
         /\ \A k \in 1 .. Len(s) : (s \o t)[k] = s[k]
         /\ \A k \in 1 .. Len(t) : (s \o t)[Len(s) + k] = t[k]
<1> DEFINE S == ToSet(s) \cup ToSet(t)
           l == Len(s)
           m == Len(t)
<1>1. /\ l \in Nat /\ m \in Nat /\ DOMAIN s = 1 .. l /\ DOMAIN t = 1 .. m
      /\ ToSet(s) = {s[k] : k \in 1 .. l} /\ ToSet(t) = {t[k] : k \in 1 .. m}
  BY ProperIs
<1>2. s \in Seq(S) /\ t \in Seq(S)
  BY DEF Proper
<1>3. PICK r : r = s \o t
  OBVIOUS
<1>4. /\ r \in Seq(S) /\ Len(r) = l + m
      /\ \A k \in 1 .. l : r[k] = s[k]
      /\ \A k \in 1 .. m : r[l + k] = t[k]
  <2> HIDE DEF S
  <2> QED
    BY <1>2, <1>3
<1>5. r = [k \in 1 .. l + m |-> r[k]]
  BY <1>4
<1> HIDE DEF l, m
<1>6. Proper(r) /\ ToSet(r) = {r[k] : k \in 1 .. l + m}
  BY <1>1, <1>5, ListIs
<1>7. ToSet(r) = ToSet(s) \cup ToSet(t)
  <2>1. \A k \in 1 .. l + m : k \in 1 .. l \/ (k - l \in 1 .. m /\ k = l + (k - l))
    BY <1>1
  <2>2. (\A k \in 1 .. l : k \in 1 .. l + m) /\ (\A k \in 1 .. m : l + k \in 1 .. l + m)
    BY <1>1
  <2>3. ASSUME NEW x \in ToSet(r) PROVE x \in ToSet(s) \cup ToSet(t)
    BY <1>1, <1>4, <1>6, <2>1
  <2>4. ASSUME NEW x \in ToSet(s) PROVE x \in ToSet(r)
    BY <1>1, <1>4, <1>6, <2>2
  <2>5. ASSUME NEW x \in ToSet(t) PROVE x \in ToSet(r)
    BY <1>1, <1>4, <1>6, <2>2
  <2> QED
    BY <2>3, <2>4, <2>5
<1> QED
  BY <1>3, <1>4, <1>6, <1>7 DEF l, m

(* The elements by their rank.                                             *)
ByRank(t, s, r, n) ==
  LET place == PlaceByRank(r) IN t = [k \in 1 .. n |-> s[CHOOSE m \in 1 .. n : place[m] = k]]

(* The ranked list has the same elements.                                  *)
LEMMA RankedIs ==
  ASSUME NEW n \in Nat, NEW s, DOMAIN s = 1 .. n, NEW r, DOMAIN r = 1 .. n, \A k \in 1 .. n : r[k] \in Int,
         NEW t, ByRank(t, s, r, n)
  PROVE  Proper(t) /\ Len(t) = n /\ ToSet(t) = ToSet(s)
<1> DEFINE p == PlaceByRank(r)
<1>0. t = [k \in 1 .. n |-> s[CHOOSE m \in 1 .. n : p[m] = k]]
  BY DEF ByRank
<1>1. /\ p \in [1 .. n -> 1 .. n]
      /\ \A k \in 1 .. n : \E m \in 1 .. n : p[m] = k
      /\ \A k, m \in 1 .. n : p[k] = p[m] => k = m
  <2>1. n \in Nat /\ DOMAIN r = 1 .. n /\ (\A k \in 1 .. n : r[k] \in Int) /\ p = PlaceByRank(r)
    OBVIOUS
  <2>2. Permutes(p, n)
    BY ONLY <2>1, RankPlaces
  <2> QED
    BY ONLY <2>2 DEF Permutes
<1> HIDE DEF p
<1>2. t = [k \in 1 .. n |-> t[k]]
  BY <1>0
<1>3. Proper(t) /\ Len(t) = n /\ ToSet(t) = {t[k] : k \in 1 .. n}
  BY ONLY <1>2, n \in Nat, ListIs
<1>4. ASSUME NEW k \in 1 .. n PROVE \E m \in 1 .. n : t[k] = s[m]
  BY <1>0, <1>1
<1>5. ASSUME NEW m \in 1 .. n PROVE \E k \in 1 .. n : t[k] = s[m]
  <2>1. PICK k \in 1 .. n : k = p[m]
    BY <1>1
  <2>2. (CHOOSE o \in 1 .. n : p[o] = k) = m
    BY <1>1, <2>1
  <2> QED
    BY <1>0, <2>2
<1>6. ToSet(s) = {s[m] : m \in 1 .. n}
  BY DEF ToSet
<1>7. ASSUME NEW x \in ToSet(t) PROVE x \in ToSet(s)
  BY ONLY <1>3, <1>4, <1>6, x \in ToSet(t)
<1>8. ASSUME NEW x \in ToSet(s) PROVE x \in ToSet(t)
  BY ONLY <1>3, <1>5, <1>6, x \in ToSet(s)
<1> QED
  BY ONLY <1>3, <1>7, <1>8

(* Each element once.                                                      *)
LEMMA ListedIs ==
  ASSUME NEW n \in Nat, NEW s, DOMAIN s = 1 .. n, NEW t, t = Listed(s)
  PROVE  Proper(t) /\ ToSet(t) = ToSet(s) /\ \A j, k \in 1 .. Len(t) : t[j] = t[k] => j = k
<1> DEFINE P == {m \in 1 .. n : \A l \in 1 .. m - 1 : s[l] # s[m]}
<1>1. t = At(s, P) /\ P \in SUBSET (1 .. n)
  BY DEF Listed
<1>2. \A l, m \in P : s[l] = s[m] => l = m
  <2> SUFFICES ASSUME NEW l \in P, NEW m \in P, l < m PROVE s[l] # s[m]
    <3>1. \A l \in P : l \in Int
      OBVIOUS
    <3> QED
      BY <3>1
  <2>1. l \in 1 .. m - 1
    OBVIOUS
  <2> QED
    BY <2>1
<1>3. ASSUME NEW m \in 1 .. n PROVE \E l \in P : s[l] = s[m]
  <2> DEFINE W == {l \in 1 .. n : s[l] = s[m]}
  <2>1. W \in SUBSET Nat /\ W # {}
    OBVIOUS
  <2>2. PICK l : l = Min(W)
    OBVIOUS
  <2>3. l \in W /\ \A k \in W : l <= k
    <3> HIDE DEF W
    <3> QED
      BY <2>1, <2>2, LeastOf
  <2>4. \A k \in 1 .. l - 1 : k \notin W /\ k \in 1 .. n
    <3>1. l \in 1 .. n
      BY <2>3
    <3>2. \A k \in W : k \in Int
      OBVIOUS
    <3> HIDE DEF W
    <3> QED
      BY <2>3, <3>1, <3>2
  <2> QED
    BY <2>3, <2>4
<1> HIDE DEF P
<1>4. Proper(t) /\ ToSet(t) = {s[l] : l \in P}
  BY <1>1, AtIs
<1>5. PICK g : Taken(t, s, P, g)
  BY <1>1, AtIs
<1>6. ToSet(s) = {s[m] : m \in 1 .. n}
  BY DEF ToSet
<1>7. ASSUME NEW x \in ToSet(t) PROVE x \in ToSet(s)
  BY ONLY <1>1, <1>4, <1>6, x \in ToSet(t)
<1>8. ASSUME NEW x \in ToSet(s) PROVE x \in ToSet(t)
  BY ONLY <1>3, <1>4, <1>6, x \in ToSet(s)
<1>9. ASSUME NEW j \in 1 .. Len(t), NEW k \in 1 .. Len(t), t[j] = t[k] PROVE j = k
  <2>1. g[j] \in P /\ g[k] \in P /\ s[g[j]] = s[g[k]]
    BY <1>5, <1>9 DEF Taken
  <2>2. g[j] = g[k] /\ g[j] \in Int
    <3>1. g[j] \in 1 .. n
      BY <1>1, <2>1
    <3> QED
      BY <1>2, <2>1, <3>1
  <2>3. ~(g[j] < g[k]) /\ ~(g[k] < g[j])
    BY <2>2
  <2>4. Len(t) \in Nat
    BY <1>4, ProperIs
  <2>5. (j < k => g[j] < g[k]) /\ (k < j => g[k] < g[j])
    BY <1>5 DEF Taken, Rising
  <2> QED
    BY <2>3, <2>4, <2>5
<1> QED
  BY <1>4, <1>7, <1>8, <1>9

(* Some lists in a row.                                                    *)
LEMMA JoinedIs ==
  ASSUME NEW n, n \in Nat, NEW s, DOMAIN s = 1 .. n, \A k \in 1 .. n : Proper(s[k])
  PROVE  Proper(Joined(s)) /\ ToSet(Joined(s)) = UNION {ToSet(s[k]) : k \in 1 .. n}
<1> DEFINE X == UNION {ToSet(s[k]) : k \in 1 .. n}
           V == Seq(X)
           D == DOMAIN s
           F == [p \in (1 .. n) \X V |-> p[2] \o s[p[1]]]
           iter[d \in SUBSET D] == IF d = {} THEN <<>> ELSE LET x == Max(d) IN iter[d \ {x}] \o s[x]
           Is(h) == h = [d \in SUBSET D |-> IF d = {} THEN <<>> ELSE LET x == Max(d) IN h[d \ {x}] \o s[x]]
<1>1. D = 1 .. n /\ <<>> \in V
  OBVIOUS
<1>2. \A i \in 1 .. n : s[i] \in V
  <2> SUFFICES ASSUME NEW i \in 1 .. n PROVE s[i] \in V
    OBVIOUS
  <2>1. s[i] \in Seq(ToSet(s[i])) /\ ToSet(s[i]) \subseteq X
    BY DEF Proper
  <2> HIDE DEF X
  <2> QED
    BY <2>1
<1>3. F \in [(1 .. n) \X V -> V] /\ \A i \in 1 .. n, v \in V : F[i, v] = v \o s[i]
  <2>1. \A i \in 1 .. n, v \in V : v \o s[i] \in V
    <3> HIDE DEF X
    <3> QED
      BY <1>2
  <2> HIDE DEF V
  <2> QED
    BY <2>1
<1>4. Joined(s) = iter[D]
  BY Zenon DEF Joined, FoldLeft, MapThenFoldSet
<1> HIDE DEF V
<1>5. Is(iter)
  <2>1. iter = CHOOSE h : Is(h)
    BY Zenon
  <2> HIDE DEF F, iter, D
  <2>2. PICK g \in [SUBSET (1 .. n) -> V] : Folded(g, n, <<>>, F)
    BY <1>1, <1>3, Foldable
  <2>3. \A d \in SUBSET (1 .. n) : d # {} => Max(d) \in 1 .. n /\ d \ {Max(d)} \in SUBSET (1 .. n)
    BY <1>1, GreatestOf
  <2>4. \A d \in SUBSET D : g[d] = IF d = {} THEN <<>> ELSE g[d \ {Max(d)}] \o s[Max(d)]
    BY <1>1, <1>3, <2>2, <2>3 DEF Folded
  <2>5. Is(g)
    BY <1>1, <2>2, <2>4
  <2> HIDE DEF Is
  <2> QED
    BY <2>1, <2>5, Zenon
<1>6. Folds(iter, n, <<>>, F, V)
  <2> HIDE DEF F, iter, D
  <2>1. \A d \in SUBSET (1 .. n) : d # {} => Max(d) \in 1 .. n
    BY <1>1, GreatestOf
  <2> QED
    BY <1>1, <1>3, <1>5, <2>1 DEF Folds
<1> HIDE DEF F, iter
<1>7. PICK t : Passes(t, iter, n, <<>>, F, V)
  BY <1>1, <1>3, <1>6, PassesThrough
<1>8. /\ t[0] = <<>> /\ t[n] = Joined(s)
      /\ \A k \in 1 .. n : t[k] = t[k - 1] \o s[k]
  <2>1. \A k \in 1 .. n : k - 1 \in 0 .. n
    OBVIOUS
  <2> QED
    BY <1>1, <1>3, <1>4, <1>7, <2>1 DEF Passes
<1> DEFINE Upto(k) == UNION {ToSet(s[j]) : j \in 1 .. k}
           Q == {k \in Nat : k <= n => Proper(t[k]) /\ ToSet(t[k]) = Upto(k)}
<1>9. 0 \in Q
  <2>1. Proper(<<>>) /\ ToSet(<<>>) = {}
    BY DEF Proper, ToSet
  <2>2. Upto(0) = {}
    OBVIOUS
  <2> QED
    BY <1>8, <2>1, <2>2
<1>10. ASSUME NEW k \in Q PROVE k + 1 \in Q
  <2>1. SUFFICES ASSUME k + 1 <= n PROVE Proper(t[k + 1]) /\ ToSet(t[k + 1]) = Upto(k + 1)
    OBVIOUS
  <2>2. k \in Nat /\ k + 1 \in 1 .. n /\ (k + 1) - 1 = k /\ Proper(t[k]) /\ ToSet(t[k]) = Upto(k)
    BY <2>1
  <2>3. t[k + 1] = t[k] \o s[k + 1] /\ Proper(s[k + 1])
    BY <1>8, <2>2
  <2>4. Proper(t[k + 1]) /\ ToSet(t[k + 1]) = ToSet(t[k]) \cup ToSet(s[k + 1])
    BY ONLY <2>2, <2>3, RowOfTwo
  <2>5. Upto(k + 1) = Upto(k) \cup ToSet(s[k + 1])
    <3>1. 1 .. k + 1 = (1 .. k) \cup {k + 1}
      BY <2>2
    <3> QED
      BY ONLY <3>1 DEF Upto
  <2> HIDE DEF Upto
  <2> QED
    BY ONLY <2>2, <2>4, <2>5
<1>11. Q = Nat
  <2>1. Q \in SUBSET Nat
    OBVIOUS
  <2> HIDE DEF Q
  <2> QED
    BY <1>9, <1>10, <2>1, NumbersByStep
<1>12. n \in Q
  BY <1>11
<1> QED
  BY <1>8, <1>12

(* One of some numbers is the greatest.                                    *)
LEMMA SomeGreatest ==
  ASSUME NEW n \in Nat, NEW f, \A k \in 1 .. n : f[k] \in Int, NEW S \in SUBSET (1 .. n), S # {}
  PROVE  \E m \in S : \A o \in S : f[o] <= f[m]
<1> DEFINE Good == {s \in SUBSET S : s # {} => \E m \in s : \A o \in s : f[o] <= f[m]}
<1>1. {} \in Good
  OBVIOUS
<1>2. ASSUME NEW s \in Good, NEW x \in S, x \notin s PROVE s \cup {x} \in Good
  <2>1. f[x] \in Int /\ \A o \in s : f[o] \in Int
    OBVIOUS
  <2>2. CASE s = {}
    BY <2>1, <2>2
  <2>3. CASE s # {}
    <3>1. PICK m \in s : \A o \in s : f[o] <= f[m]
      BY <2>3
    <3>2. CASE f[x] <= f[m]
      BY <3>1, <3>2
    <3>3. CASE ~(f[x] <= f[m])
      <4>1. \A o \in s \cup {x} : f[o] <= f[x]
        BY <2>1, <3>1, <3>3
      <4> QED
        BY <4>1
    <3> QED
      BY <3>2, <3>3
  <2> QED
    BY <2>2, <2>3
<1>3. Good \in SUBSET SUBSET S
  OBVIOUS
<1>4. IsFiniteSet(S)
  BY CountPlaces
<1>5. S \in Good
  <2> HIDE DEF Good
  <2> QED
    BY <1>1, <1>2, <1>3, <1>4, SetInduction
<1> QED
  BY <1>5

-----------------------------------------------------------------------------
(* Bottlenecks: what is reported of whom                                   *)

Holds(list, kind, agent) == \E b \in ToSet(list) : b.kind = kind /\ b.agent = agent
Rated(list) == Proper(list) /\ \A b \in ToSet(list) : b.severity \in Int

(* Those left of the same kind, agent and zone stand for the others.       *)
LEMMA DeduplicatedIs ==
  ASSUME NEW bs, Rated(bs), NEW d, d = Deduplicated(bs)
  PROVE  \A kind, agent : Holds(d, kind, agent) <=> Holds(bs, kind, agent)
<1> DEFINE key(n) == <<bs[n].kind, bs[n].agent, bs[n].zone>>
           same(n) == {m \in DOMAIN bs : key(m) = key(n)}
           worsts(n) == {m \in same(n) : \A o \in same(n) : bs[o].severity <= bs[m].severity}
           worst(n) == Min(worsts(n))
           firsts == {n \in DOMAIN bs : \A m \in same(n) : n <= m}
           all == [n \in DOMAIN bs |-> bs[worst(n)]]
           kept == At(all, firsts)
<1>1. d = Ranked(kept, LAMBDA b : b.severity)
  BY DEF Deduplicated
<1>2. PICK l \in Nat : /\ l = Len(bs) /\ DOMAIN bs = 1 .. l /\ ToSet(bs) = {bs[k] : k \in 1 .. l}
                       /\ \A k \in 1 .. l : bs[k].severity \in Int
  <2>1. Len(bs) \in Nat /\ DOMAIN bs = 1 .. Len(bs) /\ ToSet(bs) = {bs[k] : k \in 1 .. Len(bs)}
    BY ProperIs DEF Rated
  <2> QED
    BY <2>1 DEF Rated
<1>3. ASSUME NEW n \in 1 .. l PROVE worst(n) \in 1 .. l /\ key(worst(n)) = key(n)
  <2> DEFINE f == [k \in 1 .. l |-> bs[k].severity]
  <2>1. PICK s : s = same(n)
    OBVIOUS
  <2>2. s \in SUBSET (1 .. l) /\ n \in s /\ \A m \in s : key(m) = key(n)
    BY <1>2, <2>1
  <2>3. l \in Nat /\ (\A k \in 1 .. l : f[k] \in Int) /\ s \in SUBSET (1 .. l) /\ s # {}
    BY <1>2, <2>2
  <2>4. \A k \in 1 .. l : f[k] = bs[k].severity
    OBVIOUS
  <2> HIDE DEF f, key
  <2>5. \E m \in s : \A o \in s : f[o] <= f[m]
    BY ONLY <2>3, SomeGreatest
  <2>6. PICK w : w = {m \in s : \A o \in s : bs[o].severity <= bs[m].severity}
    OBVIOUS
  <2>7. w # {} /\ w \in SUBSET Nat /\ w \subseteq s
    <3>1. \E m \in s : \A o \in s : bs[o].severity <= bs[m].severity
      BY ONLY <2>2, <2>4, <2>5
    <3>2. w # {} /\ w \subseteq s
      BY ONLY <2>6, <3>1
    <3>3. s \in SUBSET Nat
      BY <2>2
    <3> QED
      BY ONLY <3>2, <3>3
  <2>8. Min(w) \in w
    BY ONLY <2>7, LeastOf
  <2>9. worst(n) = Min(w)
    BY <2>1, <2>6
  <2> QED
    BY ONLY <2>2, <2>7, <2>8, <2>9
<1>4. ASSUME NEW n \in 1 .. l PROVE \E m \in firsts : key(m) = key(n)
  <2>1. PICK s : s = same(n)
    OBVIOUS
  <2>2. s \in SUBSET (1 .. l) /\ n \in s /\ \A m \in s : key(m) = key(n)
    BY <1>2, <2>1
  <2>3. s \in SUBSET Nat /\ s # {}
    BY <2>2
  <2>4. PICK m : m = Min(s)
    OBVIOUS
  <2>5. m \in s /\ \A y \in s : m <= y
    BY ONLY <2>3, <2>4, LeastOf
  <2>6. key(m) = key(n) /\ m \in 1 .. l
    BY <2>2, <2>5
  <2> HIDE DEF key
  <2>7. same(m) = s
    BY <2>1, <2>6
  <2>8. m \in firsts
    BY <1>2, <2>5, <2>6, <2>7
  <2> QED
    BY <2>6, <2>8
<1>5. firsts \in SUBSET (1 .. l) /\ \A n \in 1 .. l : all[n] = bs[worst(n)]
  BY <1>2
<1> HIDE DEF firsts, worst, all
<1>6. Proper(kept) /\ ToSet(kept) = {all[n] : n \in firsts}
  <2>1. PICK t : t = kept
    OBVIOUS
  <2>3. firsts \in SUBSET (1 .. l)
    BY <1>5
  <2>2. Proper(t) /\ ToSet(t) = {all[n] : n \in firsts}
    BY ONLY l \in Nat, <2>1, <2>3, AtIs
  <2> QED
    BY <2>1, <2>2
<1>7. PICK c \in Nat : c = Len(kept) /\ DOMAIN kept = 1 .. c /\ ToSet(kept) = {kept[k] : k \in 1 .. c}
  BY <1>6, ProperIs
<1>8. \A k \in 1 .. c : kept[k].severity \in Int
  <2> SUFFICES ASSUME NEW k \in 1 .. c PROVE kept[k].severity \in Int
    OBVIOUS
  <2>1. kept[k] \in ToSet(kept)
    BY <1>7
  <2>2. PICK n \in firsts : kept[k] = all[n]
    BY <1>6, <2>1
  <2> QED
    BY <1>2, <1>3, <1>5, <2>2
<1> HIDE DEF kept
<1>9. ToSet(d) = ToSet(kept)
  <2> DEFINE r == [k \in 1 .. c |-> kept[k].severity]
  <2>1. DOMAIN r = 1 .. c /\ \A k \in 1 .. c : r[k] \in Int
    BY <1>8
  <2>2. ByRank(d, kept, r, c)
    BY <1>1, <1>7 DEF ByRank, Ranked, Each
  <2> HIDE DEF r
  <2>3. c \in Nat /\ DOMAIN kept = 1 .. c
    BY <1>7
  <2> QED
    BY ONLY <2>1, <2>2, <2>3, RankedIs
<1>10. ASSUME NEW kind, NEW agent, Holds(d, kind, agent) PROVE Holds(bs, kind, agent)
  <2>1. PICK b \in ToSet(d) : b.kind = kind /\ b.agent = agent
    BY <1>10 DEF Holds
  <2>2. PICK n \in firsts : b = all[n]
    BY <1>6, <1>9, <2>1
  <2>3. b = bs[worst(n)] /\ worst(n) \in 1 .. l
    BY <1>3, <1>5, <2>2
  <2>4. b \in ToSet(bs)
    BY <1>2, <2>3
  <2> QED
    BY <2>1, <2>4 DEF Holds
<1>11. ASSUME NEW kind, NEW agent, Holds(bs, kind, agent) PROVE Holds(d, kind, agent)
  <2>1. PICK n \in 1 .. l : bs[n].kind = kind /\ bs[n].agent = agent
    BY <1>2, <1>11 DEF Holds
  <2>2. PICK m \in firsts : key(m) = key(n)
    BY <1>4
  <2>3. all[m] \in ToSet(d) /\ all[m] = bs[worst(m)] /\ key(worst(m)) = key(m)
    BY <1>3, <1>5, <1>6, <1>9, <2>2
  <2>4. all[m].kind = kind /\ all[m].agent = agent
    BY <2>1, <2>2, <2>3
  <2> QED
    BY <2>3, <2>4 DEF Holds
<1> QED
  BY <1>10, <1>11

(* Lists of events, which may come in the order of their times.            *)
Timely(rs) == Proper(rs) /\ \A k \in 1 .. Len(rs) : rs[k].at \in Int
TimesRise(rs) == \A j, k \in 1 .. Len(rs) : j < k => rs[j].at <= rs[k].at
Triple(rs) == \E i, j, k \in 1 .. Len(rs) : i < j /\ j < k /\ rs[k].at <= rs[i].at + 5

(* The search for retry loops, event by event.                             *)
FirstNear(rs, from, n) == Min({k \in from .. Len(rs) + 1 : k >= n \/ rs[n].at - rs[k].at <= 5})
Loop(rs, n, k) == Bottleneck("retry_loop", rs[n].agent, rs[n].zone, 10 * (n - k + 1), rs[k].at)
Slide(rs, n, acc) ==
  IF n < 3 THEN acc
  ELSE LET k == FirstNear(rs, acc.from, n) IN
       IF n - k < 2 THEN [acc EXCEPT !.from = k] ELSE [from |-> n + 1, found |-> Append(acc.found, Loop(rs, n, k))]
LoopsAt(rs) == {Loop(rs, p[1], p[2]) : p \in (1 .. Len(rs)) \X (1 .. Len(rs) + 1)}
Searches(rs) == [from : 1 .. Len(rs) + 1, found : Seq(LoopsAt(rs))]
Searched(t, rs) ==
  /\ t \in [0 .. Len(rs) -> Searches(rs)]
  /\ t[0] = [from |-> 1, found |-> <<>>] /\ t[Len(rs)].found = RetryLoopsOf(rs)
  /\ \A k \in 1 .. Len(rs) : t[k] = Slide(rs, k, t[k - 1])

(* The first retry near the n-th one, if the search is not beyond it.      *)
LEMMA BeginIs ==
  ASSUME NEW rs, Timely(rs), NEW from \in 1 .. Len(rs) + 1, NEW n \in 1 .. Len(rs), NEW b, b = FirstNear(rs, from, n)
  PROVE  /\ b \in from .. Len(rs) + 1 /\ b \in 1 .. Len(rs) + 1 /\ (b >= n \/ rs[n].at - rs[b].at <= 5)
         /\ \A k \in from .. b - 1 : k < n /\ rs[n].at - rs[k].at > 5
<1> DEFINE W == {k \in from .. Len(rs) + 1 : k >= n \/ rs[n].at - rs[k].at <= 5}
<1>1. Len(rs) \in Nat /\ \A k \in 1 .. Len(rs) : rs[k].at \in Int
  BY ProperIs DEF Timely
<1>2. Len(rs) + 1 \in W /\ W \in SUBSET Nat /\ W # {}
  BY <1>1
<1>3. b = Min(W)
  BY DEF FirstNear
<1>4. \A k \in from .. Len(rs) + 1 : k \in W <=> (k >= n \/ rs[n].at - rs[k].at <= 5)
  OBVIOUS
<1> HIDE DEF W
<1>5. b \in W /\ \A k \in W : b <= k
  BY ONLY <1>2, <1>3, LeastOf
<1>6. b \in from .. Len(rs) + 1
  BY <1>5 DEF W
<1>7. b \in 1 .. Len(rs) + 1 /\ (b >= n \/ rs[n].at - rs[b].at <= 5)
  BY <1>1, <1>4, <1>5, <1>6
<1>8. ASSUME NEW k \in from .. b - 1 PROVE k < n /\ rs[n].at - rs[k].at > 5
  <2>1. k \in from .. Len(rs) + 1 /\ k < b /\ k \in Int
    BY <1>1, <1>6
  <2>2. k \notin W
    BY <1>5, <1>6, <2>1
  <2>3. ~(k >= n) /\ ~(rs[n].at - rs[k].at <= 5)
    BY <1>4, <2>1, <2>2
  <2>4. k \in 1 .. Len(rs)
    BY <1>1, <2>1, <2>3
  <2> QED
    BY <1>1, <2>3, <2>4
<1> QED
  BY <1>6, <1>7, <1>8

(* The search passes through one state for each retry.                     *)
LEMMA LoopsSearched ==
  ASSUME NEW rs, Timely(rs)
  PROVE  \E t : Searched(t, rs)
<1> DEFINE n == Len(rs)
           V == Searches(rs)
           same == [i \in DOMAIN rs |-> i]
           D == DOMAIN same
           base == [from |-> 1, found |-> <<>>]
           F == [p \in (1 .. n) \X V |-> Slide(rs, p[1], p[2])]
           iter[d \in SUBSET D] ==
             IF d = {} THEN base ELSE LET x == Max(d) IN Slide(rs, same[x], iter[d \ {x}])
           Is(h) ==
             h = [d \in SUBSET D |->
                    IF d = {} THEN base ELSE LET x == Max(d) IN Slide(rs, same[x], h[d \ {x}])]
<1>1. n \in Nat /\ DOMAIN rs = 1 .. n
  BY ProperIs DEF Timely
<1>2. D = 1 .. n /\ \A x \in D : same[x] = x
  BY <1>1
<1>3. base \in V
  BY <1>1 DEF Searches
<1>4. \A x \in 1 .. n, v \in V : Slide(rs, x, v) \in V
  <2> SUFFICES ASSUME NEW x \in 1 .. n, NEW v \in V PROVE Slide(rs, x, v) \in V
    OBVIOUS
  <2>1. PICK b : b = FirstNear(rs, v.from, x)
    OBVIOUS
  <2>2. PICK X : X = LoopsAt(rs)
    OBVIOUS
  <2>3. V = [from : 1 .. n + 1, found : Seq(X)]
    BY <2>2 DEF Searches
  <2>4. v.from \in 1 .. n + 1 /\ v.found \in Seq(X) /\ v = [from |-> v.from, found |-> v.found]
    BY <2>3
  <2>5. b \in 1 .. n + 1
    BY <2>1, <2>4, BeginIs
  <2>6. Loop(rs, x, b) \in X /\ x + 1 \in 1 .. n + 1
    <3>1. x \in 1 .. Len(rs) /\ b \in 1 .. Len(rs) + 1
      BY <2>5
    <3>2. Loop(rs, x, b) \in X
      <4>1. <<x, b>> \in (1 .. Len(rs)) \X (1 .. Len(rs) + 1) /\ <<x, b>>[1] = x /\ <<x, b>>[2] = b
        BY ONLY <3>1
      <4>2. PICK p \in (1 .. Len(rs)) \X (1 .. Len(rs) + 1) : p[1] = x /\ p[2] = b
        BY ONLY <4>1
      <4>3. Loop(rs, p[1], p[2]) \in X
        BY ONLY <2>2, p \in (1 .. Len(rs)) \X (1 .. Len(rs) + 1) DEF LoopsAt
      <4> QED
        BY ONLY <4>2, <4>3
    <3> QED
      BY <1>1, <3>2
  <2>7. Slide(rs, x, v) = IF x < 3 THEN v
                          ELSE IF x - b < 2 THEN [v EXCEPT !.from = b]
                          ELSE [from |-> x + 1, found |-> Append(v.found, Loop(rs, x, b))]
    BY <2>1 DEF Slide
  <2> HIDE DEF V, n
  <2>8. [v EXCEPT !.from = b] \in V
    BY ONLY <2>3, <2>4, <2>5
  <2>9. Append(v.found, Loop(rs, x, b)) \in Seq(X)
    BY ONLY <2>4, <2>6
  <2>10. [from |-> x + 1, found |-> Append(v.found, Loop(rs, x, b))] \in V
    BY ONLY <2>3, <2>6, <2>9
  <2> QED
    BY ONLY <2>7, <2>8, <2>10, v \in V
<1>5. F \in [(1 .. n) \X V -> V] /\ \A x \in 1 .. n, v \in V : F[x, v] = Slide(rs, x, v)
  <2> HIDE DEF V
  <2> QED
    BY <1>4
<1>6. RetryLoopsOf(rs) = iter[D].found
  BY Zenon DEF RetryLoopsOf, FoldLeftDomain, FoldLeft, MapThenFoldSet, Slide, FirstNear, Loop
<1> HIDE DEF V
<1>7. Is(iter)
  <2>1. iter = CHOOSE h : Is(h)
    BY Zenon
  <2> HIDE DEF F, iter, D, base, n, same
  <2>2. PICK g \in [SUBSET (1 .. n) -> V] : Folded(g, n, base, F)
    BY <1>1, <1>3, <1>5, Foldable
  <2>3. \A d \in SUBSET (1 .. n) : d # {} => Max(d) \in 1 .. n /\ d \ {Max(d)} \in SUBSET (1 .. n)
    BY <1>1, GreatestOf
  <2>4. \A d \in SUBSET D : g[d] = IF d = {} THEN base ELSE Slide(rs, same[Max(d)], g[d \ {Max(d)}])
    <3> SUFFICES ASSUME NEW d \in SUBSET D
        PROVE g[d] = IF d = {} THEN base ELSE Slide(rs, same[Max(d)], g[d \ {Max(d)}])
      OBVIOUS
    <3>1. d \in SUBSET (1 .. n) /\ g[d] = IF d = {} THEN base ELSE F[Max(d), g[d \ {Max(d)}]]
      BY ONLY <1>2, <2>2, d \in SUBSET D DEF Folded
    <3>2. CASE d = {}
      BY ONLY <3>1, <3>2
    <3>3. CASE d # {}
      <4>1. Max(d) \in 1 .. n /\ g[d \ {Max(d)}] \in V
        BY ONLY <2>3, <3>1, <3>3, g \in [SUBSET (1 .. n) -> V]
      <4>2. F[Max(d), g[d \ {Max(d)}]] = Slide(rs, Max(d), g[d \ {Max(d)}]) /\ same[Max(d)] = Max(d)
        BY ONLY <1>2, <1>5, <4>1
      <4> QED
        BY ONLY <3>1, <3>3, <4>2
    <3> QED
      BY ONLY <3>2, <3>3
  <2>5. Is(g)
    BY <1>2, <2>2, <2>4
  <2> HIDE DEF Is
  <2> QED
    BY <2>1, <2>5, Zenon
<1>8. Folds(iter, n, base, F, V)
  <2> HIDE DEF F, iter, D, base, n, same
  <2>1. \A d \in SUBSET (1 .. n) : d # {} => Max(d) \in 1 .. n
    BY <1>1, GreatestOf
  <2> QED
    <3> SUFFICES ASSUME NEW d \in SUBSET (1 .. n)
        PROVE /\ d = {} => iter[d] = base
              /\ d # {} /\ iter[d \ {Max(d)}] \in V => iter[d] = F[Max(d), iter[d \ {Max(d)}]]
      BY DEF Folds
    <3>1. d \in SUBSET D /\ iter[d] = IF d = {} THEN base ELSE Slide(rs, same[Max(d)], iter[d \ {Max(d)}])
      BY ONLY <1>2, <1>7, d \in SUBSET (1 .. n)
    <3>2. ASSUME d # {}, iter[d \ {Max(d)}] \in V PROVE iter[d] = F[Max(d), iter[d \ {Max(d)}]]
      <4>1. Max(d) \in 1 .. n
        BY ONLY <2>1, <3>2, d \in SUBSET (1 .. n)
      <4>2. F[Max(d), iter[d \ {Max(d)}]] = Slide(rs, Max(d), iter[d \ {Max(d)}]) /\ same[Max(d)] = Max(d)
        BY ONLY <1>2, <1>5, <3>2, <4>1
      <4> QED
        BY ONLY <3>1, <3>2, <4>2
    <3> QED
      BY ONLY <3>1, <3>2
<1> HIDE DEF F, iter, base, n, same, D
<1>9. PICK t : Passes(t, iter, n, base, F, V)
  BY <1>1, <1>3, <1>5, <1>8, PassesThrough
<1>10. /\ t \in [0 .. n -> V] /\ t[0] = base /\ t[n].found = RetryLoopsOf(rs)
       /\ \A k \in 1 .. n : t[k] = Slide(rs, k, t[k - 1])
  <2>1. \A k \in 1 .. n : k - 1 \in 0 .. n
    BY <1>1
  <2> QED
    BY <1>2, <1>5, <1>6, <1>9, <2>1 DEF Passes
<1> QED
  BY <1>10 DEF Searched, base, n, V

(* What a loop is reported as.                                             *)
LEMMA LoopIs ==
  ASSUME NEW rs, Timely(rs), NEW b, b \in LoopsAt(rs)
  PROVE  b.kind = "retry_loop" /\ b.severity \in Int /\ \E n \in 1 .. Len(rs) : b.agent = rs[n].agent
<1>1. PICK p \in (1 .. Len(rs)) \X (1 .. Len(rs) + 1) : b = Loop(rs, p[1], p[2])
  BY DEF LoopsAt
<1>2. Len(rs) \in Nat
  BY ProperIs DEF Timely
<1>3. p[1] \in 1 .. Len(rs) /\ p[2] \in 1 .. Len(rs) + 1
  OBVIOUS
<1>4. 10 * (p[1] - p[2] + 1) \in Int
  BY <1>2, <1>3
<1>5. b.kind = "retry_loop" /\ b.agent = rs[p[1]].agent /\ b.severity = Cap(10 * (p[1] - p[2] + 1), 100)
  BY <1>1 DEF Loop, Bottleneck
<1> QED
  BY <1>3, <1>4, <1>5 DEF Cap

(* A loop of an agent is found only when three of its retries are within   *)
(* five seconds; in the order of their times it is always found.           *)
LEMMA LoopsAre ==
  ASSUME NEW rs, Timely(rs), NEW l, l = RetryLoopsOf(rs)
  PROVE  /\ Rated(l) /\ (l # <<>> => Triple(rs)) /\ (TimesRise(rs) /\ Triple(rs) => l # <<>>)
         /\ \A b \in ToSet(l) : b.kind = "retry_loop" /\ \E n \in 1 .. Len(rs) : b.agent = rs[n].agent
<1> DEFINE n == Len(rs)
           Past(acc, k) == \A j \in 1 .. acc.from - 1, m \in 1 .. n : k <= m => j < acc.from /\ j <= n /\ rs[m].at - rs[j].at > 5
           None3(k) == \A i, j, m \in 1 .. n : i < j /\ j < m /\ m <= k => rs[m].at - rs[i].at > 5
           J(acc, k) == IF acc.found = <<>> THEN TimesRise(rs) => Past(acc, k) /\ None3(k) ELSE Triple(rs)
<1>1. n \in Nat /\ \A k \in 1 .. n : rs[k].at \in Int
  BY ProperIs DEF Timely
<1>2. PICK t : Searched(t, rs)
  BY LoopsSearched
<1>3. /\ \A k \in 0 .. n : t[k] \in Searches(rs)
      /\ t[0] = [from |-> 1, found |-> <<>>] /\ t[n].found = l
      /\ \A k \in 1 .. n : t[k] = Slide(rs, k, t[k - 1])
  BY <1>2 DEF Searched
<1>4. ASSUME NEW k \in 0 .. n - 1, J(t[k], k) PROVE J(t[k + 1], k + 1)
  <2>1. k + 1 \in 1 .. n /\ (k + 1) - 1 = k /\ k \in 0 .. n /\ k \in Nat
    BY <1>1
  <2>2. PICK o : o = k + 1
    OBVIOUS
  <2>3. PICK acc : acc = t[k]
    OBVIOUS
  <2>4. PICK new : new = t[k + 1]
    OBVIOUS
  <2>5. new = Slide(rs, o, acc) /\ acc.from \in 1 .. n + 1 /\ J(acc, k) /\ o \in 1 .. n /\ o = k + 1
    <3>1. acc \in Searches(rs)
      BY <1>3, <2>1, <2>3
    <3>2. acc.from \in 1 .. n + 1
      BY <3>1 DEF Searches
    <3> QED
      BY <1>3, <1>4, <2>1, <2>2, <2>3, <2>4, <3>2
  <2> HIDE DEF Past, None3
  <2>6. CASE o < 3
    <3>1. new = acc
      BY <2>5, <2>6 DEF Slide
    <3>2. Past(acc, k) => Past(acc, o)
      BY <1>1, <2>1, <2>5 DEF Past
    <3>3. None3(o)
      BY <1>1, <2>6, <2>5 DEF None3
    <3> QED
      BY <2>2, <2>4, <2>5, <3>1, <3>2, <3>3
  <2>7. CASE ~(o < 3)
    <3>1. PICK b : b = FirstNear(rs, acc.from, o)
      OBVIOUS
    <3>2. /\ b \in acc.from .. n + 1 /\ b \in 1 .. n + 1 /\ (b >= o \/ rs[o].at - rs[b].at <= 5)
          /\ \A j \in acc.from .. b - 1 : j < o /\ rs[o].at - rs[j].at > 5
      BY <2>5, <3>1, BeginIs
    <3>3. new = IF o - b < 2 THEN [acc EXCEPT !.from = b] ELSE [from |-> o + 1, found |-> Append(acc.found, Loop(rs, o, b))]
      BY <2>5, <2>7, <3>1 DEF Slide
    <3>4. CASE o - b < 2
      <4>1. new.found = acc.found /\ new.from = b
        <5>1. acc \in Searches(rs)
          BY <1>3, <2>1, <2>3
        <5> QED
          BY <3>3, <3>4, <5>1 DEF Searches
      <4>2. ASSUME TimesRise(rs), Past(acc, k), None3(k) PROVE Past(new, o) /\ None3(o)
        <5>1. \A j \in 1 .. b - 1 : j <= n /\ j < o /\ rs[o].at - rs[j].at > 5
          <6> SUFFICES ASSUME NEW j \in 1 .. b - 1 PROVE j <= n /\ j < o /\ rs[o].at - rs[j].at > 5
            OBVIOUS
          <6>1. CASE j < acc.from
            <7>1. j \in 1 .. acc.from - 1 /\ k <= o
              BY <2>1, <2>5, <3>2, <6>1
            <7>2. j <= n /\ rs[o].at - rs[j].at > 5
              BY <2>5, <4>2, <7>1 DEF Past
            <7>3. j # o /\ ~(o < j)
              <8>1. j \in 1 .. n
                BY <1>1, <2>5, <7>1, <7>2
              <8>2. o < j => rs[o].at <= rs[j].at
                BY <1>1, <2>5, <4>2, <8>1 DEF TimesRise
              <8> QED
                BY <1>1, <2>5, <7>2, <8>1, <8>2
            <7> QED
              BY <1>1, <2>5, <7>2, <7>3
          <6>2. CASE ~(j < acc.from)
            <7>1. j \in acc.from .. b - 1
              BY <2>5, <3>2, <6>2
            <7>2. j < o /\ rs[o].at - rs[j].at > 5
              BY <3>2, <7>1
            <7> QED
              BY <1>1, <2>5, <7>2
          <6> QED
            BY <6>1, <6>2
        <5>2. Past(new, o)
          <6> SUFFICES ASSUME NEW j \in 1 .. b - 1, NEW m \in 1 .. n, o <= m PROVE j < b /\ j <= n /\ rs[m].at - rs[j].at > 5
            BY <4>1 DEF Past
          <6>1. j \in 1 .. n /\ rs[o].at - rs[j].at > 5
            BY <1>1, <2>5, <3>2, <5>1
          <6>2. rs[o].at <= rs[m].at
            <7>1. o < m => rs[o].at <= rs[m].at
              BY <2>5, <4>2 DEF TimesRise
            <7> QED
              BY <1>1, <2>5, <7>1
          <6> QED
            BY <1>1, <2>5, <3>2, <6>1, <6>2
        <5>3. None3(o)
          <6> SUFFICES ASSUME NEW i \in 1 .. n, NEW j \in 1 .. n, NEW m \in 1 .. n, i < j, j < m, m <= o
                       PROVE rs[m].at - rs[i].at > 5
            BY DEF None3
          <6>1. CASE m = o
            <7>1. i \in 1 .. b - 1
              BY <1>1, <2>5, <3>2, <3>4, <6>1
            <7> QED
              BY <5>1, <6>1, <7>1
          <6>2. CASE m # o
            <7>1. m <= k
              BY <1>1, <2>1, <2>5, <6>2
            <7> QED
              BY <4>2, <7>1 DEF None3
          <6> QED
            BY <6>1, <6>2
        <5> QED
          BY <5>2, <5>3
      <4> QED
        BY <2>2, <2>4, <2>5, <4>1, <4>2
    <3>5. CASE ~(o - b < 2)
      <4>1. b \in 1 .. n /\ b + 1 \in 1 .. n /\ b < b + 1 /\ b + 1 < o /\ rs[o].at - rs[b].at <= 5
        <5>1. o \in 1 .. n /\ b \in 1 .. n + 1 /\ n \in Nat
          BY ONLY <1>1, <2>5, <3>2
        <5>2. b \in 1 .. n /\ b + 1 \in 1 .. n /\ b < b + 1 /\ b + 1 < o /\ ~(b >= o)
          BY ONLY <3>5, <5>1
        <5> QED
          BY ONLY <3>2, <5>2
      <4>2. rs[o].at <= rs[b].at + 5
        BY <1>1, <2>5, <4>1
      <4>3. Triple(rs)
        BY <2>5, <4>1, <4>2 DEF Triple
      <4>4. new.found # <<>>
        <5>1. acc \in Searches(rs)
          BY <1>3, <2>1, <2>3
        <5>2. PICK f : f = acc.found
          OBVIOUS
        <5>3. PICK x : x = Loop(rs, o, b)
          OBVIOUS
        <5>4. f \in Seq(LoopsAt(rs)) /\ new.found = Append(f, x)
          BY <3>3, <3>5, <5>1, <5>2, <5>3 DEF Searches
        <5>5. Len(Append(f, x)) = Len(f) + 1 /\ Len(f) \in Nat
          BY ONLY <5>4
        <5>6. Len(<<>>) = 0
          OBVIOUS
        <5> QED
          BY ONLY <5>4, <5>5, <5>6
      <4> QED
        BY <2>2, <2>4, <4>3, <4>4
    <3> QED
      BY <3>4, <3>5
  <2> QED
    BY <1>1, <2>5, <2>6, <2>7
<1>5. J(t[0], 0)
  <2>1. t[0].from = 1 /\ t[0].found = <<>>
    BY <1>3
  <2> QED
    BY <1>1, <2>1
<1> DEFINE Q == {k \in Nat : k <= n => J(t[k], k)}
<1> HIDE DEF J
<1>6. 0 \in Q
  BY <1>5
<1>7. ASSUME NEW k \in Q PROVE k + 1 \in Q
  <2>1. k \in Nat /\ (k <= n => J(t[k], k))
    OBVIOUS
  <2>2. SUFFICES ASSUME k + 1 <= n PROVE J(t[k + 1], k + 1)
    BY <2>1
  <2>3. k \in 0 .. n - 1 /\ k <= n
    BY <1>1, <2>1, <2>2
  <2> QED
    BY <1>4, <2>1, <2>3
<1>8. Q = Nat
  <2>1. Q \in SUBSET Nat
    OBVIOUS
  <2> HIDE DEF Q
  <2> QED
    BY <1>6, <1>7, <2>1, NumbersByStep
<1>9. J(t[n], n)
  <2>1. n \in Q
    BY <1>1, <1>8
  <2> QED
    BY <1>1, <2>1
<1>10. (l # <<>> => Triple(rs)) /\ (TimesRise(rs) /\ Triple(rs) => l # <<>>)
  <2>1. l # <<>> => Triple(rs)
    BY <1>3, <1>9 DEF J
  <2>2. ASSUME TimesRise(rs), Triple(rs), l = <<>> PROVE FALSE
    <3>1. None3(n)
      <4> HIDE DEF Past, None3
      <4> QED
        BY <1>3, <1>9, <2>2 DEF J
    <3>2. PICK i \in 1 .. n, j \in 1 .. n, m \in 1 .. n : i < j /\ j < m /\ rs[m].at <= rs[i].at + 5
      BY <2>2 DEF Triple
    <3>3. rs[m].at - rs[i].at > 5
      BY <1>1, <3>1, <3>2
    <3> QED
      BY <1>1, <3>2, <3>3
  <2> QED
    BY <2>1, <2>2
<1>11. l \in Seq(LoopsAt(rs))
  <2>1. t[n] \in Searches(rs)
    BY <1>1, <1>3
  <2> QED
    BY <1>3, <2>1 DEF Searches
<1>12. l \in Seq(ToSet(l)) /\ \A b \in ToSet(l) : b \in LoopsAt(rs)
  BY ONLY <1>11 DEF ToSet
<1> QED
  BY <1>10, <1>12, LoopIs DEF Rated, Proper

-----------------------------------------------------------------------------
(* Events                                                                  *)

Events(es, lasts) == Proper(es) /\ WellFormed(es, lasts)

(* What events are: a list, with times.                                    *)
LEMMA EventsAre ==
  ASSUME NEW es, NEW lasts, Events(es, lasts)
  PROVE  /\ Proper(es) /\ Timely(es) /\ Len(es) \in Nat /\ DOMAIN es = 1 .. Len(es) /\ lasts \in Int
         /\ \A n \in 1 .. Len(es) : es[n].at \in Int /\ es[n].took \in Int \cup {None}
<1>1. Proper(es) /\ Len(es) \in Nat /\ DOMAIN es = 1 .. Len(es)
  BY ProperIs DEF Events
<1>2. /\ lasts \in Int
      /\ \A n \in 1 .. Len(es) : es[n].at \in Int /\ es[n].took \in Int \cup {None}
  BY <1>1 DEF Events, WellFormed
<1> QED
  BY <1>1, <1>2 DEF Timely

(* In the order of their times none is earlier than one before it.         *)
LEMMA OrderIs ==
  ASSUME NEW es, NEW lasts, Events(es, lasts), InOrder(es, lasts)
  PROVE  /\ lasts \in Int /\ \A n \in 1 .. Len(es) : es[n].at \in 0 .. lasts
         /\ TimesRise(es) /\ \A m, n \in 1 .. Len(es) : m < n => es[m].at <= es[n].at
BY EventsAre DEF InOrder, TimesRise

(* Some of the events, in their order, are events, and keep the order of   *)
(* their times.                                                            *)
LEMMA SomeEvents ==
  ASSUME NEW es, NEW lasts, Events(es, lasts), NEW P \in SUBSET (1 .. Len(es)), NEW t, t = At(es, P)
  PROVE  /\ Events(t, lasts) /\ ToSet(t) = {es[p] : p \in P} /\ Len(t) = Cardinality(P)
         /\ InOrder(es, lasts) => InOrder(t, lasts)
<1>1. Len(es) \in Nat /\ DOMAIN es = 1 .. Len(es) /\ lasts \in Int
  BY EventsAre
<1>2. \A n \in 1 .. Len(es) : /\ {"type", "agent", "zone", "at", "target", "took"} \subseteq DOMAIN es[n]
                              /\ es[n].at \in Int /\ es[n].took \in Int \cup {None}
  BY <1>1 DEF Events, WellFormed
<1>3. Proper(t) /\ Len(t) = Cardinality(P) /\ ToSet(t) = {es[p] : p \in P}
  BY ONLY <1>1, P \in SUBSET (1 .. Len(es)), t = At(es, P), AtIs
<1>4. PICK g : Taken(t, es, P, g)
  BY ONLY <1>1, P \in SUBSET (1 .. Len(es)), t = At(es, P), AtIs
<1>5. IsList(t) /\ Len(t) \in Nat /\ DOMAIN t = 1 .. Len(t)
  BY <1>3, ProperIs
<1>6. \A k \in 1 .. Len(t) : g[k] \in 1 .. Len(es) /\ t[k] = es[g[k]]
  BY <1>4 DEF Taken
<1>7. \A n \in 1 .. Len(t) : /\ {"type", "agent", "zone", "at", "target", "took"} \subseteq DOMAIN t[n]
                             /\ t[n].at \in Int /\ t[n].took \in Int \cup {None}
  <2> SUFFICES ASSUME NEW n \in 1 .. Len(t)
               PROVE  /\ {"type", "agent", "zone", "at", "target", "took"} \subseteq DOMAIN t[n]
                      /\ t[n].at \in Int /\ t[n].took \in Int \cup {None}
    OBVIOUS
  <2>1. PICK e : e = g[n]
    OBVIOUS
  <2>2. e \in 1 .. Len(es) /\ t[n] = es[e]
    BY <1>6, <2>1
  <2>3. PICK x : x = es[e]
    OBVIOUS
  <2>4. {"type", "agent", "zone", "at", "target", "took"} \subseteq DOMAIN x /\ x.at \in Int /\ x.took \in Int \cup {None}
    BY ONLY <1>2, <2>2, <2>3
  <2> QED
    BY ONLY <2>2, <2>3, <2>4
<1>8. ASSUME InOrder(es, lasts) PROVE InOrder(t, lasts)
  <2>1. \A m, n \in 1 .. Len(t) : m < n => g[m] < g[n]
    BY <1>4 DEF Taken, Rising
  <2>2. /\ \A n \in 1 .. Len(es) : es[n].at \in 0 .. lasts
        /\ \A m, n \in 1 .. Len(es) : m < n => es[m].at <= es[n].at
    BY ONLY <1>1, <1>8 DEF InOrder
  <2>3. \A n \in 1 .. Len(t) : t[n].at \in 0 .. lasts
    BY ONLY <1>6, <2>2
  <2>4. \A m, n \in 1 .. Len(t) : m < n => t[m].at <= t[n].at
    BY ONLY <1>6, <2>1, <2>2
  <2> QED
    BY ONLY <1>5, <2>3, <2>4 DEF InOrder
<1> QED
  BY ONLY <1>1, <1>3, <1>5, <1>7, <1>8 DEF Events, WellFormed

(* The agents of some events, and the events of an agent.                  *)
LEMMA AgentsAre ==
  ASSUME NEW es, NEW lasts, Events(es, lasts), NEW t, t = Agents(es)
  PROVE  /\ Proper(t) /\ Len(t) \in Nat /\ DOMAIN t = 1 .. Len(t)
         /\ ToSet(t) = {es[n].agent : n \in 1 .. Len(es)}
         /\ \A j, k \in 1 .. Len(t) : t[j] = t[k] => j = k
<1>1. PICK s : s = [n \in DOMAIN es |-> es[n].agent]
  OBVIOUS
<1>2. t = Listed(s)
  BY <1>1 DEF Agents, Each
<1>3. Len(es) \in Nat /\ DOMAIN es = 1 .. Len(es)
  BY EventsAre
<1>4. DOMAIN s = 1 .. Len(es) /\ ToSet(s) = {es[n].agent : n \in 1 .. Len(es)}
  BY <1>1, <1>3 DEF ToSet
<1>5. Proper(t) /\ ToSet(t) = ToSet(s) /\ \A j, k \in 1 .. Len(t) : t[j] = t[k] => j = k
  BY ONLY <1>2, <1>3, <1>4, ListedIs
<1> QED
  BY <1>4, <1>5, ProperIs

(* The events of an agent are events in their order, those that are its    *)
(* own.                                                                    *)
LEMMA OfAgentIs ==
  ASSUME NEW es, NEW lasts, Events(es, lasts), NEW a, NEW t, t = OfAgent(es, a)
  PROVE  /\ Events(t, lasts) /\ Len(t) \in Nat /\ (InOrder(es, lasts) => InOrder(t, lasts))
         /\ \A x : x \in ToSet(t) <=> \E n \in 1 .. Len(es) : es[n].agent = a /\ x = es[n]
         /\ \A k \in 1 .. Len(t) : t[k].agent = a
         /\ a \in ToSet(Agents(es)) => Len(t) >= 1
<1>1. PICK P \in SUBSET (1 .. Len(es)) : P = {n \in 1 .. Len(es) : es[n].agent = a}
  OBVIOUS
<1>2. t = At(es, P)
  BY <1>1, EventsAre DEF OfAgent
<1>3. /\ Events(t, lasts) /\ ToSet(t) = {es[p] : p \in P} /\ Len(t) = Cardinality(P)
      /\ InOrder(es, lasts) => InOrder(t, lasts)
  BY <1>2, SomeEvents
<1>4. DOMAIN t = 1 .. Len(t) /\ Len(t) \in Nat
  BY <1>3, EventsAre
<1>5. ASSUME NEW k \in 1 .. Len(t) PROVE t[k].agent = a
  <2>1. t[k] \in ToSet(t)
    BY <1>4 DEF ToSet
  <2>2. PICK p \in P : t[k] = es[p]
    BY <1>3, <2>1
  <2> QED
    BY <1>1, <2>2
<1>6. ASSUME a \in ToSet(Agents(es)) PROVE Len(t) >= 1
  <2>1. PICK n \in 1 .. Len(es) : es[n].agent = a
    BY <1>6, AgentsAre
  <2>2. es[n] \in ToSet(t)
    BY <1>1, <1>3, <2>1
  <2>3. PICK k \in DOMAIN t : TRUE
    BY <2>2 DEF ToSet
  <2> QED
    BY <1>4, <2>3
<1>7. \A x : x \in ToSet(t) <=> \E n \in 1 .. Len(es) : es[n].agent = a /\ x = es[n]
  BY ONLY <1>1, <1>3
<1> QED
  BY ONLY <1>1, <1>3, <1>4, <1>5, <1>6, <1>7

(* Bottlenecks, all of one kind, with severities.                          *)
Reported(list, kind) == Rated(list) /\ \A b \in ToSet(list) : b.kind = kind

LEMMA JoinedReports ==
  ASSUME NEW n, n \in Nat, NEW s, DOMAIN s = 1 .. n, NEW kind, \A k \in 1 .. n : Reported(s[k], kind), NEW t, t = Joined(s)
  PROVE  /\ Reported(t, kind)
         /\ \A a : Holds(t, kind, a) <=> \E k \in 1 .. n : Holds(s[k], kind, a)
<1>1. \A k \in 1 .. n : Proper(s[k]) /\ \A b \in ToSet(s[k]) : b.severity \in Int /\ b.kind = kind
  BY DEF Reported, Rated
<1>2. Proper(t) /\ ToSet(t) = UNION {ToSet(s[k]) : k \in 1 .. n}
  BY ONLY <1>1, JoinedIs, n \in Nat, DOMAIN s = 1 .. n, t = Joined(s)
<1>3. \A b : b \in ToSet(t) <=> \E k \in 1 .. n : b \in ToSet(s[k])
  BY ONLY <1>2
<1>4. Reported(t, kind)
  BY ONLY <1>1, <1>2, <1>3 DEF Reported, Rated
<1> QED
  BY ONLY <1>3, <1>4 DEF Holds

(* A list has elements unless it is empty.                                 *)
LEMMA SomeElement ==
  ASSUME NEW s, Proper(s)
  PROVE  (\E x : x \in ToSet(s)) <=> s # <<>>
<1>1. s \in Seq(ToSet(s)) /\ Len(s) \in Nat /\ DOMAIN s = 1 .. Len(s)
  BY ProperIs DEF Proper
<1>2. s # <<>> => Len(s) # 0
  BY <1>1
<1>3. ASSUME NEW x \in ToSet(s), s = <<>> PROVE FALSE
  BY <1>3 DEF ToSet
<1>4. ASSUME Len(s) # 0 PROVE s[1] \in ToSet(s)
  <2>1. 1 \in DOMAIN s
    BY <1>1, <1>4
  <2> QED
    BY <2>1 DEF ToSet
<1> QED
  BY <1>2, <1>3, <1>4

(* The loops of the agents.                                                *)
LEMMA RetryLoopsAre ==
  ASSUME NEW rs, NEW lasts, Events(rs, lasts), NEW l, l = RetryLoops(rs)
  PROVE  /\ Reported(l, "retry_loop")
         /\ \A a : Holds(l, "retry_loop", a) => Triple(OfAgent(rs, a))
         /\ InOrder(rs, lasts) => \A a : Triple(OfAgent(rs, a)) => Holds(l, "retry_loop", a)
<1>1. PICK ag : ag = Agents(rs)
  OBVIOUS
<1>2. PICK s : s = [n \in DOMAIN ag |-> RetryLoopsOf(OfAgent(rs, ag[n]))]
  OBVIOUS
<1>3. l = Joined(s)
  BY <1>1, <1>2 DEF RetryLoops, Each
<1>4. Len(ag) \in Nat /\ DOMAIN ag = 1 .. Len(ag) /\ ToSet(ag) = {rs[n].agent : n \in 1 .. Len(rs)}
  BY <1>1, AgentsAre
<1>5. \A a : /\ Events(OfAgent(rs, a), lasts) /\ Len(OfAgent(rs, a)) \in Nat
             /\ InOrder(rs, lasts) => TimesRise(OfAgent(rs, a))
             /\ \A k \in 1 .. Len(OfAgent(rs, a)) : OfAgent(rs, a)[k].agent = a
  <2> SUFFICES ASSUME NEW a
               PROVE  /\ Events(OfAgent(rs, a), lasts) /\ Len(OfAgent(rs, a)) \in Nat
                      /\ InOrder(rs, lasts) => TimesRise(OfAgent(rs, a))
                      /\ \A k \in 1 .. Len(OfAgent(rs, a)) : OfAgent(rs, a)[k].agent = a
    OBVIOUS
  <2>1. PICK o : o = OfAgent(rs, a)
    OBVIOUS
  <2>2. /\ Events(o, lasts) /\ Len(o) \in Nat /\ \A k \in 1 .. Len(o) : o[k].agent = a
        /\ InOrder(rs, lasts) => InOrder(o, lasts)
    BY ONLY <2>1, Events(rs, lasts), OfAgentIs
  <2>3. InOrder(rs, lasts) => TimesRise(o)
    BY ONLY <2>2, OrderIs
  <2> QED
    BY ONLY <2>1, <2>2, <2>3
<1>6. ASSUME NEW a, NEW of, of = OfAgent(rs, a), NEW m, m = RetryLoopsOf(of)
      PROVE  /\ Reported(m, "retry_loop") /\ \A b \in ToSet(m) : b.agent = a
             /\ (\E b : b \in ToSet(m)) => Triple(of)
             /\ InOrder(rs, lasts) /\ Triple(of) => \E b : b \in ToSet(m)
  <2>1. Timely(of)
    BY <1>5, <1>6, EventsAre
  <2>2. /\ Rated(m) /\ (m # <<>> => Triple(of)) /\ (TimesRise(of) /\ Triple(of) => m # <<>>)
        /\ \A b \in ToSet(m) : b.kind = "retry_loop" /\ \E n \in 1 .. Len(of) : b.agent = of[n].agent
    BY ONLY <2>1, LoopsAre, m = RetryLoopsOf(of)
  <2>3. (\E b : b \in ToSet(m)) <=> m # <<>>
    BY ONLY <2>2, SomeElement DEF Rated
  <2> QED
    BY <1>5, <1>6, <2>2, <2>3 DEF Reported
<1>7. \A k \in 1 .. Len(ag) : s[k] = RetryLoopsOf(OfAgent(rs, ag[k])) /\ Reported(s[k], "retry_loop")
  BY <1>2, <1>4, <1>6
<1>8. /\ Reported(l, "retry_loop")
      /\ \A a : Holds(l, "retry_loop", a) <=> \E k \in 1 .. Len(ag) : Holds(s[k], "retry_loop", a)
  <2>1. DOMAIN s = 1 .. Len(ag)
    BY <1>2, <1>4
  <2> QED
    BY ONLY <1>3, <1>4, <1>7, <2>1, JoinedReports
<1>9. ASSUME NEW a, Holds(l, "retry_loop", a) PROVE Triple(OfAgent(rs, a))
  <2>1. PICK k \in 1 .. Len(ag) : Holds(s[k], "retry_loop", a)
    BY <1>8, <1>9
  <2>2. PICK b \in ToSet(s[k]) : b.agent = a
    BY <2>1 DEF Holds
  <2>3. b.agent = ag[k] /\ Triple(OfAgent(rs, ag[k]))
    BY <1>6, <1>7, <2>2
  <2> QED
    BY <2>2, <2>3
<1>10. ASSUME InOrder(rs, lasts), NEW a, Triple(OfAgent(rs, a)) PROVE Holds(l, "retry_loop", a)
  <2>1. PICK b : b \in ToSet(RetryLoopsOf(OfAgent(rs, a)))
    BY <1>6, <1>10
  <2>2. b.agent = a /\ b.kind = "retry_loop"
    BY <1>6, <2>1 DEF Reported
  <2>3. a \in ToSet(ag)
    <3>1. PICK o : o = OfAgent(rs, a)
      OBVIOUS
    <3>2. PICK i \in 1 .. Len(o) : TRUE
      BY <1>10, <3>1 DEF Triple
    <3>3. o[i] \in ToSet(o) /\ o[i].agent = a
      <4>1. DOMAIN o = 1 .. Len(o)
        BY <1>5, <3>1, EventsAre
      <4> QED
        BY <1>5, <3>1, <4>1 DEF ToSet
    <3>4. \A x : x \in ToSet(o) => \E n \in 1 .. Len(rs) : rs[n].agent = a /\ x = rs[n]
      BY ONLY <3>1, Events(rs, lasts), OfAgentIs
    <3>5. PICK p \in 1 .. Len(rs) : rs[p].agent = a
      BY <3>3, <3>4
    <3> QED
      BY <1>4, <3>5
  <2>4. PICK k \in 1 .. Len(ag) : ag[k] = a
    BY <1>4, <2>3 DEF ToSet
  <2>5. Holds(s[k], "retry_loop", a)
    BY <1>7, <2>1, <2>2, <2>4 DEF Holds
  <2> QED
    BY <1>8, <2>5
<1> QED
  BY <1>8, <1>9, <1>10

(* Late handoffs: the next events of a target, and how far away they are.  *)
NextOf(es, h) == {n \in DOMAIN es : es[n].agent = h.target /\ es[n].at > h.at}
DelayOf(es, lasts, h) == (IF NextOf(es, h) = {} THEN lasts ELSE es[Min(NextOf(es, h))].at) - h.at
HandsOver(h) == h.type \in HandoffTypes /\ h.target # None
LateOf(es, lasts) == {n \in DOMAIN es : HandsOver(es[n]) /\ DelayOf(es, lasts, es[n]) > 5}
DelayAt(es, lasts, h) == Bottleneck("handoff_delay", h.agent, h.zone, (100 * DelayOf(es, lasts, h)) \div 30, h.at)
Idle(es, lasts, h) ==
  lasts > h.at + 5 /\ \A m \in DOMAIN es : es[m].agent = h.target => es[m].at \notin h.at + 1 .. h.at + 5

LateBy(es, lasts, a) == \E n \in 1 .. Len(es) : es[n].agent = a /\ HandsOver(es[n]) /\ Idle(es, lasts, es[n])

(* A handoff is late when its target does nothing in the five seconds      *)
(* behind it; in the order of their times it is late only then.            *)
LEMMA DelayIs ==
  ASSUME NEW es, NEW lasts, Events(es, lasts), NEW h, h \in ToSet(es)
  PROVE  /\ DelayOf(es, lasts, h) \in Int /\ (Idle(es, lasts, h) => DelayOf(es, lasts, h) > 5)
         /\ InOrder(es, lasts) /\ DelayOf(es, lasts, h) > 5 => Idle(es, lasts, h)
<1>1. /\ Len(es) \in Nat /\ DOMAIN es = 1 .. Len(es) /\ lasts \in Int
      /\ \A n \in 1 .. Len(es) : es[n].at \in Int
  BY EventsAre
<1>2. h.at \in Int
  BY <1>1 DEF ToSet
<1>3. PICK N \in SUBSET (1 .. Len(es)) : N = NextOf(es, h)
  BY <1>1 DEF NextOf
<1>4. \A n \in 1 .. Len(es) : n \in N <=> es[n].agent = h.target /\ es[n].at > h.at
  BY <1>1, <1>3 DEF NextOf
<1>5. CASE N = {}
  <2>1. DelayOf(es, lasts, h) = lasts - h.at
    BY <1>3, <1>5 DEF DelayOf
  <2>2. \A m \in DOMAIN es : es[m].agent = h.target => es[m].at \notin h.at + 1 .. h.at + 5
    BY <1>1, <1>2, <1>4, <1>5
  <2> QED
    BY <1>1, <1>2, <2>1, <2>2 DEF Idle
<1>6. CASE N # {}
  <2>1. PICK o : o = Min(N)
    OBVIOUS
  <2>2. N \in SUBSET Nat
    BY <1>1, <1>3
  <2>3. o \in N /\ \A n \in N : o <= n
    BY ONLY <1>6, <2>1, <2>2, LeastOf
  <2>4. DelayOf(es, lasts, h) = es[o].at - h.at
    BY <1>3, <1>6, <2>1 DEF DelayOf
  <2>5. o \in 1 .. Len(es) /\ es[o].agent = h.target /\ es[o].at > h.at /\ es[o].at \in Int
    BY <1>1, <1>4, <2>3
  <2>6. ASSUME InOrder(es, lasts), NEW n \in N PROVE es[o].at <= es[n].at
    <3>1. n \in 1 .. Len(es) /\ o <= n /\ es[n].at \in Int
      BY <1>1, <2>3
    <3>2. o < n => es[o].at <= es[n].at
      BY <2>5, <2>6, <3>1, OrderIs
    <3>3. o = n => es[o].at <= es[n].at
      BY <2>5
    <3> QED
      BY <1>1, <2>5, <3>1, <3>2, <3>3
  <2>7. ASSUME InOrder(es, lasts), es[o].at - h.at > 5 PROVE Idle(es, lasts, h)
    <3>1. lasts > h.at + 5
      <4>1. es[o].at \in 0 .. lasts
        BY <2>5, <2>7, OrderIs
      <4> QED
        BY <1>1, <1>2, <2>5, <2>7, <4>1
    <3>2. ASSUME NEW m \in DOMAIN es, es[m].agent = h.target, es[m].at \in h.at + 1 .. h.at + 5 PROVE FALSE
      <4>1. m \in N
        BY <1>1, <1>2, <1>4, <3>2
      <4>2. es[o].at <= es[m].at
        BY <2>6, <2>7, <4>1
      <4> QED
        BY <1>1, <1>2, <2>5, <2>7, <3>2, <4>2
    <3> QED
      BY <3>1, <3>2 DEF Idle
  <2>8. ASSUME Idle(es, lasts, h) PROVE es[o].at - h.at > 5
    <3>1. es[o].at \notin h.at + 1 .. h.at + 5
      BY <1>1, <2>5, <2>8 DEF Idle
    <3> QED
      BY <1>1, <1>2, <2>5, <3>1
  <2> QED
    BY <1>1, <1>2, <2>4, <2>5, <2>7, <2>8
<1> QED
  BY <1>5, <1>6

(* The late handoffs that are reported of an agent.                        *)
LEMMA DelaysAre ==
  ASSUME NEW es, NEW lasts, Events(es, lasts), NEW l, l = HandoffDelays(es, lasts)
  PROVE  /\ Reported(l, "handoff_delay")
         /\ \A a : LateBy(es, lasts, a) => Holds(l, "handoff_delay", a)
         /\ InOrder(es, lasts) => \A a : Holds(l, "handoff_delay", a) => LateBy(es, lasts, a)
<1>1. Len(es) \in Nat /\ DOMAIN es = 1 .. Len(es) /\ Proper(es)
  BY EventsAre
<1>2. PICK P \in SUBSET (1 .. Len(es)) : P = LateOf(es, lasts)
  BY <1>1 DEF LateOf
<1>3. PICK t : t = At(es, P)
  OBVIOUS
<1>4. l = [k \in DOMAIN t |-> DelayAt(es, lasts, t[k])]
  <2>1. l = [k \in DOMAIN At(es, LateOf(es, lasts)) |-> DelayAt(es, lasts, At(es, LateOf(es, lasts))[k])]
    BY Zenon DEF HandoffDelays, Each, DelayAt, LateOf, HandsOver, DelayOf, NextOf
  <2> QED
    BY ONLY <1>2, <1>3, <2>1
<1>5. Proper(t) /\ ToSet(t) = {es[p] : p \in P}
  BY ONLY <1>1, <1>3, P \in SUBSET (1 .. Len(es)), AtIs
<1>6. Len(t) \in Nat /\ DOMAIN t = 1 .. Len(t)
  BY <1>5, ProperIs
<1>7. l = [k \in 1 .. Len(t) |-> l[k]]
  BY ONLY <1>4, <1>6
<1>8. Proper(l) /\ Len(l) = Len(t) /\ DOMAIN l = 1 .. Len(t)
  BY ONLY <1>6, <1>7, ListIs
<1>9. \A n \in 1 .. Len(es) : es[n] \in ToSet(es)
  BY <1>1 DEF ToSet
<1>10. \A b : b \in ToSet(l) <=> \E k \in 1 .. Len(t) : b = DelayAt(es, lasts, t[k])
  BY ONLY <1>4, <1>6, <1>8 DEF ToSet
<1>11. \A x : x \in ToSet(t) <=> \E k \in 1 .. Len(t) : x = t[k]
  BY ONLY <1>6 DEF ToSet
<1>12. \A x : x \in ToSet(t) <=> \E p \in P : x = es[p]
  BY ONLY <1>5
<1>13. \A b : b \in ToSet(l) <=> \E p \in P : b = DelayAt(es, lasts, es[p])
  <2>1. ASSUME NEW b, b \in ToSet(l) PROVE \E p \in P : b = DelayAt(es, lasts, es[p])
    <3>1. PICK k \in 1 .. Len(t) : b = DelayAt(es, lasts, t[k])
      BY ONLY <1>10, <2>1
    <3>2. PICK p \in P : t[k] = es[p]
      BY ONLY <1>11, <1>12, k \in 1 .. Len(t)
    <3> QED
      BY ONLY <3>1, <3>2
  <2>2. ASSUME NEW p \in P PROVE DelayAt(es, lasts, es[p]) \in ToSet(l)
    <3>1. PICK k \in 1 .. Len(t) : t[k] = es[p]
      BY ONLY <1>11, <1>12, p \in P
    <3>2. DelayAt(es, lasts, t[k]) = DelayAt(es, lasts, es[p])
      BY ONLY <3>1
    <3> QED
      BY ONLY <1>10, <3>2, k \in 1 .. Len(t)
  <2> QED
    BY ONLY <2>1, <2>2
<1>14. \A p \in 1 .. Len(es) : /\ HandsOver(es[p]) /\ Idle(es, lasts, es[p]) => p \in P
                               /\ InOrder(es, lasts) /\ p \in P => HandsOver(es[p]) /\ Idle(es, lasts, es[p])
  <2>1. \A p \in 1 .. Len(es) : p \in P <=> HandsOver(es[p]) /\ DelayOf(es, lasts, es[p]) > 5
    BY ONLY <1>1, <1>2 DEF LateOf
  <2> QED
    BY ONLY <1>9, <2>1, DelayIs, Events(es, lasts)
<1>15. \A p \in 1 .. Len(es) : /\ DelayAt(es, lasts, es[p]).kind = "handoff_delay"
                               /\ DelayAt(es, lasts, es[p]).agent = es[p].agent
                               /\ DelayAt(es, lasts, es[p]).severity \in Int
  <2> SUFFICES ASSUME NEW p \in 1 .. Len(es)
               PROVE  /\ DelayAt(es, lasts, es[p]).kind = "handoff_delay"
                      /\ DelayAt(es, lasts, es[p]).agent = es[p].agent
                      /\ DelayAt(es, lasts, es[p]).severity \in Int
    OBVIOUS
  <2>1. PICK d : d = DelayOf(es, lasts, es[p])
    OBVIOUS
  <2>2. d \in Int
    BY ONLY <1>9, <2>1, DelayIs, Events(es, lasts), p \in 1 .. Len(es)
  <2>3. (100 * d) \div 30 \in Int
    BY ONLY <2>2
  <2> QED
    BY ONLY <2>1, <2>3 DEF DelayAt, Bottleneck, Cap
<1>16. Reported(l, "handoff_delay")
  BY ONLY <1>8, <1>13, <1>15, P \in SUBSET (1 .. Len(es)) DEF Reported, Rated
<1> QED
  BY ONLY <1>13, <1>14, <1>15, <1>16, P \in SUBSET (1 .. Len(es)) DEF Holds, LateBy

(* A bottleneck that is reported on a condition.                           *)
LEMMA SomeReports ==
  ASSUME NEW c, c \in BOOLEAN, NEW b, NEW kind, c => b.kind = kind /\ b.severity \in Int, NEW l, l = Some(c, b)
  PROVE  Reported(l, kind) /\ \A a : Holds(l, kind, a) <=> c /\ b.agent = a
<1>1. CASE c
  <2>1. l = <<b>>
    BY <1>1 DEF Some
  <2>2. ToSet(l) = {b}
    BY <2>1 DEF ToSet
  <2>3. Proper(l)
    BY <2>1, <2>2 DEF Proper
  <2> QED
    BY <1>1, <2>2, <2>3 DEF Reported, Rated, Holds
<1>2. CASE ~c
  <2>1. l = <<>>
    BY <1>2 DEF Some
  <2>2. ToSet(l) = {}
    BY <2>1 DEF ToSet
  <2>3. Proper(l)
    BY <2>1, <2>2 DEF Proper
  <2> QED
    BY <1>2, <2>2, <2>3 DEF Reported, Rated, Holds
<1> QED
  BY <1>1, <1>2

LEMMA NoReports ==
  ASSUME NEW l, l = <<>>, NEW kind
  PROVE  Reported(l, kind) /\ \A a : ~Holds(l, kind, a)
<1>1. Proper(l) /\ ToSet(l) = {}
  BY DEF Proper, ToSet
<1> QED
  BY <1>1 DEF Reported, Rated, Holds

(* Agents that fall silent.                                                *)
SilentAt(lasts, last) ==
  Bottleneck("stalled_orchestration", last.agent, last.zone, (100 * (lasts - last.at)) \div 30, last.at)
SilentOf(lasts, of) == Some(Len(of) >= 3 /\ lasts - Last(of).at > 10, SilentAt(lasts, Last(of)))
Stuck(es, lasts, a) ==
  /\ lasts >= 20 /\ Len(OfAgent(es, a)) >= 3
  /\ \A n \in DOMAIN es : es[n].agent = a => es[n].at < lasts - 10

(* An agent is silent exactly when none of its events lies in the last     *)
(* ten seconds.                                                            *)
LEMMA SilenceIs ==
  ASSUME NEW es, NEW lasts, Events(es, lasts), NEW a, a \in ToSet(Agents(es)), NEW of, of = OfAgent(es, a),
         NEW l, l = SilentOf(lasts, of), lasts >= 20
  PROVE  /\ Reported(l, "stalled_orchestration")
         /\ \A b : Holds(l, "stalled_orchestration", b) => b = a
         /\ Stuck(es, lasts, a) => Holds(l, "stalled_orchestration", a)
         /\ InOrder(es, lasts) /\ Holds(l, "stalled_orchestration", a) => Stuck(es, lasts, a)
<1>1. /\ Events(of, lasts) /\ Len(of) \in Nat /\ Len(of) >= 1 /\ (InOrder(es, lasts) => InOrder(of, lasts))
      /\ \A x : x \in ToSet(of) <=> \E n \in 1 .. Len(es) : es[n].agent = a /\ x = es[n]
      /\ \A k \in 1 .. Len(of) : of[k].agent = a
  BY ONLY OfAgentIs, of = OfAgent(es, a), Events(es, lasts), a \in ToSet(Agents(es))
<1>2. Len(es) \in Nat /\ DOMAIN es = 1 .. Len(es) /\ lasts \in Int
  BY EventsAre
<1>3. DOMAIN of = 1 .. Len(of) /\ \A n \in 1 .. Len(of) : of[n].at \in Int
  BY ONLY <1>1, EventsAre
<1>4. PICK last : last = of[Len(of)]
  OBVIOUS
<1>5. Len(of) \in 1 .. Len(of)
  BY <1>1
<1>6. last.agent = a /\ last.at \in Int /\ Last(of) = last
  BY ONLY <1>1, <1>3, <1>4, <1>5 DEF Last
<1>7. ASSUME InOrder(es, lasts), NEW n \in 1 .. Len(of) PROVE of[n].at <= last.at
  <2>1. n < Len(of) => of[n].at <= last.at
    BY <1>1, <1>4, <1>5, <1>7, OrderIs
  <2>2. n = Len(of) => of[n].at <= last.at
    BY <1>2, <1>4, <1>6
  <2> QED
    BY <1>1, <2>1, <2>2
<1>8. /\ (\A n \in DOMAIN es : es[n].agent = a => es[n].at < lasts - 10) => lasts - last.at > 10
      /\ InOrder(es, lasts) /\ lasts - last.at > 10 => \A n \in DOMAIN es : es[n].agent = a => es[n].at < lasts - 10
  <2>1. ASSUME \A n \in DOMAIN es : es[n].agent = a => es[n].at < lasts - 10 PROVE lasts - last.at > 10
    <3>1. last \in ToSet(of)
      BY <1>3, <1>4, <1>5 DEF ToSet
    <3>2. PICK n \in 1 .. Len(es) : es[n].agent = a /\ last = es[n]
      BY <1>1, <3>1
    <3>3. last.at < lasts - 10
      BY <1>2, <2>1, <3>2
    <3> QED
      BY <1>2, <1>6, <3>3
  <2>2. ASSUME InOrder(es, lasts), lasts - last.at > 10, NEW n \in DOMAIN es, es[n].agent = a PROVE es[n].at < lasts - 10
    <3>1. es[n] \in ToSet(of)
      BY <1>1, <1>2, <2>2
    <3>2. PICK k \in 1 .. Len(of) : of[k] = es[n]
      BY <1>3, <3>1 DEF ToSet
    <3>3. es[n].at <= last.at /\ es[n].at \in Int
      BY <1>3, <1>7, <2>2, <3>2
    <3> QED
      BY <1>2, <1>6, <2>2, <3>3
  <2> QED
    BY <2>1, <2>2
<1>9. PICK c \in BOOLEAN : c <=> (Len(of) >= 3 /\ lasts - last.at > 10)
  OBVIOUS
<1>10. PICK b : b = SilentAt(lasts, last)
  OBVIOUS
<1>11. l = Some(c, b)
  BY ONLY <1>6, <1>9, <1>10, l = SilentOf(lasts, of) DEF SilentOf, Some
<1>12. b.kind = "stalled_orchestration" /\ b.agent = a /\ b.severity \in Int
  <2>1. (100 * (lasts - last.at)) \div 30 \in Int
    BY <1>2, <1>6
  <2> QED
    BY ONLY <1>6, <1>10, <2>1 DEF SilentAt, Bottleneck, Cap
<1>13. Reported(l, "stalled_orchestration") /\ \A x : Holds(l, "stalled_orchestration", x) <=> c /\ b.agent = x
  BY ONLY <1>11, <1>12, SomeReports, c \in BOOLEAN
<1>14. (Stuck(es, lasts, a) => c) /\ (InOrder(es, lasts) /\ c => Stuck(es, lasts, a))
  BY ONLY <1>8, <1>9, of = OfAgent(es, a), lasts >= 20 DEF Stuck
<1> QED
  BY ONLY <1>12, <1>13, <1>14

(* The stalls that are reported of an agent.                               *)
LEMMA StallsAre ==
  ASSUME NEW es, NEW lasts, Events(es, lasts), NEW l, l = Stalled(es, lasts)
  PROVE  /\ Reported(l, "stalled_orchestration")
         /\ \A a \in ToSet(Agents(es)) : Stuck(es, lasts, a) => Holds(l, "stalled_orchestration", a)
         /\ InOrder(es, lasts) => \A a \in ToSet(Agents(es)) : Holds(l, "stalled_orchestration", a) => Stuck(es, lasts, a)
<1>1. CASE lasts < 20
  <2>1. l = <<>> /\ lasts \in Int
    BY <1>1, EventsAre DEF Stalled
  <2>2. \A a : ~Stuck(es, lasts, a)
    BY <1>1, <2>1 DEF Stuck
  <2> QED
    BY <2>1, <2>2, NoReports
<1>2. CASE ~(lasts < 20)
  <2>1. lasts >= 20
    BY <1>2, EventsAre
  <2>2. PICK ag : ag = Agents(es)
    OBVIOUS
  <2>3. PICK s : s = [n \in DOMAIN ag |-> SilentOf(lasts, OfAgent(es, ag[n]))]
    OBVIOUS
  <2>4. l = Joined(s)
    BY <1>2, <2>2, <2>3 DEF Stalled, Each, SilentOf, SilentAt
  <2>5. Len(ag) \in Nat /\ DOMAIN ag = 1 .. Len(ag) /\ \A a : a \in ToSet(ag) <=> \E k \in 1 .. Len(ag) : a = ag[k]
    <3>1. Len(ag) \in Nat /\ DOMAIN ag = 1 .. Len(ag)
      BY <2>2, AgentsAre
    <3> QED
      BY ONLY <3>1 DEF ToSet
  <2>6. \A k \in 1 .. Len(ag) : /\ Reported(s[k], "stalled_orchestration")
                                /\ \A b : Holds(s[k], "stalled_orchestration", b) => b = ag[k]
                                /\ Stuck(es, lasts, ag[k]) => Holds(s[k], "stalled_orchestration", ag[k])
                                /\ InOrder(es, lasts) /\ Holds(s[k], "stalled_orchestration", ag[k]) => Stuck(es, lasts, ag[k])
    <3> SUFFICES ASSUME NEW k \in 1 .. Len(ag)
                 PROVE  /\ Reported(s[k], "stalled_orchestration")
                        /\ \A b : Holds(s[k], "stalled_orchestration", b) => b = ag[k]
                        /\ Stuck(es, lasts, ag[k]) => Holds(s[k], "stalled_orchestration", ag[k])
                        /\ InOrder(es, lasts) /\ Holds(s[k], "stalled_orchestration", ag[k]) => Stuck(es, lasts, ag[k])
      OBVIOUS
    <3>1. PICK a, of : a = ag[k] /\ of = OfAgent(es, a)
      OBVIOUS
    <3>2. a \in ToSet(Agents(es)) /\ s[k] = SilentOf(lasts, of)
      BY ONLY <2>2, <2>3, <2>5, <3>1, k \in 1 .. Len(ag)
    <3> QED
      BY ONLY <2>1, <3>1, <3>2, Events(es, lasts), SilenceIs
  <2>7. DOMAIN s = 1 .. Len(ag)
    BY <2>3, <2>5
  <2>8. /\ Reported(l, "stalled_orchestration")
        /\ \A a : Holds(l, "stalled_orchestration", a) <=> \E k \in 1 .. Len(ag) : Holds(s[k], "stalled_orchestration", a)
    BY ONLY <2>4, <2>5, <2>6, <2>7, JoinedReports
  <2>9. ASSUME NEW a \in ToSet(Agents(es))
        PROVE  /\ Stuck(es, lasts, a) => Holds(l, "stalled_orchestration", a)
               /\ InOrder(es, lasts) /\ Holds(l, "stalled_orchestration", a) => Stuck(es, lasts, a)
    <3>1. PICK k \in 1 .. Len(ag) : a = ag[k]
      BY ONLY <2>2, <2>5, a \in ToSet(Agents(es))
    <3>2. ASSUME InOrder(es, lasts), Holds(l, "stalled_orchestration", a) PROVE Stuck(es, lasts, a)
      <4>1. PICK i \in 1 .. Len(ag) : Holds(s[i], "stalled_orchestration", a)
        BY ONLY <2>8, <3>2
      <4>2. a = ag[i]
        BY ONLY <2>6, <4>1, i \in 1 .. Len(ag)
      <4> QED
        BY ONLY <2>6, <3>2, <4>1, <4>2, i \in 1 .. Len(ag)
    <3>3. ASSUME Stuck(es, lasts, a) PROVE Holds(l, "stalled_orchestration", a)
      BY ONLY <2>6, <2>8, <3>1, <3>3, k \in 1 .. Len(ag)
    <3> QED
      BY ONLY <3>2, <3>3
  <2> QED
    BY ONLY <2>8, <2>9
<1> QED
  BY <1>1, <1>2

(* What is known of the scores of the agents.                              *)
Rates(s, of) ==
  /\ s.agent = of[1].agent /\ s.events = Len(of) /\ s.retries = Count(of, RetryTypes)
  /\ s.avg \in Int \cup {None}

LEMMA CountIs ==
  ASSUME NEW es, NEW lasts, Events(es, lasts), NEW types
  PROVE  Count(es, types) \in Nat /\ Count(es, types) <= Len(es)
<1>1. Len(es) \in Nat /\ DOMAIN es = 1 .. Len(es)
  BY EventsAre
<1>2. PICK P \in SUBSET (1 .. Len(es)) : P = {n \in DOMAIN es : es[n].type \in types}
  BY <1>1
<1>3. Cardinality(P) \in Nat /\ Cardinality(P) <= Len(es)
  BY ONLY <1>1, CountPlaces, P \in SUBSET (1 .. Len(es))
<1> QED
  BY ONLY <1>2, <1>3 DEF Count

(* What the score of an agent says of its events.                          *)
LEMMA ScoreIs ==
  ASSUME NEW of, NEW lasts, Events(of, lasts)
  PROVE  Rates(Score(of), of)
<1>1. Len(of) \in Nat /\ DOMAIN of = 1 .. Len(of)
  BY EventsAre
<1>2. PICK P \in SUBSET (1 .. Len(of)) : P = {n \in DOMAIN of : of[n].took # None}
  BY <1>1
<1>3. PICK t : t = At(of, P)
  OBVIOUS
<1>4. Events(t, lasts) /\ ToSet(t) = {of[p] : p \in P}
  BY ONLY <1>3, SomeEvents, Events(of, lasts), P \in SUBSET (1 .. Len(of))
<1>5. Len(t) \in Nat /\ DOMAIN t = 1 .. Len(t)
  BY <1>4, EventsAre
<1>6. \A k \in 1 .. Len(t) : t[k].took \in Int
  <2> SUFFICES ASSUME NEW k \in 1 .. Len(t) PROVE t[k].took \in Int
    OBVIOUS
  <2>1. t[k] \in ToSet(t)
    BY <1>5 DEF ToSet
  <2>2. PICK p \in P : t[k] = of[p]
    BY <1>4, <2>1
  <2>3. of[p].took # None /\ of[p].took \in Int \cup {None}
    BY <1>2, EventsAre
  <2> QED
    BY <2>2, <2>3
<1>7. PICK s : s = [n \in 1 .. Len(t) |-> 1000 * t[n].took]
  OBVIOUS
<1>8. Len(s) = Len(t) /\ DOMAIN s = 1 .. Len(t) /\ \A k \in 1 .. Len(t) : s[k] \in Int
  BY ONLY <1>5, <1>6, <1>7
<1>9. SumOf(s) \in Int
  BY ONLY <1>5, <1>8, SumBounds, 0 \in Int
<1>10. Mean(s) \in Int \cup {None}
  <2>1. s # <<>> => Len(s) # 0
    BY ONLY <1>5, <1>7, <1>8
  <2>2. s # <<>> => SumOf(s) \div Len(s) \in Int
    BY ONLY <1>5, <1>8, <1>9, <2>1
  <2> QED
    BY ONLY <2>2 DEF Mean
<1>11. Score(of).avg = Mean(s)
  <2>1. Each(At(of, P), LAMBDA e : 1000 * e.took) = s
    BY ONLY <1>3, <1>5, <1>7 DEF Each
  <2> QED
    BY <1>2, <2>1 DEF Score
<1>12. Score(of).agent = of[1].agent /\ Score(of).events = Len(of) /\ Score(of).retries = Count(of, RetryTypes)
  BY DEF Score
<1> QED
  BY ONLY <1>10, <1>11, <1>12 DEF Rates

(* There is one score for each agent.                                      *)
LEMMA ScoresAre ==
  ASSUME NEW es, NEW lasts, Events(es, lasts), NEW ag, ag = Agents(es), NEW s, s = Scores(es)
  PROVE  /\ Proper(s) /\ Len(s) = Len(ag) /\ DOMAIN s = 1 .. Len(ag)
         /\ \A k \in 1 .. Len(ag) : /\ Rates(s[k], OfAgent(es, ag[k])) /\ s[k].agent = ag[k] /\ s[k].avg \in Int \cup {None}
                                    /\ s[k].events \in Nat /\ s[k].events >= 1 /\ s[k].retries \in Nat
<1>1. Len(ag) \in Nat /\ DOMAIN ag = 1 .. Len(ag)
  BY AgentsAre
<1>2. s = [k \in 1 .. Len(ag) |-> Score(OfAgent(es, ag[k]))]
  BY <1>1 DEF Scores, Each
<1>3. s = [k \in 1 .. Len(ag) |-> s[k]]
  BY ONLY <1>2
<1>4. Proper(s) /\ Len(s) = Len(ag) /\ DOMAIN s = 1 .. Len(ag)
  BY ONLY <1>1, <1>3, ListIs
<1>5. ASSUME NEW k \in 1 .. Len(ag)
      PROVE  /\ Rates(s[k], OfAgent(es, ag[k])) /\ s[k].agent = ag[k] /\ s[k].avg \in Int \cup {None}
             /\ s[k].events \in Nat /\ s[k].events >= 1 /\ s[k].retries \in Nat
  <2>1. PICK a, of : a = ag[k] /\ of = OfAgent(es, a)
    OBVIOUS
  <2>2. a \in ToSet(Agents(es))
    BY <1>1, <2>1 DEF ToSet
  <2>3. Events(of, lasts) /\ Len(of) \in Nat /\ Len(of) >= 1 /\ \A m \in 1 .. Len(of) : of[m].agent = a
    BY ONLY <2>1, <2>2, OfAgentIs, Events(es, lasts)
  <2>4. Rates(s[k], of) /\ Count(of, RetryTypes) \in Nat
    <3>1. Rates(Score(of), of)
      BY ONLY <2>3, ScoreIs
    <3>2. Count(of, RetryTypes) \in Nat
      BY ONLY <2>3, CountIs
    <3> QED
      BY ONLY <1>2, <2>1, <3>1, <3>2, k \in 1 .. Len(ag)
  <2>5. of[1].agent = a
    BY ONLY <2>3
  <2> QED
    BY ONLY <2>1, <2>3, <2>4, <2>5 DEF Rates
<1> QED
  BY ONLY <1>4, <1>5

(* The zones of some events.                                               *)
LEMMA ZonesAre ==
  ASSUME NEW es, NEW lasts, Events(es, lasts), NEW t, t = Zones(es)
  PROVE  /\ Proper(t) /\ Len(t) \in Nat /\ DOMAIN t = 1 .. Len(t)
         /\ \A z : z \in ToSet(t) <=> \E n \in 1 .. Len(es) : z = es[n].zone /\ z # None
<1>1. Len(es) \in Nat /\ DOMAIN es = 1 .. Len(es)
  BY EventsAre
<1>2. PICK P \in SUBSET (1 .. Len(es)) : P = {n \in DOMAIN es : es[n].zone # None}
  BY <1>1
<1>3. PICK o : o = At(es, P)
  OBVIOUS
<1>4. Events(o, lasts) /\ ToSet(o) = {es[p] : p \in P}
  BY ONLY <1>3, SomeEvents, Events(es, lasts), P \in SUBSET (1 .. Len(es))
<1>5. Len(o) \in Nat /\ DOMAIN o = 1 .. Len(o)
  BY ONLY <1>4, EventsAre
<1>6. PICK s : s = [n \in DOMAIN o |-> o[n].zone]
  OBVIOUS
<1>7. t = Listed(s)
  BY <1>2, <1>3, <1>6 DEF Zones, Each
<1>8. DOMAIN s = 1 .. Len(o)
  BY ONLY <1>5, <1>6
<1>9. Proper(t) /\ ToSet(t) = ToSet(s)
  BY ONLY <1>5, <1>7, <1>8, ListedIs
<1>10. \A z : z \in ToSet(s) <=> \E n \in 1 .. Len(o) : z = o[n].zone
  BY ONLY <1>5, <1>6, <1>8 DEF ToSet
<1>11. \A x : x \in ToSet(o) <=> \E n \in 1 .. Len(o) : x = o[n]
  BY ONLY <1>5 DEF ToSet
<1>12. \A x : x \in ToSet(o) <=> \E p \in P : x = es[p]
  BY ONLY <1>4
<1>13. ASSUME NEW z \in ToSet(s) PROVE \E n \in 1 .. Len(es) : z = es[n].zone /\ z # None
  <2>1. PICK n \in 1 .. Len(o) : z = o[n].zone
    BY ONLY <1>10, z \in ToSet(s)
  <2>2. PICK p \in P : o[n] = es[p]
    BY ONLY <1>11, <1>12, n \in 1 .. Len(o)
  <2> QED
    BY ONLY <1>1, <1>2, <2>1, <2>2, p \in P
<1>14. ASSUME NEW n \in 1 .. Len(es), es[n].zone # None PROVE es[n].zone \in ToSet(s)
  <2>1. n \in P
    BY ONLY <1>1, <1>2, <1>14, n \in 1 .. Len(es)
  <2>2. PICK k \in 1 .. Len(o) : o[k] = es[n]
    BY ONLY <1>11, <1>12, <2>1
  <2>3. o[k].zone = es[n].zone
    BY ONLY <2>2
  <2> QED
    BY ONLY <1>10, <2>3, k \in 1 .. Len(o)
<1> QED
  BY ONLY <1>9, <1>13, <1>14, ProperIs

(* The zones in which anomalies are many.                                  *)
ConcentratedIn(z, in, bad) ==
  Some(Len(in) >= 5 /\ 5 * Len(bad) >= 2 * Len(in),
       Bottleneck("anomaly_concentration", None, z, (150 * Len(bad)) \div Len(in), bad[1].at))
EventsIn(es, z) == At(es, {n \in DOMAIN es : es[n].zone = z})

(* The events of some types are events in their order, those of these      *)
(* types.                                                                  *)
LEMMA TypedIs ==
  ASSUME NEW es, NEW lasts, Events(es, lasts), NEW types, NEW t, t = Typed(es, types)
  PROVE  /\ Events(t, lasts) /\ Len(t) \in Nat /\ DOMAIN t = 1 .. Len(t)
         /\ InOrder(es, lasts) => InOrder(t, lasts)
         /\ \A x : x \in ToSet(t) <=> \E n \in 1 .. Len(es) : es[n].type \in types /\ x = es[n]
<1>1. Len(es) \in Nat /\ DOMAIN es = 1 .. Len(es)
  BY EventsAre
<1>2. PICK P \in SUBSET (1 .. Len(es)) : P = {n \in DOMAIN es : es[n].type \in types}
  BY <1>1
<1>3. t = At(es, P)
  BY <1>2 DEF Typed
<1>4. Events(t, lasts) /\ ToSet(t) = {es[p] : p \in P} /\ (InOrder(es, lasts) => InOrder(t, lasts))
  BY ONLY <1>3, SomeEvents, Events(es, lasts), P \in SUBSET (1 .. Len(es))
<1>5. \A x : x \in ToSet(t) <=> \E n \in 1 .. Len(es) : es[n].type \in types /\ x = es[n]
  BY ONLY <1>1, <1>2, <1>4
<1> QED
  BY ONLY <1>4, <1>5, EventsAre

(* Concentrations of anomalies are reported as nothing else.               *)
LEMMA ConcentrationsAre ==
  ASSUME NEW es, NEW lasts, Events(es, lasts), NEW l, l = AnomalyConcentration(es)
  PROVE  Reported(l, "anomaly_concentration")
<1>1. PICK zs : zs = Zones(es)
  OBVIOUS
<1>2. PICK s : s = [n \in DOMAIN zs |-> ConcentratedIn(zs[n], EventsIn(es, zs[n]), Typed(EventsIn(es, zs[n]), AnomalyTypes))]
  OBVIOUS
<1>3. l = Joined(s)
  BY <1>1, <1>2 DEF AnomalyConcentration, Each, ConcentratedIn, EventsIn
<1>4. Len(zs) \in Nat /\ DOMAIN zs = 1 .. Len(zs)
  BY ONLY <1>1, Events(es, lasts), ZonesAre
<1>5. ASSUME NEW k \in 1 .. Len(zs) PROVE Reported(s[k], "anomaly_concentration")
  <2>1. PICK z, in, bad : z = zs[k] /\ in = EventsIn(es, z) /\ bad = Typed(in, AnomalyTypes)
    OBVIOUS
  <2>2. PICK P \in SUBSET (1 .. Len(es)) : P = {n \in DOMAIN es : es[n].zone = z}
    <3>1. DOMAIN es = 1 .. Len(es)
      BY EventsAre
    <3> QED
      BY <3>1
  <2>3. Events(in, lasts)
    <3>1. in = At(es, P)
      BY <2>1, <2>2 DEF EventsIn
    <3> QED
      BY ONLY <3>1, SomeEvents, Events(es, lasts), P \in SUBSET (1 .. Len(es))
  <2>4. Len(in) \in Nat
    BY ONLY <2>3, EventsAre
  <2>5. Len(bad) \in Nat
    BY ONLY <2>1, <2>3, TypedIs
  <2>6. PICK c \in BOOLEAN : c <=> (Len(in) >= 5 /\ 5 * Len(bad) >= 2 * Len(in))
    OBVIOUS
  <2>7. PICK b : b = Bottleneck("anomaly_concentration", None, z, (150 * Len(bad)) \div Len(in), bad[1].at)
    OBVIOUS
  <2>8. s[k] = Some(c, b)
    <3>1. s[k] = ConcentratedIn(z, in, bad)
      BY ONLY <1>2, <1>4, <2>1, k \in 1 .. Len(zs)
    <3> QED
      BY ONLY <2>6, <2>7, <3>1 DEF ConcentratedIn, Some
  <2>9. c => b.kind = "anomaly_concentration" /\ b.severity \in Int
    <3>1. c => (150 * Len(bad)) \div Len(in) \in Int
      BY ONLY <2>4, <2>5, <2>6
    <3> QED
      BY ONLY <2>7, <3>1 DEF Bottleneck, Cap
  <2> QED
    BY ONLY <2>8, <2>9, SomeReports, c \in BOOLEAN
<1>6. DOMAIN s = 1 .. Len(zs)
  BY ONLY <1>2, <1>4
<1> QED
  BY ONLY <1>3, <1>4, <1>5, <1>6, JoinedReports

(* Queues that build up.                                                   *)
SizeOf(es, b) == Cardinality({n \in DOMAIN es : es[n].at \div 3 = b})
SpikeAt(bucket, size, before) ==
  Bottleneck("queue_buildup", None, None, (100 * (size - 3 * before)) \div (3 * before), 3 * bucket)

(* Queues that build up are reported as nothing else.                      *)
LEMMA BuildupsAre ==
  ASSUME NEW es, NEW lasts, Events(es, lasts), NEW l, l = QueueBuildup(es)
  PROVE  Reported(l, "queue_buildup")
<1>1. Len(es) \in Nat /\ DOMAIN es = 1 .. Len(es) /\ \A n \in 1 .. Len(es) : es[n].at \in Int
  BY EventsAre
<1>2. CASE Len(es) < 10
  BY <1>2, NoReports DEF QueueBuildup
<1>3. CASE ~(Len(es) < 10)
  <2>1. PICK at : at = [n \in DOMAIN es |-> es[n].at \div 3]
    OBVIOUS
  <2>2. PICK m : m = Listed(at)
    OBVIOUS
  <2>3. DOMAIN at = 1 .. Len(es) /\ \A n \in 1 .. Len(es) : at[n] \in Int /\ at[n] = es[n].at \div 3
    BY ONLY <1>1, <2>1
  <2>4. Proper(m) /\ ToSet(m) = ToSet(at)
    BY ONLY <1>1, <2>2, <2>3, ListedIs
  <2>5. \A x : x \in ToSet(at) <=> \E n \in 1 .. Len(es) : x = at[n]
    BY ONLY <2>3 DEF ToSet
  <2>6. Len(m) \in Nat /\ DOMAIN m = 1 .. Len(m) /\ \A x : x \in ToSet(m) <=> \E n \in 1 .. Len(m) : x = m[n]
    <3>1. Len(m) \in Nat /\ DOMAIN m = 1 .. Len(m)
      BY ONLY <2>4, ProperIs
    <3> QED
      BY ONLY <3>1 DEF ToSet
  <2>7. PICK r : r = [k \in 1 .. Len(m) |-> 0 - m[k]]
    OBVIOUS
  <2>8. DOMAIN r = 1 .. Len(m) /\ \A k \in 1 .. Len(m) : r[k] \in Int
    <3>1. \A k \in 1 .. Len(m) : m[k] \in Int
      BY ONLY <2>3, <2>4, <2>5, <2>6
    <3> QED
      BY ONLY <2>7, <3>1
  <2>9. PICK b : b = Ranked(m, LAMBDA x : 0 - x)
    OBVIOUS
  <2>10. ByRank(b, m, r, Len(m))
    BY <2>6, <2>7, <2>9 DEF ByRank, Ranked, Each
  <2>11. Proper(b) /\ Len(b) = Len(m) /\ ToSet(b) = ToSet(m)
    BY ONLY <2>6, <2>8, <2>10, RankedIs
  <2>12. Len(b) >= 1
    <3>1. at[1] \in ToSet(at)
      BY ONLY <1>1, <1>3, <2>3, <2>5
    <3> QED
      BY ONLY <2>4, <2>6, <2>11, <3>1
  <2>13. DOMAIN b = 1 .. Len(b)
    BY ONLY <2>11, ProperIs
  <2>14. \A k \in 1 .. Len(b) : SizeOf(es, b[k]) \in Nat /\ SizeOf(es, b[k]) >= 1
    <3> SUFFICES ASSUME NEW k \in 1 .. Len(b) PROVE SizeOf(es, b[k]) \in Nat /\ SizeOf(es, b[k]) >= 1
      OBVIOUS
    <3>1. b[k] \in ToSet(b)
      BY ONLY <2>13, k \in 1 .. Len(b) DEF ToSet
    <3>2. PICK n \in 1 .. Len(es) : b[k] = at[n]
      BY ONLY <2>4, <2>5, <2>11, <3>1
    <3>3. PICK P \in SUBSET (1 .. Len(es)) : P = {o \in DOMAIN es : es[o].at \div 3 = b[k]}
      BY ONLY <1>1
    <3>4. n \in P
      BY ONLY <1>1, <2>3, <3>2, <3>3, n \in 1 .. Len(es)
    <3>5. IsFiniteSet(P) /\ Cardinality(P) \in Nat
      BY ONLY <1>1, CountPlaces, P \in SUBSET (1 .. Len(es))
    <3>6. Cardinality(P) # 0
      BY ONLY <3>4, <3>5, FS_EmptySet
    <3>7. Cardinality(P) >= 1
      BY ONLY <3>5, <3>6
    <3> QED
      BY ONLY <3>3, <3>5, <3>7 DEF SizeOf
  <2>15. PICK s : s = [n \in 1 .. Len(b) - 1 |-> Spike(b[n + 1], SizeOf(es, b[n + 1]), SizeOf(es, b[n]))]
    OBVIOUS
  <2>16. l = Joined(s)
    <3>1. l = Buildup(es, b)
      BY <1>3, <2>1, <2>2, <2>9 DEF QueueBuildup, Each
    <3> QED
      BY ONLY <2>15, <3>1 DEF Buildup, SizeOf
  <2>17. ASSUME NEW k \in 1 .. Len(b) - 1 PROVE Reported(s[k], "queue_buildup")
    <3>1. PICK size, before, x : size = SizeOf(es, b[k + 1]) /\ before = SizeOf(es, b[k]) /\ x = b[k + 1]
      OBVIOUS
    <3>2. size \in Nat /\ before \in Nat /\ before >= 1 /\ k \in 1 .. Len(b) /\ k + 1 \in 1 .. Len(b)
      <4>1. k \in 1 .. Len(b) /\ k + 1 \in 1 .. Len(b)
        BY ONLY <2>6, <2>11, k \in 1 .. Len(b) - 1
      <4> QED
        BY ONLY <2>14, <3>1, <4>1
    <3>3. PICK c \in BOOLEAN : c <=> size >= 3 * before
      OBVIOUS
    <3>4. PICK d : d = SpikeAt(x, size, before)
      OBVIOUS
    <3>5. s[k] = Some(c, d)
      <4>1. s[k] = Spike(x, size, before)
        BY ONLY <2>15, <3>1, k \in 1 .. Len(b) - 1
      <4> QED
        BY ONLY <3>3, <3>4, <4>1 DEF Spike, SpikeAt, Some
    <3>6. d.kind = "queue_buildup" /\ d.severity \in Int
      <4>1. (100 * (size - 3 * before)) \div (3 * before) \in Int
        BY ONLY <3>2
      <4> QED
        BY ONLY <3>4, <4>1 DEF SpikeAt, Bottleneck, Cap
    <3> QED
      BY ONLY <3>5, <3>6, SomeReports, c \in BOOLEAN
  <2>18. DOMAIN s = 1 .. Len(b) - 1 /\ Len(b) - 1 \in Nat
    BY ONLY <2>6, <2>11, <2>12, <2>15
  <2> QED
    BY ONLY <2>16, <2>17, <2>18, JoinedReports
<1> QED
  BY <1>2, <1>3

(* Slow agents.                                                            *)
LEMMA MedianIs ==
  ASSUME NEW n, n \in Nat, n >= 1, NEW s, DOMAIN s = 1 .. n, Len(s) = n, \A k \in 1 .. n : s[k] \in Int
  PROVE  Median(s) \in Int
<1>1. PICK r : r = [k \in 1 .. n |-> 0 - s[k]]
  OBVIOUS
<1>2. DOMAIN r = 1 .. n /\ \A k \in 1 .. n : r[k] \in Int
  BY ONLY <1>1, \A k \in 1 .. n : s[k] \in Int
<1>3. PICK t : t = Ranked(s, LAMBDA x : 0 - x)
  OBVIOUS
<1>4. ByRank(t, s, r, n)
  BY <1>1, <1>3 DEF ByRank, Ranked, Each
<1>5. Proper(t) /\ Len(t) = n /\ ToSet(t) = ToSet(s)
  BY ONLY <1>2, <1>4, RankedIs, n \in Nat, DOMAIN s = 1 .. n
<1>6. DOMAIN t = 1 .. n
  BY ONLY <1>5, ProperIs
<1>7. (n \div 2) + 1 \in 1 .. n
  BY ONLY n \in Nat, n >= 1
<1>8. t[(n \div 2) + 1] \in ToSet(s)
  BY ONLY <1>5, <1>6, <1>7 DEF ToSet
<1>9. \A x \in ToSet(s) : x \in Int
  BY ONLY DOMAIN s = 1 .. n, \A k \in 1 .. n : s[k] \in Int DEF ToSet
<1>10. Median(s) = t[(n \div 2) + 1]
  BY <1>3 DEF Median
<1> QED
  BY ONLY <1>8, <1>9, <1>10

(* Slow agents are reported as nothing else.                               *)
LEMMA SlowAgentsAre ==
  ASSUME NEW es, NEW timed, Proper(timed), \A k \in 1 .. Len(timed) : timed[k].avg \in Int, NEW l, l = SlowAgents(es, timed)
  PROVE  Reported(l, "slow_agent")
<1>1. Len(timed) \in Nat /\ DOMAIN timed = 1 .. Len(timed)
  BY ProperIs
<1>2. CASE Len(timed) < 2
  BY <1>2, NoReports DEF SlowAgents
<1>3. CASE ~(Len(timed) < 2)
  <2>1. PICK a : a = [k \in DOMAIN timed |-> timed[k].avg]
    OBVIOUS
  <2>2. PICK n : n = Len(timed)
    OBVIOUS
  <2>3. DOMAIN a = 1 .. n /\ Len(a) = n /\ n \in Nat /\ n >= 1 /\ \A k \in 1 .. n : a[k] \in Int
    BY ONLY <1>1, <1>3, <2>1, <2>2, \A k \in 1 .. Len(timed) : timed[k].avg \in Int
  <2>4. PICK median : median = Median(a)
    OBVIOUS
  <2>5. median \in Int
    BY ONLY <2>3, <2>4, MedianIs
  <2>6. PICK P \in SUBSET (1 .. n) : P = {k \in DOMAIN timed : 2 * timed[k].avg > 5 * median}
    BY ONLY <1>1, <2>2
  <2>7. PICK t : t = At(timed, P)
    OBVIOUS
  <2>8. Proper(t) /\ ToSet(t) = {timed[p] : p \in P}
    <3>1. n \in Nat
      BY ONLY <2>3
    <3> QED
      BY ONLY <3>1, <2>7, P \in SUBSET (1 .. n), AtIs
  <2>9. Len(t) \in Nat /\ DOMAIN t = 1 .. Len(t)
    BY ONLY <2>8, ProperIs
  <2>10. l = [k \in DOMAIN t |-> SlowAgent(t[k], OfAgent(es, t[k].agent)[1], median)]
    BY <1>3, <2>1, <2>4, <2>6, <2>7 DEF SlowAgents, Each
  <2>11. l = [k \in 1 .. Len(t) |-> l[k]]
    BY ONLY <2>9, <2>10
  <2>12. Proper(l) /\ DOMAIN l = 1 .. Len(t)
    BY ONLY <2>9, <2>11, ListIs
  <2>13. ASSUME NEW k \in 1 .. Len(t) PROVE l[k].kind = "slow_agent" /\ l[k].severity \in Int
    <3>1. PICK x : x = t[k]
      OBVIOUS
    <3>2. x \in ToSet(t)
      BY ONLY <2>9, <3>1, k \in 1 .. Len(t) DEF ToSet
    <3>3. PICK p \in P : x = timed[p]
      BY ONLY <2>8, <3>2
    <3>4. p \in 1 .. Len(timed)
      BY ONLY <2>2, P \in SUBSET (1 .. n), p \in P
    <3>5. x.avg \in Int
      BY ONLY <3>3, <3>4, \A o \in 1 .. Len(timed) : timed[o].avg \in Int
    <3>6. PICK excess : excess = 40 * x.avg - 100 * median
      OBVIOUS
    <3>7. PICK v : v = IF median > 0 THEN excess \div median ELSE IF median < 0 THEN (0 - excess) \div (0 - median) ELSE 100
      OBVIOUS
    <3>8. v \in Int
      <4>1. excess \in Int /\ 0 - excess \in Int /\ 0 - median \in Int
        BY ONLY <2>5, <3>5, <3>6
      <4> QED
        BY ONLY <2>5, <3>7, <4>1
    <3>9. l[k] = Bottleneck("slow_agent", x.agent, OfAgent(es, x.agent)[1].zone, v, OfAgent(es, x.agent)[1].at)
      BY ONLY <2>9, <2>10, <3>1, <3>6, <3>7, k \in 1 .. Len(t) DEF SlowAgent
    <3> QED
      BY ONLY <3>8, <3>9 DEF Bottleneck, Cap
  <2> QED
    BY ONLY <2>12, <2>13 DEF Reported, Rated, ToSet
<1> QED
  BY <1>2, <1>3

(* Rows of reports.                                                        *)
LEMMA RowOfReports ==
  ASSUME NEW s, Rated(s), NEW t, Rated(t)
  PROVE  /\ Rated(s \o t)
         /\ \A kind, a : Holds(s \o t, kind, a) <=> Holds(s, kind, a) \/ Holds(t, kind, a)
<1>1. Proper(s) /\ Proper(t)
  BY DEF Rated
<1>2. Proper(s \o t) /\ ToSet(s \o t) = ToSet(s) \cup ToSet(t)
  BY <1>1, RowOfTwo
<1>3. PICK r : r = s \o t
  OBVIOUS
<1>4. Proper(r) /\ ToSet(r) = ToSet(s) \cup ToSet(t)
  BY ONLY <1>2, <1>3
<1>5. Rated(r) /\ \A kind, a : Holds(r, kind, a) <=> Holds(s, kind, a) \/ Holds(t, kind, a)
  BY ONLY <1>4, Rated(s), Rated(t) DEF Rated, Holds
<1> QED
  BY ONLY <1>3, <1>5

(* The bottlenecks of a window: the three kinds that name an agent.        *)
LEMMA BottlenecksAre ==
  ASSUME NEW es, NEW lasts, Events(es, lasts), NEW scores, scores = Scores(es),
         NEW bs, bs = Bottlenecks(es, lasts, scores), NEW a
  PROVE  /\ Holds(bs, "retry_loop", a) => Triple(OfAgent(Typed(es, RetryTypes), a))
         /\ InOrder(es, lasts) /\ Triple(OfAgent(Typed(es, RetryTypes), a)) => Holds(bs, "retry_loop", a)
         /\ LateBy(es, lasts, a) => Holds(bs, "handoff_delay", a)
         /\ InOrder(es, lasts) /\ Holds(bs, "handoff_delay", a) => LateBy(es, lasts, a)
         /\ a \in ToSet(Agents(es)) /\ Stuck(es, lasts, a) => Holds(bs, "stalled_orchestration", a)
         /\ InOrder(es, lasts) /\ a \in ToSet(Agents(es)) /\ Holds(bs, "stalled_orchestration", a) => Stuck(es, lasts, a)
<1>1. PICK ag : ag = Agents(es)
  OBVIOUS
<1>2. PICK n : n = Len(ag)
  OBVIOUS
<1>3. n \in Nat
  BY ONLY <1>1, <1>2, AgentsAre, Events(es, lasts)
<1>4. Proper(scores) /\ Len(scores) = n /\ DOMAIN scores = 1 .. n /\ \A k \in 1 .. n : scores[k].avg \in Int \cup {None}
  BY ONLY <1>1, <1>2, ScoresAre, Events(es, lasts), scores = Scores(es)
<1>5. PICK P \in SUBSET (1 .. n) : P = {k \in DOMAIN scores : scores[k].avg # None}
  BY ONLY <1>4
<1>6. PICK timed : timed = At(scores, P)
  OBVIOUS
<1>7. Proper(timed) /\ ToSet(timed) = {scores[p] : p \in P}
  BY ONLY <1>3, <1>6, AtIs, P \in SUBSET (1 .. n)
<1>8. DOMAIN timed = 1 .. Len(timed)
  BY ONLY <1>7, ProperIs
<1>9. ASSUME NEW k \in 1 .. Len(timed) PROVE timed[k].avg \in Int
  <2>1. timed[k] \in ToSet(timed)
    BY ONLY <1>8, k \in 1 .. Len(timed) DEF ToSet
  <2>2. PICK p \in P : timed[k] = scores[p]
    BY ONLY <1>7, <2>1
  <2>3. scores[p].avg # None /\ scores[p].avg \in Int \cup {None}
    BY ONLY <1>4, <1>5, p \in P
  <2> QED
    BY ONLY <2>2, <2>3
<1>10. PICK rs : rs = Typed(es, RetryTypes)
  OBVIOUS
<1>11. PICK l1, l2, l3, l4, l5, l6 :
         /\ l1 = RetryLoops(rs) /\ l2 = SlowAgents(es, timed) /\ l3 = HandoffDelays(es, lasts)
         /\ l4 = QueueBuildup(es) /\ l5 = AnomalyConcentration(es) /\ l6 = Stalled(es, lasts)
  OBVIOUS
<1>12. bs = Deduplicated(l1 \o l2 \o l3 \o l4 \o l5 \o l6)
  BY ONLY <1>5, <1>6, <1>10, <1>11, bs = Bottlenecks(es, lasts, scores) DEF Bottlenecks
<1>13. /\ Reported(l1, "retry_loop") /\ \A b : Holds(l1, "retry_loop", b) => Triple(OfAgent(rs, b))
       /\ InOrder(es, lasts) => \A b : Triple(OfAgent(rs, b)) => Holds(l1, "retry_loop", b)
  <2>1. Events(rs, lasts) /\ (InOrder(es, lasts) => InOrder(rs, lasts))
    BY ONLY <1>10, TypedIs, Events(es, lasts)
  <2> QED
    BY ONLY <1>11, <2>1, RetryLoopsAre
<1>14. Reported(l2, "slow_agent")
  BY ONLY <1>7, <1>9, <1>11, SlowAgentsAre
<1>15. /\ Reported(l3, "handoff_delay")
       /\ \A b : LateBy(es, lasts, b) => Holds(l3, "handoff_delay", b)
       /\ InOrder(es, lasts) => \A b : Holds(l3, "handoff_delay", b) => LateBy(es, lasts, b)
  BY ONLY <1>11, DelaysAre, Events(es, lasts)
<1>16. Reported(l4, "queue_buildup")
  BY ONLY <1>11, BuildupsAre, Events(es, lasts)
<1>17. Reported(l5, "anomaly_concentration")
  BY ONLY <1>11, ConcentrationsAre, Events(es, lasts)
<1>18. /\ Reported(l6, "stalled_orchestration")
       /\ \A b \in ToSet(Agents(es)) : Stuck(es, lasts, b) => Holds(l6, "stalled_orchestration", b)
       /\ InOrder(es, lasts) => \A b \in ToSet(Agents(es)) : Holds(l6, "stalled_orchestration", b) => Stuck(es, lasts, b)
  BY ONLY <1>11, StallsAre, Events(es, lasts)
<1>19. Rated(l1) /\ Rated(l2) /\ Rated(l3) /\ Rated(l4) /\ Rated(l5) /\ Rated(l6)
  BY ONLY <1>13, <1>14, <1>15, <1>16, <1>17, <1>18 DEF Reported
<1>20. PICK m2 : m2 = l1 \o l2
  OBVIOUS
<1>21. PICK m3 : m3 = m2 \o l3
  OBVIOUS
<1>22. PICK m4 : m4 = m3 \o l4
  OBVIOUS
<1>23. PICK m5 : m5 = m4 \o l5
  OBVIOUS
<1>24. PICK m6 : m6 = m5 \o l6
  OBVIOUS
<1>25. Rated(m2) /\ \A kind, b : Holds(m2, kind, b) <=> Holds(l1, kind, b) \/ Holds(l2, kind, b)
  BY ONLY <1>19, <1>20, RowOfReports
<1>26. Rated(m3) /\ \A kind, b : Holds(m3, kind, b) <=> Holds(m2, kind, b) \/ Holds(l3, kind, b)
  BY ONLY <1>19, <1>21, <1>25, RowOfReports
<1>27. Rated(m4) /\ \A kind, b : Holds(m4, kind, b) <=> Holds(m3, kind, b) \/ Holds(l4, kind, b)
  BY ONLY <1>19, <1>22, <1>26, RowOfReports
<1>28. Rated(m5) /\ \A kind, b : Holds(m5, kind, b) <=> Holds(m4, kind, b) \/ Holds(l5, kind, b)
  BY ONLY <1>19, <1>23, <1>27, RowOfReports
<1>29. Rated(m6) /\ \A kind, b : Holds(m6, kind, b) <=> Holds(m5, kind, b) \/ Holds(l6, kind, b)
  BY ONLY <1>19, <1>24, <1>28, RowOfReports
<1>30. bs = Deduplicated(m6)
  BY ONLY <1>12, <1>20, <1>21, <1>22, <1>23, <1>24
<1>31. \A kind, b : Holds(bs, kind, b) <=> Holds(m6, kind, b)
  BY ONLY <1>29, <1>30, DeduplicatedIs
<1>32. \A l, kind, other, b : Reported(l, kind) /\ kind # other => ~Holds(l, other, b)
  BY ONLY TRUE DEF Reported, Holds
<1>33. Holds(bs, "retry_loop", a) <=> Holds(l1, "retry_loop", a)
  <2>1. /\ ~Holds(l2, "retry_loop", a) /\ ~Holds(l3, "retry_loop", a) /\ ~Holds(l4, "retry_loop", a)
        /\ ~Holds(l5, "retry_loop", a) /\ ~Holds(l6, "retry_loop", a)
    BY ONLY <1>14, <1>15, <1>16, <1>17, <1>18, <1>32
  <2> QED
    BY ONLY <1>25, <1>26, <1>27, <1>28, <1>29, <1>31, <2>1
<1>34. Holds(bs, "handoff_delay", a) <=> Holds(l3, "handoff_delay", a)
  <2>1. /\ ~Holds(l1, "handoff_delay", a) /\ ~Holds(l2, "handoff_delay", a) /\ ~Holds(l4, "handoff_delay", a)
        /\ ~Holds(l5, "handoff_delay", a) /\ ~Holds(l6, "handoff_delay", a)
    BY ONLY <1>13, <1>14, <1>16, <1>17, <1>18, <1>32
  <2> QED
    BY ONLY <1>25, <1>26, <1>27, <1>28, <1>29, <1>31, <2>1
<1>35. Holds(bs, "stalled_orchestration", a) <=> Holds(l6, "stalled_orchestration", a)
  <2>1. /\ ~Holds(l1, "stalled_orchestration", a) /\ ~Holds(l2, "stalled_orchestration", a)
        /\ ~Holds(l3, "stalled_orchestration", a) /\ ~Holds(l4, "stalled_orchestration", a)
        /\ ~Holds(l5, "stalled_orchestration", a)
    BY ONLY <1>13, <1>14, <1>15, <1>16, <1>17, <1>32
  <2> QED
    BY ONLY <1>25, <1>26, <1>27, <1>28, <1>29, <1>31, <2>1
<1> QED
  BY ONLY <1>10, <1>13, <1>15, <1>18, <1>33, <1>34, <1>35

-----------------------------------------------------------------------------
(* Incidents                                                               *)

(* The list t has c elements of s, from the place m on.                    *)
RunFrom(t, s, m, c) ==
  /\ Proper(t) /\ Len(t) = c /\ DOMAIN t = 1 .. c
  /\ \A k \in 1 .. c : t[k] = s[m + k - 1] /\ m + k - 1 \in 1 .. Len(s)

(* A part of a list is its elements from one place on.                     *)
LEMMA SliceIs ==
  ASSUME NEW s, Proper(s), NEW m \in Nat, m >= 1, NEW n \in Nat, n <= Len(s), NEW c \in Nat, c = n - m + 1,
         NEW t, t = SubSeq(s, m, n)
  PROVE  RunFrom(t, s, m, c)
<1>1. s \in Seq(ToSet(s)) /\ Len(s) \in Nat /\ DOMAIN s = 1 .. Len(s)
  BY ProperIs DEF Proper
<1>2. t = [k \in 1 .. c |-> s[m + k - 1]]
  BY DEF SubSeq
<1>3. t = [k \in 1 .. c |-> t[k]]
  BY <1>2
<1>4. Proper(t) /\ Len(t) = c /\ DOMAIN t = 1 .. c
  BY ONLY <1>3, ListIs, c \in Nat
<1>5. \A k \in 1 .. c : t[k] = s[m + k - 1] /\ m + k - 1 \in 1 .. Len(s)
  BY <1>1, <1>2
<1> QED
  BY ONLY <1>4, <1>5 DEF RunFrom

(* A part of some events is events.                                        *)
LEMMA SliceOfEvents ==
  ASSUME NEW es, NEW lasts, Events(es, lasts), NEW m \in Nat, m >= 1, NEW n \in Nat, n <= Len(es), m <= n + 1,
         NEW t, t = SubSeq(es, m, n)
  PROVE  Events(t, lasts)
<1>1. Len(es) \in Nat /\ DOMAIN es = 1 .. Len(es) /\ Proper(es) /\ lasts \in Int
  BY EventsAre
<1>2. \A k \in 1 .. Len(es) : /\ {"type", "agent", "zone", "at", "target", "took"} \subseteq DOMAIN es[k]
                              /\ es[k].at \in Int /\ es[k].took \in Int \cup {None}
  BY <1>1 DEF Events, WellFormed
<1>3. PICK c \in Nat : c = n - m + 1
  OBVIOUS
<1>4. /\ Proper(t) /\ Len(t) = c /\ DOMAIN t = 1 .. c
      /\ \A k \in 1 .. c : t[k] = es[m + k - 1] /\ m + k - 1 \in 1 .. Len(es)
  <2>1. RunFrom(t, es, m, c)
    BY ONLY <1>1, <1>3, SliceIs, m \in Nat, m >= 1, n \in Nat, n <= Len(es), c \in Nat, t = SubSeq(es, m, n)
  <2> QED
    BY ONLY <2>1 DEF RunFrom
<1>5. c \in Nat
  OBVIOUS
<1>6. \A k \in 1 .. c : /\ {"type", "agent", "zone", "at", "target", "took"} \subseteq DOMAIN t[k]
                        /\ t[k].at \in Int /\ t[k].took \in Int \cup {None}
  <2> SUFFICES ASSUME NEW k \in 1 .. c
               PROVE  /\ {"type", "agent", "zone", "at", "target", "took"} \subseteq DOMAIN t[k]
                      /\ t[k].at \in Int /\ t[k].took \in Int \cup {None}
    OBVIOUS
  <2>1. PICK e \in 1 .. Len(es) : t[k] = es[e]
    BY ONLY <1>4, k \in 1 .. c
  <2>2. PICK x : x = es[e]
    OBVIOUS
  <2>3. {"type", "agent", "zone", "at", "target", "took"} \subseteq DOMAIN x /\ x.at \in Int /\ x.took \in Int \cup {None}
    BY ONLY <1>2, <2>2, e \in 1 .. Len(es)
  <2> QED
    BY ONLY <2>1, <2>2, <2>3
<1>7. IsList(t)
  BY ONLY <1>4, <1>5 DEF IsList
<1> QED
  BY ONLY <1>1, <1>4, <1>6, <1>7 DEF Events, WellFormed

(* The two halves are events in their order, and neither is empty.         *)
LEMMA HalvesAre ==
  ASSUME NEW es, NEW lasts, Events(es, lasts), Len(es) >= 10
  PROVE  /\ Events(FirstHalf(es), lasts) /\ Events(SecondHalf(es), lasts)
         /\ Len(FirstHalf(es)) \in Nat \ {0} /\ Len(SecondHalf(es)) \in Nat \ {0}
<1>1. Len(es) \in Nat /\ Proper(es)
  BY EventsAre
<1>2. PICK h : h = Len(es) \div 2
  OBVIOUS
<1>3. h \in Nat /\ h >= 5 /\ h + 1 >= 1 /\ h + 1 \in Nat /\ h <= Len(es) /\ h + 1 <= Len(es) + 1 /\ 1 <= h + 1 /\ h < Len(es)
  BY <1>1, <1>2
<1>4. PICK s, t : s = SubSeq(es, 1, h) /\ t = SubSeq(es, h + 1, Len(es))
  OBVIOUS
<1>5. Events(s, lasts)
  <2>1. 1 \in Nat /\ 1 >= 1
    OBVIOUS
  <2> QED
    BY ONLY <1>3, <1>4, <2>1, SliceOfEvents, Events(es, lasts)
<1>6. Events(t, lasts)
  <2>1. Len(es) <= Len(es)
    BY <1>1
  <2> QED
    BY ONLY <1>1, <1>3, <1>4, <2>1, SliceOfEvents, Events(es, lasts)
<1>7. Len(s) = h
  <2>1. 1 \in Nat /\ 1 >= 1
    OBVIOUS
  <2>2. h = h - 1 + 1 /\ h \in Nat
    BY <1>3
  <2>3. RunFrom(s, es, 1, h)
    BY ONLY <1>1, <1>3, <1>4, <2>1, <2>2, SliceIs
  <2> QED
    BY ONLY <2>3 DEF RunFrom
<1>8. Len(t) = Len(es) - h
  <2>1. Len(es) <= Len(es)
    BY <1>1
  <2>2. Len(es) - h = Len(es) - (h + 1) + 1 /\ Len(es) - h \in Nat
    BY <1>1, <1>3
  <2>3. PICK m : m = h + 1
    OBVIOUS
  <2>4. PICK n : n = Len(es)
    OBVIOUS
  <2>5. PICK c : c = n - h
    OBVIOUS
  <2>6. m \in Nat /\ m >= 1 /\ n \in Nat /\ n <= Len(es) /\ c \in Nat /\ c = n - m + 1 /\ t = SubSeq(es, m, n)
    BY ONLY <1>1, <1>3, <1>4, <2>2, <2>3, <2>4, <2>5
  <2>7. RunFrom(t, es, m, c)
    BY ONLY <1>1, <2>6, SliceIs
  <2> QED
    BY ONLY <2>4, <2>5, <2>7 DEF RunFrom
<1>9. s = FirstHalf(es) /\ t = SecondHalf(es)
  BY ONLY <1>2, <1>4 DEF FirstHalf, SecondHalf
<1>10. h \in Nat \ {0} /\ Len(es) - h \in Nat \ {0}
  BY <1>1, <1>3
<1> QED
  BY ONLY <1>5, <1>6, <1>7, <1>8, <1>9, <1>10

(* Incidents, all of one kind, that can be ranked.                         *)
Risks == {"low", "medium", "high", "critical"}
Rankable(list) == Proper(list) /\ \A i \in ToSet(list) : i.risk \in Risks /\ i.probability \in Int
Foretold(list, kind) == Rankable(list) /\ \A i \in ToSet(list) : i.kind = kind

LEMMA IncidentIs ==
  ASSUME NEW kind, NEW p, p \in Int, NEW onset, NEW escalates, NEW agents,
         NEW i, i = Incident(kind, p, onset, escalates, agents)
  PROVE  i.kind = kind /\ i.risk \in Risks /\ i.probability \in Int /\ i.agents = agents
<1>1. PICK q : q = Cap(p, 100)
  OBVIOUS
<1>2. q \in Int
  BY <1>1 DEF Cap
<1>3. Risk(q) \in Risks
  BY ONLY TRUE DEF Risk, Risks
<1>4. i = [kind |-> kind, risk |-> Risk(q), probability |-> q, onset |-> onset, escalates |-> escalates, agents |-> agents]
  BY <1>1 DEF Incident
<1> QED
  BY ONLY <1>2, <1>3, <1>4

LEMMA OneIncident ==
  ASSUME NEW l, NEW i, l = <<>> \/ l = <<i>>, NEW kind, l = <<i>> => i.kind = kind /\ i.risk \in Risks /\ i.probability \in Int
  PROVE  Foretold(l, kind) /\ (\A j : j \in ToSet(l) => j = i) /\ (i \in ToSet(l) <=> l = <<i>>)
<1>1. CASE l = <<i>>
  <2>1. ToSet(l) = {i} /\ Proper(l)
    BY <1>1 DEF ToSet, Proper
  <2> QED
    BY <1>1, <2>1 DEF Foretold, Rankable
<1>2. CASE l = <<>>
  <2>1. ToSet(l) = {} /\ Proper(l)
    BY <1>2 DEF ToSet, Proper
  <2>2. <<>> # <<i>>
    OBVIOUS
  <2> QED
    BY <1>2, <2>1, <2>2 DEF Foretold, Rankable
<1> QED
  BY <1>1, <1>2

Storms(rs, lasts) == Len(rs) >= 3 /\ 15 * Len(rs) >= Most(lasts, 6)

StormOnset(rs) ==
  rs[IF {n \in 3 .. Len(rs) : rs[n].at - rs[n - 2].at <= 10} = {} THEN 1
     ELSE Min({n \in 3 .. Len(rs) : rs[n].at - rs[n - 2].at <= 10}) - 2].at
StormFrom(rs, span, p, onset) ==
  IF Len(rs) < 3 \/ 15 * Len(rs) < span THEN <<>>
  ELSE <<Incident("retry_storm", p, onset, IF p > 70 THEN onset + 3000 \div p ELSE None, Agents(rs))>>

(* A storm is reported exactly when retries are many enough for the span.  *)
LEMMA StormIs ==
  ASSUME NEW rs, NEW lasts, Events(rs, lasts), NEW l, l = RetryStorm(rs, lasts)
  PROVE  Foretold(l, "retry_storm") /\ ((\E i : i \in ToSet(l)) <=> Storms(rs, lasts))
<1>1. Len(rs) \in Nat /\ lasts \in Int
  BY EventsAre
<1>2. PICK span : span = Most(lasts, 6)
  OBVIOUS
<1>3. span \in Nat /\ span >= 6
  BY <1>1, <1>2 DEF Most
<1>4. PICK p : p = Cap((375 * Len(rs)) \div span, 100)
  OBVIOUS
<1>5. p \in Int
  <2>1. (375 * Len(rs)) \div span \in Int
    BY ONLY <1>1, <1>3
  <2> QED
    BY ONLY <1>4, <2>1 DEF Cap
<1>6. \E onset, escalates, agents :
        l = IF Len(rs) < 3 \/ 15 * Len(rs) < span THEN <<>>
            ELSE <<Incident("retry_storm", p, onset, escalates, agents)>>
  <2>1. l = StormFrom(rs, Most(lasts, 6), Cap((375 * Len(rs)) \div Most(lasts, 6), 100), StormOnset(rs))
    BY Zenon DEF RetryStorm, StormFrom, StormOnset
  <2>2. l = StormFrom(rs, span, p, StormOnset(rs))
    BY ONLY <1>2, <1>4, <2>1
  <2> QED
    BY ONLY <2>2 DEF StormFrom
<1>7. PICK onset, escalates, agents :
        l = IF Len(rs) < 3 \/ 15 * Len(rs) < span THEN <<>>
            ELSE <<Incident("retry_storm", p, onset, escalates, agents)>>
  BY <1>6
<1>8. PICK i : i = Incident("retry_storm", p, onset, escalates, agents)
  OBVIOUS
<1>9. i.kind = "retry_storm" /\ i.risk \in Risks /\ i.probability \in Int
  BY ONLY <1>5, <1>8, IncidentIs
<1>10. l = <<>> \/ l = <<i>>
  BY ONLY <1>7, <1>8
<1>11. Foretold(l, "retry_storm") /\ (\A j : j \in ToSet(l) => j = i) /\ (i \in ToSet(l) <=> l = <<i>>)
  BY ONLY <1>9, <1>10, OneIncident
<1>12. l = <<i>> <=> Storms(rs, lasts)
  <2>1. <<>> # <<i>>
    OBVIOUS
  <2>2. Storms(rs, lasts) <=> ~(Len(rs) < 3 \/ 15 * Len(rs) < span)
    BY ONLY <1>1, <1>2, <1>3 DEF Storms
  <2> QED
    BY ONLY <1>7, <1>8, <2>1, <2>2
<1> QED
  BY ONLY <1>11, <1>12

LEMMA SomeIncident ==
  ASSUME NEW c, c \in BOOLEAN, NEW kind, NEW p, c => p \in Int, NEW onset, NEW escalates, NEW agents,
         NEW l, l = Some(c, Incident(kind, p, onset, escalates, agents))
  PROVE  /\ Foretold(l, kind) /\ ((\E i : i \in ToSet(l)) <=> c)
         /\ \A i : i \in ToSet(l) => i.agents = agents
<1>1. PICK i : i = Incident(kind, p, onset, escalates, agents)
  OBVIOUS
<1>2. <<>> # <<i>>
  OBVIOUS
<1>3. (l = <<>> \/ l = <<i>>) /\ (l = <<i>> <=> c)
  BY ONLY <1>1, <1>2, c \in BOOLEAN, l = Some(c, Incident(kind, p, onset, escalates, agents)) DEF Some
<1>4. c => i.kind = kind /\ i.risk \in Risks /\ i.probability \in Int /\ i.agents = agents
  BY ONLY <1>1, IncidentIs, c => p \in Int
<1>5. Foretold(l, kind) /\ (\A j : j \in ToSet(l) => j = i) /\ (i \in ToSet(l) <=> l = <<i>>)
  BY ONLY <1>3, <1>4, OneIncident
<1> QED
  BY ONLY <1>3, <1>4, <1>5

(* A swarm that degrades.                                                  *)
Rise(es) ==
  Count(SecondHalf(es), RetryTypes \cup FailureTypes) * Len(FirstHalf(es))
    - Count(FirstHalf(es), RetryTypes \cup FailureTypes) * Len(SecondHalf(es))
DegradationP(es) == Cap((400 * Rise(es)) \div (Len(FirstHalf(es)) * Len(SecondHalf(es))), 100)
WeakOf(scores) == Each(At(scores, {n \in DOMAIN scores : scores[n].efficiency < 500}), LAMBDA s : s.agent)
Degrading(es) == ~(Len(es) < 20 \/ 8 * Rise(es) < Len(FirstHalf(es)) * Len(SecondHalf(es)))
DegradationFrom(c, p, onset, agents) ==
  Some(c, Incident("swarm_degradation", p, onset, IF p > 60 THEN onset + 60 ELSE None, agents))

(* Degradation is reported as nothing else, with a probability.            *)
LEMMA DegradationIs ==
  ASSUME NEW es, NEW lasts, Events(es, lasts), NEW scores, NEW l, l = Degradation(es, scores)
  PROVE  Foretold(l, "swarm_degradation")
<1>1. PICK c \in BOOLEAN : c <=> Degrading(es)
  OBVIOUS
<1>2. l = IF Len(es) < 20 \/ 8 * Rise(es) < Len(FirstHalf(es)) * Len(SecondHalf(es)) THEN <<>>
          ELSE <<Incident("swarm_degradation", DegradationP(es), SecondHalf(es)[1].at,
                          IF DegradationP(es) > 60 THEN SecondHalf(es)[1].at + 60 ELSE None, WeakOf(scores))>>
  BY Zenon DEF Degradation, Rise, DegradationP, WeakOf
<1>3. PICK p, onset, agents : p = DegradationP(es) /\ onset = SecondHalf(es)[1].at /\ agents = WeakOf(scores)
  OBVIOUS
<1>4. PICK escalates : escalates = IF p > 60 THEN onset + 60 ELSE None
  OBVIOUS
<1>5. l = Some(c, Incident("swarm_degradation", p, onset, escalates, agents))
  BY ONLY <1>1, <1>2, <1>3, <1>4 DEF Degrading, Some
<1>6. c => p \in Int
  <2> SUFFICES ASSUME c PROVE p \in Int
    OBVIOUS
  <2>1. Len(es) >= 10
    BY <1>1, EventsAre DEF Degrading
  <2>2. PICK u, v : u = FirstHalf(es) /\ v = SecondHalf(es)
    OBVIOUS
  <2>3. Events(u, lasts) /\ Events(v, lasts) /\ Len(u) \in Nat \ {0} /\ Len(v) \in Nat \ {0}
    BY ONLY <2>1, <2>2, HalvesAre, Events(es, lasts)
  <2>4. PICK x, y : x = Count(v, RetryTypes \cup FailureTypes) /\ y = Count(u, RetryTypes \cup FailureTypes)
    OBVIOUS
  <2>5. x \in Nat /\ y \in Nat
    BY ONLY <2>3, <2>4, CountIs
  <2>6. Len(u) * Len(v) > 0 /\ Len(u) * Len(v) \in Int
    BY ONLY <2>3, \A m, n \in Nat \ {0} : m * n > 0 /\ m * n \in Int
  <2>7. x * Len(u) - y * Len(v) \in Int
    BY ONLY <2>3, <2>5
  <2>8. Rise(es) = x * Len(u) - y * Len(v)
    BY ONLY <2>2, <2>4 DEF Rise
  <2>9. PICK q : q = Rise(es)
    OBVIOUS
  <2>10. PICK d : d = Len(u) * Len(v)
    OBVIOUS
  <2>11. (400 * q) \div d \in Int
    BY ONLY <2>6, <2>7, <2>8, <2>9, <2>10
  <2>12. p = Cap((400 * q) \div d, 100)
    BY ONLY <1>3, <2>2, <2>9, <2>10 DEF DegradationP
  <2> QED
    BY ONLY <2>11, <2>12 DEF Cap
<1> QED
  BY ONLY <1>5, <1>6, SomeIncident, c \in BOOLEAN

(* A collapse of the throughput.                                           *)
LEMMA CollapseIs ==
  ASSUME NEW es, NEW lasts, Events(es, lasts), NEW l, l = ThroughputCollapse(es)
  PROVE  Foretold(l, "throughput_collapse")
<1>1. PICK u, v : u = Len(FirstHalf(es)) /\ v = Len(SecondHalf(es))
  OBVIOUS
<1>2. PICK onset : onset = SecondHalf(es)[1].at
  OBVIOUS
<1>3. PICK p, escalates : p = (125 * (u - v)) \div u /\ escalates = onset + 30
  OBVIOUS
<1>4. PICK c \in BOOLEAN : c <=> ~(Len(es) < 10 \/ 5 * (u - v) < 3 * u)
  OBVIOUS
<1> PICK agents : agents = <<>>
  OBVIOUS
<1>5. l = Some(c, Incident("throughput_collapse", p, onset, escalates, agents))
  BY ONLY <1>1, <1>2, <1>3, <1>4, agents = <<>>, l = ThroughputCollapse(es) DEF ThroughputCollapse, Some
<1>6. c => p \in Int
  <2> SUFFICES ASSUME c PROVE p \in Int
    OBVIOUS
  <2>1. Len(es) >= 10
    BY <1>4, EventsAre
  <2>2. u \in Nat \ {0} /\ v \in Nat \ {0}
    BY ONLY <1>1, <2>1, HalvesAre, Events(es, lasts)
  <2> QED
    BY ONLY <1>3, <2>2
<1> QED
  BY ONLY <1>5, <1>6, SomeIncident, c \in BOOLEAN

(* Agents that begin to retry over and over.                               *)
FlippingOf(es) == At(Agents(es), {n \in DOMAIN Agents(es) : Flips(OfAgent(es, Agents(es)[n])) >= 2})
FlipSum(es) == SumOf(Each(FlippingOf(es), LAMBDA a : Flips(OfAgent(es, a))))
Blamed(list, kind, a) == \E i \in ToSet(list) : i.kind = kind /\ a \in ToSet(i.agents)

LEMMA FlipsAre ==
  ASSUME NEW of, NEW lasts, Events(of, lasts)
  PROVE  Flips(of) \in Nat
<1>1. Len(of) \in Nat /\ DOMAIN of = 1 .. Len(of)
  BY EventsAre
<1>2. \E P \in SUBSET (1 .. Len(of)) : Flips(of) = Cardinality(P)
  BY <1>1 DEF Flips
<1>3. PICK P \in SUBSET (1 .. Len(of)) : Flips(of) = Cardinality(P)
  BY <1>2
<1> QED
  BY ONLY <1>1, <1>3, CountPlaces, P \in SUBSET (1 .. Len(of))

LEMMA FlippingIs ==
  ASSUME NEW es, NEW lasts, Events(es, lasts), NEW t, t = FlippingOf(es)
  PROVE  /\ Proper(t) /\ Len(t) \in Nat /\ DOMAIN t = 1 .. Len(t)
         /\ \A a : a \in ToSet(t) <=> a \in ToSet(Agents(es)) /\ Flips(OfAgent(es, a)) >= 2
<1>1. PICK ag : ag = Agents(es)
  OBVIOUS
<1>2. PICK n : n = Len(ag)
  OBVIOUS
<1>3. n \in Nat /\ DOMAIN ag = 1 .. n
  BY ONLY <1>1, <1>2, AgentsAre, Events(es, lasts)
<1>4. PICK P \in SUBSET (1 .. n) : P = {k \in DOMAIN ag : Flips(OfAgent(es, ag[k])) >= 2}
  BY ONLY <1>3
<1>5. t = At(ag, P)
  BY ONLY <1>1, <1>4, t = FlippingOf(es) DEF FlippingOf
<1>6. Proper(t) /\ ToSet(t) = {ag[p] : p \in P}
  <2>1. n \in Nat
    BY ONLY <1>3
  <2> QED
    BY ONLY <1>5, <2>1, AtIs, P \in SUBSET (1 .. n)
<1>7. \A a : a \in ToSet(ag) <=> \E k \in 1 .. n : a = ag[k]
  BY ONLY <1>3 DEF ToSet
<1>8. \A a : a \in ToSet(t) <=> a \in ToSet(ag) /\ Flips(OfAgent(es, a)) >= 2
  BY ONLY <1>3, <1>4, <1>6, <1>7
<1> QED
  BY ONLY <1>1, <1>6, <1>8, ProperIs

(* Instability is reported of the agents that flip, when they flip often   *)
(* enough.                                                                 *)
LEMMA InstabilityIs ==
  ASSUME NEW es, NEW lasts, Events(es, lasts), NEW l, l = FlipFlops(es)
  PROVE  /\ FlipSum(es) \in Int /\ Foretold(l, "orchestration_instability")
         /\ \A a : Blamed(l, "orchestration_instability", a)
                     <=> FlipSum(es) >= 4 /\ a \in ToSet(Agents(es)) /\ Flips(OfAgent(es, a)) >= 2
<1>1. PICK t : t = FlippingOf(es)
  OBVIOUS
<1>2. /\ Proper(t) /\ Len(t) \in Nat /\ DOMAIN t = 1 .. Len(t)
      /\ \A a : a \in ToSet(t) <=> a \in ToSet(Agents(es)) /\ Flips(OfAgent(es, a)) >= 2
  BY ONLY <1>1, FlippingIs, Events(es, lasts)
<1>3. PICK s : s = [k \in 1 .. Len(t) |-> Flips(OfAgent(es, t[k]))]
  OBVIOUS
<1>4. FlipSum(es) = SumOf(s)
  <2>1. Each(t, LAMBDA a : Flips(OfAgent(es, a))) = s
    BY ONLY <1>2, <1>3 DEF Each
  <2> QED
    BY ONLY <1>1, <2>1 DEF FlipSum
<1>5. DOMAIN s = 1 .. Len(t) /\ \A k \in 1 .. Len(t) : s[k] \in Int
  <2>1. \A k \in 1 .. Len(t) : Flips(OfAgent(es, t[k])) \in Nat
    <3> SUFFICES ASSUME NEW k \in 1 .. Len(t) PROVE Flips(OfAgent(es, t[k])) \in Nat
      OBVIOUS
    <3>1. PICK a, of : a = t[k] /\ of = OfAgent(es, a)
      OBVIOUS
    <3>2. Events(of, lasts)
      BY ONLY <3>1, OfAgentIs, Events(es, lasts)
    <3> QED
      BY ONLY <3>1, <3>2, FlipsAre
  <2> QED
    BY ONLY <1>3, <2>1
<1>6. FlipSum(es) \in Int
  <2>1. Len(t) \in Nat /\ 0 \in Int
    BY ONLY <1>2
  <2> QED
    BY ONLY <1>4, <1>5, <2>1, SumBounds
<1>7. PICK n : n = FlipSum(es)
  OBVIOUS
<1>8. PICK p, onset : p = (100 * n) \div 8 /\ onset = es[1].at
  OBVIOUS
<1>9. PICK c \in BOOLEAN : c <=> n >= 4
  OBVIOUS
<1>10. l = Some(c, Incident("orchestration_instability", p, onset, None, t))
  <2>1. l = Some(FlipSum(es) >= 4, Incident("orchestration_instability", (100 * FlipSum(es)) \div 8, es[1].at, None, FlippingOf(es)))
    BY Zenon DEF FlipFlops, FlipSum, FlippingOf
  <2> QED
    BY ONLY <1>1, <1>7, <1>8, <1>9, <2>1 DEF Some
<1>11. p \in Int
  BY ONLY <1>6, <1>7, <1>8
<1>12. /\ Foretold(l, "orchestration_instability") /\ ((\E i : i \in ToSet(l)) <=> c)
       /\ \A i : i \in ToSet(l) => i.agents = t
  BY ONLY <1>10, <1>11, SomeIncident, c \in BOOLEAN
<1>13. \A i : i \in ToSet(l) => i.kind = "orchestration_instability" /\ i.agents = t
  BY ONLY <1>12 DEF Foretold
<1>14. \A a : Blamed(l, "orchestration_instability", a) <=> c /\ a \in ToSet(t)
  BY ONLY <1>12, <1>13 DEF Blamed
<1> QED
  BY ONLY <1>2, <1>6, <1>7, <1>9, <1>12, <1>14

(* Agents that exhaust themselves.                                         *)
ExhaustedAt(es, s) ==
  LET p == Cap((500 * s.retries) \div (3 * s.events), 100)
      onset == OfAgent(es, s.agent)[1].at
  IN Incident("agent_exhaustion", p, onset, IF p > 70 THEN onset + 20 ELSE None, <<s.agent>>)
Tires(s) == 20 * s.retries >= 7 * s.events

(* Exhaustion is reported of the agents at least 35 in 100 of whose        *)
(* events are retries.                                                     *)
LEMMA ExhaustionIs ==
  ASSUME NEW es, NEW lasts, Events(es, lasts), NEW scores, scores = Scores(es), NEW l, l = Exhaustion(es, scores)
  PROVE  /\ Foretold(l, "agent_exhaustion")
         /\ \A a : Blamed(l, "agent_exhaustion", a) <=> \E k \in DOMAIN scores : scores[k].agent = a /\ Tires(scores[k])
<1>1. PICK ag : ag = Agents(es)
  OBVIOUS
<1>2. PICK n : n = Len(ag)
  OBVIOUS
<1>3. n \in Nat
  BY ONLY <1>1, <1>2, AgentsAre, Events(es, lasts)
<1>4. /\ Proper(scores) /\ DOMAIN scores = 1 .. n
      /\ \A k \in 1 .. n : scores[k].events \in Nat /\ scores[k].events >= 1 /\ scores[k].retries \in Nat
  BY ONLY <1>1, <1>2, ScoresAre, Events(es, lasts), scores = Scores(es)
<1>5. PICK P \in SUBSET (1 .. n) : P = {k \in DOMAIN scores : Tires(scores[k])}
  BY ONLY <1>4
<1>6. PICK t : t = At(scores, P)
  OBVIOUS
<1>7. Proper(t) /\ ToSet(t) = {scores[p] : p \in P}
  BY ONLY <1>3, <1>6, AtIs, P \in SUBSET (1 .. n)
<1>8. Len(t) \in Nat /\ DOMAIN t = 1 .. Len(t)
  BY ONLY <1>7, ProperIs
<1>9. l = [k \in DOMAIN t |-> ExhaustedAt(es, t[k])]
  <2>1. l = [k \in DOMAIN At(scores, {m \in DOMAIN scores : Tires(scores[m])})
               |-> ExhaustedAt(es, At(scores, {m \in DOMAIN scores : Tires(scores[m])})[k])]
    BY Zenon DEF Exhaustion, Each, Tires, ExhaustedAt
  <2> QED
    BY ONLY <1>5, <1>6, <2>1
<1>10. l = [k \in 1 .. Len(t) |-> l[k]]
  BY ONLY <1>8, <1>9
<1>11. Proper(l) /\ DOMAIN l = 1 .. Len(t)
  BY ONLY <1>8, <1>10, ListIs
<1>12. \A i : i \in ToSet(l) <=> \E k \in 1 .. Len(t) : i = ExhaustedAt(es, t[k])
  BY ONLY <1>8, <1>9, <1>11 DEF ToSet
<1>13. \A x : x \in ToSet(t) <=> \E k \in 1 .. Len(t) : x = t[k]
  BY ONLY <1>8 DEF ToSet
<1>14. \A x : x \in ToSet(t) <=> \E p \in P : x = scores[p]
  BY ONLY <1>7
<1>15. ASSUME NEW i, i \in ToSet(l) PROVE \E p \in P : i = ExhaustedAt(es, scores[p])
  <2>1. PICK k \in 1 .. Len(t) : i = ExhaustedAt(es, t[k])
    BY ONLY <1>12, <1>15
  <2>2. PICK p \in P : t[k] = scores[p]
    BY ONLY <1>13, <1>14, k \in 1 .. Len(t)
  <2> QED
    BY ONLY <2>1, <2>2
<1>16. ASSUME NEW p \in P PROVE ExhaustedAt(es, scores[p]) \in ToSet(l)
  <2>1. PICK k \in 1 .. Len(t) : t[k] = scores[p]
    BY ONLY <1>13, <1>14, p \in P
  <2>2. ExhaustedAt(es, t[k]) = ExhaustedAt(es, scores[p])
    BY ONLY <2>1
  <2> QED
    BY ONLY <1>12, <2>2, k \in 1 .. Len(t)
<1>17. ASSUME NEW p \in 1 .. n, NEW i, i = ExhaustedAt(es, scores[p])
       PROVE  /\ i.kind = "agent_exhaustion" /\ i.risk \in Risks /\ i.probability \in Int
              /\ ToSet(i.agents) = {scores[p].agent}
  <2>1. PICK s : s = scores[p]
    OBVIOUS
  <2>2. s.events \in Nat /\ s.events >= 1 /\ s.retries \in Nat
    BY ONLY <1>4, <2>1, p \in 1 .. n
  <2>3. PICK q, onset : q = Cap((500 * s.retries) \div (3 * s.events), 100) /\ onset = OfAgent(es, s.agent)[1].at
    OBVIOUS
  <2>4. q \in Int
    <3>1. (500 * s.retries) \div (3 * s.events) \in Int
      BY ONLY <2>2
    <3> QED
      BY ONLY <2>3, <3>1 DEF Cap
  <2>5. PICK escalates : escalates = IF q > 70 THEN onset + 20 ELSE None
    OBVIOUS
  <2>6. i = Incident("agent_exhaustion", q, onset, escalates, <<s.agent>>)
    BY ONLY <2>1, <2>3, <2>5, <1>17 DEF ExhaustedAt
  <2>7. i.kind = "agent_exhaustion" /\ i.risk \in Risks /\ i.probability \in Int /\ i.agents = <<s.agent>>
    BY ONLY <2>4, <2>6, IncidentIs
  <2>8. ToSet(<<s.agent>>) = {s.agent}
    BY ONLY TRUE DEF ToSet
  <2> QED
    BY ONLY <2>1, <2>7, <2>8
<1>18. Foretold(l, "agent_exhaustion")
  BY ONLY <1>11, <1>15, <1>17, P \in SUBSET (1 .. n) DEF Foretold, Rankable
<1>19. ASSUME NEW a, Blamed(l, "agent_exhaustion", a) PROVE \E k \in DOMAIN scores : scores[k].agent = a /\ Tires(scores[k])
  <2>1. PICK i \in ToSet(l) : a \in ToSet(i.agents)
    BY ONLY <1>19 DEF Blamed
  <2>2. PICK p \in P : i = ExhaustedAt(es, scores[p])
    BY ONLY <1>15, i \in ToSet(l)
  <2>3. p \in 1 .. n /\ p \in DOMAIN scores /\ Tires(scores[p])
    BY ONLY <1>4, <1>5, p \in P
  <2> QED
    BY ONLY <1>17, <2>1, <2>2, <2>3
<1>20. ASSUME NEW a, NEW k \in DOMAIN scores, scores[k].agent = a, Tires(scores[k]) PROVE Blamed(l, "agent_exhaustion", a)
  <2>1. k \in P /\ k \in 1 .. n
    BY ONLY <1>4, <1>5, <1>20, k \in DOMAIN scores
  <2>2. PICK i : i = ExhaustedAt(es, scores[k])
    OBVIOUS
  <2>3. i \in ToSet(l)
    BY ONLY <1>16, <2>1, <2>2
  <2> QED
    BY ONLY <1>17, <1>20, <2>1, <2>2, <2>3 DEF Blamed
<1> QED
  BY ONLY <1>18, <1>19, <1>20

(* A cascade of anomalies.                                                 *)
LEMMA TwoOf ==
  ASSUME NEW S, IsFiniteSet(S)
  PROVE  Cardinality(S) \in Nat /\ (Cardinality(S) >= 2 <=> \E x, y \in S : x # y)
<1>1. Cardinality(S) \in Nat
  BY FS_CardinalityType
<1>2. ASSUME Cardinality(S) >= 2 PROVE \E x, y \in S : x # y
  <2>1. S # {}
    BY <1>1, <1>2, FS_EmptySet
  <2>2. PICK x \in S : TRUE
    BY <2>1
  <2>3. IsFiniteSet(S \ {x}) /\ Cardinality(S \ {x}) = Cardinality(S) - 1
    BY FS_RemoveElement
  <2>4. Cardinality(S \ {x}) # 0
    BY <1>1, <1>2, <2>3
  <2>5. S \ {x} # {}
    BY <2>3, <2>4, FS_EmptySet
  <2> QED
    BY <2>5
<1>3. ASSUME NEW x \in S, NEW y \in S, x # y PROVE Cardinality(S) >= 2
  <2>1. IsFiniteSet(S \ {x}) /\ Cardinality(S \ {x}) = Cardinality(S) - 1
    BY FS_RemoveElement
  <2>2. y \in S \ {x}
    BY <1>3
  <2>3. Cardinality(S \ {x}) # 0
    BY <2>1, <2>2, FS_EmptySet
  <2>4. Cardinality(S \ {x}) \in Nat
    BY <2>1, FS_CardinalityType
  <2> QED
    BY <1>1, <2>1, <2>3, <2>4
<1> QED
  BY <1>1, <1>2, <1>3

(* A list has two agents exactly when two of its events are of different   *)
(* ones.                                                                   *)
LEMMA TwoAgents ==
  ASSUME NEW t, NEW lasts, Events(t, lasts)
  PROVE  Len(Agents(t)) >= 2 <=> \E j, k \in 1 .. Len(t) : t[j].agent # t[k].agent
<1>1. PICK ag : ag = Agents(t)
  OBVIOUS
<1>2. /\ Len(ag) \in Nat /\ DOMAIN ag = 1 .. Len(ag) /\ ToSet(ag) = {t[n].agent : n \in 1 .. Len(t)}
      /\ \A j, k \in 1 .. Len(ag) : ag[j] = ag[k] => j = k
  BY ONLY <1>1, AgentsAre, Events(t, lasts)
<1>3. \A a : a \in ToSet(ag) <=> \E k \in 1 .. Len(ag) : a = ag[k]
  BY ONLY <1>2 DEF ToSet
<1>4. \A a : a \in ToSet(ag) <=> \E n \in 1 .. Len(t) : a = t[n].agent
  BY ONLY <1>2
<1>5. ASSUME Len(ag) >= 2 PROVE \E j, k \in 1 .. Len(t) : t[j].agent # t[k].agent
  <2>1. 1 \in 1 .. Len(ag) /\ 2 \in 1 .. Len(ag) /\ ag[1] # ag[2]
    BY ONLY <1>2, <1>5
  <2>2. PICK j \in 1 .. Len(t) : ag[1] = t[j].agent
    BY ONLY <1>3, <1>4, <2>1
  <2>3. PICK k \in 1 .. Len(t) : ag[2] = t[k].agent
    BY ONLY <1>3, <1>4, <2>1
  <2> QED
    BY ONLY <2>1, <2>2, <2>3
<1>6. ASSUME NEW j \in 1 .. Len(t), NEW k \in 1 .. Len(t), t[j].agent # t[k].agent PROVE Len(ag) >= 2
  <2>1. PICK u \in 1 .. Len(ag) : ag[u] = t[j].agent
    BY ONLY <1>3, <1>4, j \in 1 .. Len(t)
  <2>2. PICK v \in 1 .. Len(ag) : ag[v] = t[k].agent
    BY ONLY <1>3, <1>4, k \in 1 .. Len(t)
  <2>3. u # v
    BY ONLY <1>6, <2>1, <2>2
  <2> QED
    BY ONLY <1>2, <2>3
<1> QED
  BY ONLY <1>1, <1>5, <1>6

NearFrom(an, n) == Min({k \in 1 .. n : an[k].at >= an[n].at - 10})
NearOf(an, n) == SubSeq(an, NearFrom(an, n), n)
SeenIn(an) == {n \in 3 .. Len(an) : Len(NearOf(an, n)) >= 3 /\ Len(Agents(NearOf(an, n))) >= 2}
CascadeAt(first) ==
  Incident("anomaly_cascade", (100 * Len(first)) \div 6, first[1].at, first[1].at + 15, Agents(first))
Within(an, t) == {n \in DOMAIN an : an[n].at >= t /\ an[n].at <= t + 10}
Stricken(an, t) ==
  Cardinality(Within(an, t)) >= 3 /\ Cardinality({an[n].agent : n \in Within(an, t)}) >= 2

Near(t, b, an, n) ==
  /\ b \in 1 .. n /\ an[b].at >= an[n].at - 10
  /\ \A k \in 1 .. n : an[k].at >= an[n].at - 10 => b <= k
  /\ Len(t) = n - b + 1 /\ Len(t) \in Nat
  /\ Len(Agents(t)) >= 2 <=> \E j, k \in b .. n : an[j].agent # an[k].agent

(* The anomalies of the ten seconds before one.                            *)
LEMMA NearIs ==
  ASSUME NEW an, NEW lasts, Events(an, lasts), NEW n, n \in 1 .. Len(an), NEW b, b = NearFrom(an, n), NEW t, t = NearOf(an, n)
  PROVE  Near(t, b, an, n)
<1>1. Proper(an) /\ Len(an) \in Nat /\ \A k \in 1 .. Len(an) : an[k].at \in Int
  BY EventsAre
<1> DEFINE V == {k \in 1 .. n : an[k].at >= an[n].at - 10}
<1>2. PICK W \in SUBSET Nat : W = V
  <2>1. V \in SUBSET Nat
    OBVIOUS
  <2> HIDE DEF V
  <2> QED
    BY <2>1
<1>3. n \in W
  <2>1. n \in 1 .. n /\ an[n].at >= an[n].at - 10
    BY ONLY <1>1, n \in 1 .. Len(an)
  <2> QED
    BY ONLY <1>2, <2>1
<1>4. b = Min(W)
  BY ONLY <1>2, b = NearFrom(an, n) DEF NearFrom
<1>5. b \in W /\ \A k \in W : b <= k
  <2>1. W # {}
    BY <1>3
  <2> QED
    BY ONLY <1>4, <2>1, W \in SUBSET Nat, LeastOf
<1>6. b \in 1 .. n /\ an[b].at >= an[n].at - 10 /\ \A k \in 1 .. n : an[k].at >= an[n].at - 10 => b <= k
  BY ONLY <1>2, <1>5
<1>7. t = SubSeq(an, b, n)
  BY ONLY b = NearFrom(an, n), t = NearOf(an, n) DEF NearOf
<1>8. PICK c \in Nat : c = n - b + 1
  BY <1>1, <1>6
<1>9. b \in Nat /\ b >= 1 /\ n \in Nat /\ n <= Len(an) /\ b <= n + 1 /\ c \in Nat
  BY <1>1, <1>6
<1>10. RunFrom(t, an, b, c)
  BY ONLY <1>1, <1>7, <1>8, <1>9, SliceIs
<1>11. Events(t, lasts)
  BY ONLY <1>7, <1>9, SliceOfEvents, Events(an, lasts)
<1>12. Len(t) = c /\ \A k \in 1 .. c : t[k] = an[b + k - 1]
  BY ONLY <1>10 DEF RunFrom
<1>13. Len(Agents(t)) >= 2 <=> \E j, k \in 1 .. Len(t) : t[j].agent # t[k].agent
  BY ONLY <1>11, TwoAgents
<1>14. ASSUME NEW j \in 1 .. c PROVE t[j] = an[b + j - 1] /\ b + j - 1 \in b .. n
  BY ONLY <1>8, <1>9, <1>12, j \in 1 .. c
<1>15. ASSUME NEW j \in b .. n PROVE t[j - b + 1] = an[j] /\ j - b + 1 \in 1 .. c
  <2>1. j - b + 1 \in 1 .. c /\ b + (j - b + 1) - 1 = j
    BY ONLY <1>8, <1>9, j \in b .. n
  <2> QED
    BY ONLY <1>12, <2>1
<1>16. ASSUME NEW j \in 1 .. c, NEW k \in 1 .. c, t[j].agent # t[k].agent PROVE \E u, v \in b .. n : an[u].agent # an[v].agent
  BY ONLY <1>14, <1>16, j \in 1 .. c, k \in 1 .. c
<1>17. ASSUME NEW j \in b .. n, NEW k \in b .. n, an[j].agent # an[k].agent PROVE \E u, v \in 1 .. c : t[u].agent # t[v].agent
  <2>1. t[j - b + 1] = an[j] /\ j - b + 1 \in 1 .. c
    BY ONLY <1>15, j \in b .. n
  <2>2. t[k - b + 1] = an[k] /\ k - b + 1 \in 1 .. c
    BY ONLY <1>15, k \in b .. n
  <2>3. t[j - b + 1].agent # t[k - b + 1].agent
    BY ONLY <1>17, <2>1, <2>2
  <2> QED
    BY ONLY <2>1, <2>2, <2>3
<1> QED
  BY ONLY <1>6, <1>8, <1>12, <1>13, <1>16, <1>17, c \in Nat DEF Near

(* A cascade is reported when some ten seconds hold three anomalies of two *)
(* agents, and, of anomalies in the order of their times, only then.       *)
LEMMA CascadeIs ==
  ASSUME NEW an, NEW lasts, Events(an, lasts), NEW l, l = AnomalyCascade(an)
  PROVE  /\ Foretold(l, "anomaly_cascade")
         /\ (\E t \in 0 .. lasts : Stricken(an, t)) => \E i : i \in ToSet(l)
         /\ InOrder(an, lasts) /\ (\E i : i \in ToSet(l)) => \E t \in 0 .. lasts : Stricken(an, t)
<1>1. /\ Len(an) \in Nat /\ DOMAIN an = 1 .. Len(an) /\ lasts \in Int
      /\ \A k \in 1 .. Len(an) : an[k].at \in Int
  BY EventsAre
<1>2. PICK seen : seen = SeenIn(an)
  OBVIOUS
<1>3. PICK first : first = NearOf(an, Min(seen))
  OBVIOUS
<1>4. l = IF SeenIn(an) = {} THEN <<>> ELSE <<CascadeAt(NearOf(an, Min(SeenIn(an))))>>
  BY Zenon DEF AnomalyCascade, SeenIn, NearOf, NearFrom, CascadeAt
<1>5. PICK c \in BOOLEAN : c <=> seen # {}
  OBVIOUS
<1>6. PICK p, onset, escalates, agents :
        p = (100 * Len(first)) \div 6 /\ onset = first[1].at /\ escalates = onset + 15 /\ agents = Agents(first)
  OBVIOUS
<1>7. l = Some(c, Incident("anomaly_cascade", p, onset, escalates, agents))
  BY ONLY <1>2, <1>3, <1>4, <1>5, <1>6 DEF CascadeAt, Some
<1>8. \A n \in seen : n \in 1 .. Len(an) /\ Len(NearOf(an, n)) \in Nat
  <2> SUFFICES ASSUME NEW n \in seen PROVE n \in 1 .. Len(an) /\ Len(NearOf(an, n)) \in Nat
    OBVIOUS
  <2>1. n \in 1 .. Len(an)
    BY ONLY <1>1, <1>2, n \in seen DEF SeenIn
  <2>2. PICK b, t : b = NearFrom(an, n) /\ t = NearOf(an, n)
    OBVIOUS
  <2>3. Near(t, b, an, n)
    BY ONLY <2>1, <2>2, NearIs, Events(an, lasts)
  <2> QED
    BY ONLY <2>1, <2>2, <2>3 DEF Near
<1>9. c => p \in Int
  <2> SUFFICES ASSUME c PROVE p \in Int
    OBVIOUS
  <2>1. seen \in SUBSET Nat /\ seen # {}
    BY ONLY <1>2, <1>5, c DEF SeenIn
  <2>2. PICK m : m = Min(seen)
    OBVIOUS
  <2>3. m \in seen
    BY ONLY <2>1, <2>2, LeastOf
  <2>4. Len(first) \in Nat
    BY ONLY <1>3, <1>8, <2>2, <2>3
  <2> QED
    BY ONLY <1>6, <2>4
<1>10. Foretold(l, "anomaly_cascade") /\ ((\E i : i \in ToSet(l)) <=> c)
  BY ONLY <1>7, <1>9, SomeIncident, c \in BOOLEAN
<1>11. ASSUME NEW t \in 0 .. lasts
       PROVE  /\ IsFiniteSet(Within(an, t)) /\ Within(an, t) \in SUBSET (1 .. Len(an))
              /\ \A k \in 1 .. Len(an) : k \in Within(an, t) <=> an[k].at >= t /\ an[k].at <= t + 10
              /\ (Cardinality({an[n].agent : n \in Within(an, t)}) >= 2)
                   <=> \E j, k \in Within(an, t) : an[j].agent # an[k].agent
  <2>1. PICK N \in SUBSET (1 .. Len(an)) : N = Within(an, t)
    BY <1>1 DEF Within
  <2>2. IsFiniteSet(N)
    BY ONLY <1>1, CountPlaces, N \in SUBSET (1 .. Len(an))
  <2>3. \A k \in 1 .. Len(an) : k \in N <=> an[k].at >= t /\ an[k].at <= t + 10
    BY ONLY <1>1, <2>1 DEF Within
  <2>4. PICK f, A : f = [n \in N |-> an[n].agent] /\ A = {an[n].agent : n \in N}
    OBVIOUS
  <2>5. f \in Surjection(N, A)
    BY ONLY <2>4 DEF Surjection
  <2>6. IsFiniteSet(A)
    BY ONLY <2>2, <2>5, FS_Surjection
  <2>7. Cardinality(A) >= 2 <=> \E x, y \in A : x # y
    BY ONLY <2>6, TwoOf
  <2>8. (\E x, y \in A : x # y) <=> \E j, k \in N : an[j].agent # an[k].agent
    BY ONLY <2>4
  <2> QED
    BY ONLY <2>1, <2>2, <2>3, <2>4, <2>7, <2>8, N \in SUBSET (1 .. Len(an))
<1>12. ASSUME InOrder(an, lasts), NEW n \in seen PROVE \E t \in 0 .. lasts : Stricken(an, t)
  <2>0. /\ \A k \in 1 .. Len(an) : an[k].at \in 0 .. lasts
        /\ \A j, k \in 1 .. Len(an) : j < k => an[j].at <= an[k].at
    BY <1>12, OrderIs
  <2>1. PICK b, s : b = NearFrom(an, n) /\ s = NearOf(an, n)
    OBVIOUS
  <2>2. n \in 1 .. Len(an) /\ Len(s) >= 3 /\ Len(Agents(s)) >= 2
    BY ONLY <1>1, <1>2, <2>1, n \in seen DEF SeenIn
  <2>3. /\ b \in 1 .. n /\ an[b].at >= an[n].at - 10 /\ Len(s) = n - b + 1
        /\ Len(Agents(s)) >= 2 <=> \E j, k \in b .. n : an[j].agent # an[k].agent
    <3>1. Near(s, b, an, n)
      BY ONLY <2>1, <2>2, NearIs, Events(an, lasts)
    <3> QED
      BY ONLY <3>1 DEF Near
  <2>4. PICK t : t = an[b].at
    OBVIOUS
  <2>5. t \in 0 .. lasts /\ b \in 1 .. Len(an)
    BY ONLY <1>1, <2>0, <2>2, <2>3, <2>4
  <2>6. ASSUME NEW k \in b .. n PROVE k \in Within(an, t)
    <3>1. k \in 1 .. Len(an) /\ (k = b \/ b < k) /\ (k = n \/ k < n)
      BY ONLY <1>1, <2>2, <2>3, k \in b .. n
    <3>2. an[b].at <= an[k].at
      BY ONLY <1>1, <2>0, <2>4, <2>5, <3>1
    <3>3. an[k].at <= an[n].at
      BY ONLY <1>1, <2>0, <2>2, <3>1
    <3>4. an[k].at >= t /\ an[k].at <= t + 10
      <4>1. an[k].at \in Int /\ an[n].at \in Int /\ an[b].at \in Int /\ an[b].at >= an[n].at - 10
        BY ONLY <1>1, <2>2, <2>3, <2>5, <3>1
      <4> QED
        BY ONLY <2>4, <3>2, <3>3, <4>1
    <3> QED
      BY ONLY <1>11, <2>5, <3>1, <3>4
  <2>7. Cardinality(Within(an, t)) >= 3
    <3>1. PICK W : W = Within(an, t)
      OBVIOUS
    <3>2. b \in Int /\ n \in Int /\ b <= n /\ n - b + 1 >= 3
      BY ONLY <1>1, <2>2, <2>3
    <3>3. Cardinality(b .. n) = n - b + 1
      BY ONLY <3>2, FS_Interval
    <3>4. IsFiniteSet(W) /\ b .. n \in SUBSET W
      BY ONLY <1>11, <2>5, <2>6, <3>1
    <3>5. Cardinality(b .. n) <= Cardinality(W) /\ Cardinality(W) \in Nat
      BY ONLY <3>4, FS_Subset, FS_CardinalityType
    <3> QED
      BY ONLY <3>1, <3>2, <3>3, <3>5
  <2>8. \E j, k \in Within(an, t) : an[j].agent # an[k].agent
    BY ONLY <2>2, <2>3, <2>6
  <2> QED
    BY ONLY <1>11, <2>5, <2>7, <2>8 DEF Stricken
<1>13. ASSUME NEW t \in 0 .. lasts, Stricken(an, t) PROVE seen # {}
  <2>1. PICK N \in SUBSET (1 .. Len(an)) : N = Within(an, t)
    BY ONLY <1>11, t \in 0 .. lasts
  <2>2. /\ IsFiniteSet(N) /\ Cardinality(N) >= 3
        /\ \A k \in 1 .. Len(an) : k \in N <=> an[k].at >= t /\ an[k].at <= t + 10
        /\ \E j, k \in N : an[j].agent # an[k].agent
    BY ONLY <1>11, <1>13, <2>1, t \in 0 .. lasts DEF Stricken
  <2>3. PICK n : n = Max(N)
    OBVIOUS
  <2>4. n \in N /\ \A k \in N : k <= n
    <3>1. N # {}
      BY ONLY <2>2
    <3> QED
      BY ONLY <1>1, <2>3, <3>1, GreatestOf, N \in SUBSET (1 .. Len(an))
  <2>5. n \in 1 .. Len(an)
    BY ONLY <2>4, N \in SUBSET (1 .. Len(an))
  <2>6. PICK b, s : b = NearFrom(an, n) /\ s = NearOf(an, n)
    OBVIOUS
  <2>7. /\ b \in 1 .. n /\ \A k \in 1 .. n : an[k].at >= an[n].at - 10 => b <= k
        /\ Len(s) = n - b + 1
        /\ Len(Agents(s)) >= 2 <=> \E j, k \in b .. n : an[j].agent # an[k].agent
    <3>1. Near(s, b, an, n)
      BY ONLY <2>5, <2>6, NearIs, Events(an, lasts)
    <3> QED
      BY ONLY <3>1 DEF Near
  <2>8. ASSUME NEW k \in N PROVE k \in b .. n
    <3>1. k \in 1 .. Len(an) /\ k <= n
      BY ONLY <2>4, k \in N, N \in SUBSET (1 .. Len(an))
    <3>2. an[k].at >= t /\ an[n].at <= t + 10 /\ an[k].at \in Int /\ an[n].at \in Int
      BY ONLY <1>1, <2>2, <2>4, <2>5, <3>1, k \in N
    <3>3. an[k].at >= an[n].at - 10
      BY ONLY <3>2, t \in 0 .. lasts
    <3>4. k \in 1 .. n
      BY ONLY <1>1, <2>5, <3>1
    <3>5. b <= k
      BY ONLY <2>7, <3>3, <3>4
    <3> QED
      BY ONLY <2>7, <3>4, <3>5
  <2>9. n - b + 1 >= 3
    <3>1. b \in Int /\ n \in Int /\ b <= n
      BY ONLY <1>1, <2>5, <2>7
    <3>2. IsFiniteSet(b .. n) /\ Cardinality(b .. n) = n - b + 1
      BY ONLY <3>1, FS_Interval
    <3>3. N \in SUBSET (b .. n)
      BY ONLY <2>8
    <3>4. Cardinality(N) <= Cardinality(b .. n) /\ Cardinality(N) \in Nat
      BY ONLY <2>2, <3>2, <3>3, FS_Subset, FS_CardinalityType
    <3> QED
      BY ONLY <2>2, <3>1, <3>2, <3>4
  <2>10. \E j, k \in b .. n : an[j].agent # an[k].agent
    BY ONLY <2>2, <2>8
  <2>11. n \in 3 .. Len(an)
    BY ONLY <1>1, <2>5, <2>7, <2>9
  <2>12. Len(NearOf(an, n)) >= 3 /\ Len(Agents(NearOf(an, n))) >= 2
    BY ONLY <2>6, <2>7, <2>9, <2>10
  <2> QED
    BY ONLY <1>2, <2>11, <2>12 DEF SeenIn
<1> QED
  BY ONLY <1>5, <1>10, <1>12, <1>13

(* The incidents of a window.                                              *)
OfBoth(r, s, t) == \A i : i \in ToSet(r) <=> i \in ToSet(s) \/ i \in ToSet(t)

LEMMA RowOfIncidents ==
  ASSUME NEW s, Rankable(s), NEW t, Rankable(t), NEW r, r = s \o t
  PROVE  Rankable(r) /\ OfBoth(r, s, t)
<1>1. Proper(s) /\ Proper(t)
  BY ONLY Rankable(s), Rankable(t) DEF Rankable
<1>2. Proper(r) /\ ToSet(r) = ToSet(s) \cup ToSet(t)
  <2>1. Proper(s \o t) /\ ToSet(s \o t) = ToSet(s) \cup ToSet(t)
    BY ONLY <1>1, RowOfTwo
  <2> QED
    BY ONLY <2>1, r = s \o t
<1> QED
  BY ONLY <1>2, Rankable(s), Rankable(t) DEF Rankable, OfBoth

LEMMA RankingIs ==
  ASSUME NEW m, Rankable(m), NEW l, l = Ranked(m, LAMBDA i : 1000 * RiskValue[i.risk] + i.probability)
  PROVE  Proper(l) /\ ToSet(l) = ToSet(m)
<1>1. Proper(m) /\ \A i \in ToSet(m) : i.risk \in Risks /\ i.probability \in Int
  BY DEF Rankable
<1>2. Len(m) \in Nat /\ DOMAIN m = 1 .. Len(m)
  BY ONLY <1>1, ProperIs
<1>3. \A x \in Risks : RiskValue[x] \in Int
  BY ONLY TRUE DEF Risks, RiskValue
<1>4. PICK r : r = [k \in 1 .. Len(m) |-> 1000 * RiskValue[m[k].risk] + m[k].probability]
  OBVIOUS
<1>5. DOMAIN r = 1 .. Len(m) /\ \A k \in 1 .. Len(m) : r[k] \in Int
  <2>1. \A k \in 1 .. Len(m) : m[k] \in ToSet(m)
    BY ONLY <1>2 DEF ToSet
  <2>2. \A k \in 1 .. Len(m) : RiskValue[m[k].risk] \in Int /\ m[k].probability \in Int
    BY ONLY <1>1, <1>3, <2>1
  <2> QED
    BY ONLY <1>4, <2>2
<1>6. ByRank(l, m, r, Len(m))
  <2>1. l = Ranked(m, LAMBDA i : 1000 * RiskValue[i.risk] + i.probability)
    OBVIOUS
  <2>2. r = [k \in DOMAIN m |-> 1000 * RiskValue[m[k].risk] + m[k].probability]
    BY ONLY <1>2, <1>4
  <2>3. l = LET place == PlaceByRank([k \in DOMAIN m |-> 1000 * RiskValue[m[k].risk] + m[k].probability])
            IN  [k \in DOMAIN m |-> m[CHOOSE n \in DOMAIN m : place[n] = k]]
    BY ONLY <2>1, Zenon DEF Ranked, Each
  <2>4. l = LET place == PlaceByRank(r) IN [k \in 1 .. Len(m) |-> m[CHOOSE n \in 1 .. Len(m) : place[n] = k]]
    BY ONLY <1>2, <2>2, <2>3
  <2> QED
    BY ONLY <2>4, Zenon DEF ByRank
<1> QED
  BY ONLY <1>1, <1>2, <1>5, <1>6, RankedIs

Foresees(list, kind) == \E i \in ToSet(list) : i.kind = kind

(* What the ranked incidents of a window say is what its detectors said.   *)
LEMMA IncidentsAre ==
  ASSUME NEW es, NEW lasts, Events(es, lasts), NEW scores, scores = Scores(es),
         NEW l, l = Incidents(es, lasts, scores)
  PROVE  /\ (\E t \in 0 .. lasts : Stricken(Typed(es, AnomalyTypes), t)) => Foresees(l, "anomaly_cascade")
         /\ InOrder(es, lasts) /\ Foresees(l, "anomaly_cascade") => \E t \in 0 .. lasts : Stricken(Typed(es, AnomalyTypes), t)
         /\ Foresees(l, "retry_storm") <=> Storms(Typed(es, RetryTypes), lasts)
         /\ \A a : Blamed(l, "orchestration_instability", a)
                     <=> FlipSum(es) >= 4 /\ a \in ToSet(Agents(es)) /\ Flips(OfAgent(es, a)) >= 2
         /\ \A a : Blamed(l, "agent_exhaustion", a) <=> \E k \in DOMAIN scores : scores[k].agent = a /\ Tires(scores[k])
<1>1. PICK rs, an : rs = Typed(es, RetryTypes) /\ an = Typed(es, AnomalyTypes)
  OBVIOUS
<1>2. Events(rs, lasts) /\ Events(an, lasts) /\ (InOrder(es, lasts) => InOrder(an, lasts))
  BY ONLY <1>1, TypedIs, Events(es, lasts)
<1>3. PICK l1, l2, l3, l4, l5, l6 :
        /\ l1 = RetryStorm(rs, lasts) /\ l2 = Degradation(es, scores) /\ l3 = AnomalyCascade(an)
        /\ l4 = ThroughputCollapse(es) /\ l5 = (IF es = <<>> THEN <<>> ELSE FlipFlops(es)) /\ l6 = Exhaustion(es, scores)
  OBVIOUS
<1>4. Foretold(l1, "retry_storm") /\ ((\E i : i \in ToSet(l1)) <=> Storms(rs, lasts))
  BY ONLY <1>2, <1>3, StormIs
<1>5. Foretold(l2, "swarm_degradation")
  BY ONLY <1>3, DegradationIs, Events(es, lasts)
<1>6. /\ Foretold(l3, "anomaly_cascade")
      /\ (\E t \in 0 .. lasts : Stricken(an, t)) => \E i : i \in ToSet(l3)
      /\ InOrder(an, lasts) /\ (\E i : i \in ToSet(l3)) => \E t \in 0 .. lasts : Stricken(an, t)
  BY ONLY <1>2, <1>3, CascadeIs
<1>7. Foretold(l4, "throughput_collapse")
  BY ONLY <1>3, CollapseIs, Events(es, lasts)
<1>8. /\ Foretold(l5, "orchestration_instability")
      /\ \A a : Blamed(l5, "orchestration_instability", a)
                  <=> FlipSum(es) >= 4 /\ a \in ToSet(Agents(es)) /\ Flips(OfAgent(es, a)) >= 2
  <2>1. CASE es = <<>>
    <3>1. l5 = <<>>
      BY <1>3, <2>1
    <3>2. ToSet(l5) = {} /\ Proper(l5)
      BY <3>1 DEF ToSet, Proper
    <3>3. ToSet(Agents(es)) = {es[n].agent : n \in 1 .. Len(es)}
      BY ONLY AgentsAre, Events(es, lasts)
    <3>4. Len(es) = 0
      BY <2>1
    <3>5. \A a : a \notin ToSet(Agents(es))
      BY ONLY <3>3, <3>4
    <3> QED
      BY ONLY <3>2, <3>5 DEF Foretold, Rankable, Blamed
  <2>2. CASE es # <<>>
    <3>1. l5 = FlipFlops(es)
      BY <1>3, <2>2
    <3> QED
      BY ONLY <3>1, InstabilityIs, Events(es, lasts)
  <2> QED
    BY <2>1, <2>2
<1>9. /\ Foretold(l6, "agent_exhaustion")
      /\ \A a : Blamed(l6, "agent_exhaustion", a) <=> \E k \in DOMAIN scores : scores[k].agent = a /\ Tires(scores[k])
  BY ONLY <1>3, ExhaustionIs, Events(es, lasts), scores = Scores(es)
<1>10. Rankable(l1) /\ Rankable(l2) /\ Rankable(l3) /\ Rankable(l4) /\ Rankable(l5) /\ Rankable(l6)
  BY ONLY <1>4, <1>5, <1>6, <1>7, <1>8, <1>9 DEF Foretold
<1>11. PICK m2 : m2 = l1 \o l2
  OBVIOUS
<1>12. PICK m3 : m3 = m2 \o l3
  OBVIOUS
<1>13. PICK m4 : m4 = m3 \o l4
  OBVIOUS
<1>14. PICK m5 : m5 = m4 \o l5
  OBVIOUS
<1>15. PICK m6 : m6 = m5 \o l6
  OBVIOUS
<1>16. Rankable(m2) /\ OfBoth(m2, l1, l2)
  BY ONLY <1>10, <1>11, RowOfIncidents
<1>17. Rankable(m3) /\ OfBoth(m3, m2, l3)
  BY ONLY <1>10, <1>12, <1>16, RowOfIncidents
<1>18. Rankable(m4) /\ OfBoth(m4, m3, l4)
  BY ONLY <1>10, <1>13, <1>17, RowOfIncidents
<1>19. Rankable(m5) /\ OfBoth(m5, m4, l5)
  BY ONLY <1>10, <1>14, <1>18, RowOfIncidents
<1>20. Rankable(m6) /\ OfBoth(m6, m5, l6)
  BY ONLY <1>10, <1>15, <1>19, RowOfIncidents
<1>21. l = Ranked(m6, LAMBDA i : 1000 * RiskValue[i.risk] + i.probability)
  BY ONLY <1>1, <1>3, <1>11, <1>12, <1>13, <1>14, <1>15, l = Incidents(es, lasts, scores) DEF Incidents
<1>22. ToSet(l) = ToSet(m6)
  BY ONLY <1>20, <1>21, RankingIs
<1>23. \A i : i \in ToSet(l) <=> i \in ToSet(l1) \/ i \in ToSet(l2) \/ i \in ToSet(l3) \/ i \in ToSet(l4) \/ i \in ToSet(l5) \/ i \in ToSet(l6)
  BY ONLY <1>16, <1>17, <1>18, <1>19, <1>20, <1>22 DEF OfBoth
<1>24. /\ \A i : i \in ToSet(l1) => i.kind = "retry_storm"
       /\ \A i : i \in ToSet(l2) => i.kind = "swarm_degradation"
       /\ \A i : i \in ToSet(l3) => i.kind = "anomaly_cascade"
       /\ \A i : i \in ToSet(l4) => i.kind = "throughput_collapse"
       /\ \A i : i \in ToSet(l5) => i.kind = "orchestration_instability"
       /\ \A i : i \in ToSet(l6) => i.kind = "agent_exhaustion"
  BY ONLY <1>4, <1>5, <1>6, <1>7, <1>8, <1>9 DEF Foretold
<1>25. \A i : i \in ToSet(l) /\ i.kind = "anomaly_cascade" <=> i \in ToSet(l3)
  BY ONLY <1>23, <1>24
<1>26. \A i : i \in ToSet(l) /\ i.kind = "retry_storm" <=> i \in ToSet(l1)
  BY ONLY <1>23, <1>24
<1>27. \A i : i \in ToSet(l) /\ i.kind = "orchestration_instability" <=> i \in ToSet(l5)
  BY ONLY <1>23, <1>24
<1>28. \A i : i \in ToSet(l) /\ i.kind = "agent_exhaustion" <=> i \in ToSet(l6)
  BY ONLY <1>23, <1>24
<1>29. /\ (\E t \in 0 .. lasts : Stricken(an, t)) => Foresees(l, "anomaly_cascade")
       /\ InOrder(es, lasts) /\ Foresees(l, "anomaly_cascade") => \E t \in 0 .. lasts : Stricken(an, t)
  BY ONLY <1>2, <1>6, <1>25 DEF Foresees
<1>30. Foresees(l, "retry_storm") <=> Storms(rs, lasts)
  BY ONLY <1>4, <1>26 DEF Foresees
<1>31. \A a : Blamed(l, "orchestration_instability", a) <=> Blamed(l5, "orchestration_instability", a)
  BY ONLY <1>24, <1>27 DEF Blamed
<1>32. \A a : Blamed(l, "agent_exhaustion", a) <=> Blamed(l6, "agent_exhaustion", a)
  BY ONLY <1>24, <1>28 DEF Blamed
<1> QED
  BY ONLY <1>1, <1>8, <1>9, <1>29, <1>30, <1>31, <1>32

-----------------------------------------------------------------------------
(* The window: the events of a swarm.                                      *)
LEMMA LaterEvents ==
  ASSUME NEW more, NEW length, WellFormed(more, length), NEW lasts \in Int,
         NEW f, f = Each(more, LAMBDA e : [e EXCEPT !.at = e.at + lasts])
  PROVE  Events(f, lasts + length)
<1>1. PICK n : n = Len(more)
  OBVIOUS
<1>2. /\ n \in Nat /\ DOMAIN more = 1 .. n /\ length \in Int
      /\ \A k \in 1 .. n : /\ {"type", "agent", "zone", "at", "target", "took"} \subseteq DOMAIN more[k]
                           /\ more[k].at \in Int /\ more[k].took \in Int \cup {None}
  BY ONLY <1>1, WellFormed(more, length) DEF WellFormed, IsList
<1>3. f = [k \in 1 .. n |-> [more[k] EXCEPT !.at = more[k].at + lasts]]
  <2>1. f = [k \in DOMAIN more |-> [more[k] EXCEPT !.at = more[k].at + lasts]]
    BY ONLY f = Each(more, LAMBDA e : [e EXCEPT !.at = e.at + lasts]), Zenon DEF Each
  <2> QED
    BY ONLY <1>2, <2>1
<1>4. f = [k \in 1 .. n |-> f[k]]
  BY ONLY <1>3
<1>5. Proper(f) /\ Len(f) = n /\ DOMAIN f = 1 .. n
  BY ONLY <1>2, <1>4, ListIs
<1>6. \A k \in 1 .. n : /\ {"type", "agent", "zone", "at", "target", "took"} \subseteq DOMAIN f[k]
                        /\ f[k].at \in Int /\ f[k].took \in Int \cup {None}
  <2> SUFFICES ASSUME NEW k \in 1 .. n
               PROVE  /\ {"type", "agent", "zone", "at", "target", "took"} \subseteq DOMAIN f[k]
                      /\ f[k].at \in Int /\ f[k].took \in Int \cup {None}
    OBVIOUS
  <2>1. PICK e : e = more[k]
    OBVIOUS
  <2>2. {"type", "agent", "zone", "at", "target", "took"} \subseteq DOMAIN e /\ e.at \in Int /\ e.took \in Int \cup {None}
    BY ONLY <1>2, <2>1, k \in 1 .. n
  <2>3. f[k] = [e EXCEPT !.at = e.at + lasts]
    BY ONLY <1>3, <2>1, k \in 1 .. n
  <2> QED
    BY ONLY <2>2, <2>3, lasts \in Int
<1>7. lasts + length \in Int /\ IsList(f)
  BY ONLY <1>2, <1>5, lasts \in Int DEF IsList
<1> QED
  BY ONLY <1>5, <1>6, <1>7 DEF Events, WellFormed

(* A burst that comes after some events leaves them events.                *)
LEMMA EventsGoOn ==
  ASSUME NEW es, NEW lasts, Events(es, lasts), NEW more, NEW length, WellFormed(more, length),
         NEW t, t = es \o Each(more, LAMBDA e : [e EXCEPT !.at = e.at + lasts])
  PROVE  Events(t, lasts + length)
<1>1. PICK f : f = Each(more, LAMBDA e : [e EXCEPT !.at = e.at + lasts])
  OBVIOUS
<1>2. PICK l, n : l = Len(es) /\ n = Len(f)
  OBVIOUS
<1>3. Proper(es) /\ l \in Nat /\ DOMAIN es = 1 .. l /\ lasts \in Int
  BY ONLY <1>2, EventsAre, Events(es, lasts)
<1>4. Events(f, lasts + length)
  BY ONLY <1>1, <1>3, LaterEvents, WellFormed(more, length)
<1>5. Proper(f) /\ n \in Nat /\ DOMAIN f = 1 .. n /\ lasts + length \in Int
  <2>1. PICK long : long = lasts + length
    OBVIOUS
  <2>2. Events(f, long)
    BY ONLY <1>4, <2>1
  <2> QED
    BY ONLY <1>2, <2>1, <2>2, EventsAre
<1>6. t = es \o f
  BY ONLY <1>1, t = es \o Each(more, LAMBDA e : [e EXCEPT !.at = e.at + lasts])
<1>7. /\ Proper(t) /\ Len(t) = l + n
      /\ \A k \in 1 .. l : t[k] = es[k]
      /\ \A k \in 1 .. n : t[l + k] = f[k]
  BY ONLY <1>2, <1>3, <1>5, <1>6, RowOfTwo
<1>8. DOMAIN t = 1 .. l + n /\ IsList(t)
  BY ONLY <1>7, ProperIs
<1>9. \A k \in 1 .. l + n : (k \in 1 .. l /\ t[k] = es[k]) \/ (k - l \in 1 .. n /\ t[k] = f[k - l])
  <2> SUFFICES ASSUME NEW k \in 1 .. l + n PROVE (k \in 1 .. l /\ t[k] = es[k]) \/ (k - l \in 1 .. n /\ t[k] = f[k - l])
    OBVIOUS
  <2>1. CASE k \in 1 .. l
    BY ONLY <1>7, <2>1
  <2>2. CASE k \notin 1 .. l
    <3>1. k - l \in 1 .. n /\ l + (k - l) = k
      BY ONLY <1>3, <1>5, k \in 1 .. l + n, <2>2
    <3> QED
      BY ONLY <1>7, <3>1
  <2> QED
    BY ONLY <2>1, <2>2
<1>10. \A k \in 1 .. l + n : /\ {"type", "agent", "zone", "at", "target", "took"} \subseteq DOMAIN t[k]
                             /\ t[k].at \in Int /\ t[k].took \in Int \cup {None}
  <2>1. \A k \in 1 .. l : /\ {"type", "agent", "zone", "at", "target", "took"} \subseteq DOMAIN es[k]
                          /\ es[k].at \in Int /\ es[k].took \in Int \cup {None}
    BY ONLY <1>3, Events(es, lasts) DEF Events, WellFormed
  <2>2. \A k \in 1 .. n : /\ {"type", "agent", "zone", "at", "target", "took"} \subseteq DOMAIN f[k]
                          /\ f[k].at \in Int /\ f[k].took \in Int \cup {None}
    BY ONLY <1>4, <1>5 DEF Events, WellFormed
  <2> QED
    BY ONLY <1>9, <2>1, <2>2
<1> QED
  BY ONLY <1>5, <1>7, <1>8, <1>10 DEF Events, WellFormed
-----------------------------------------------------------------------------
(* The detectors, of a report on the window.                               *)
LEMMA ReportIs ==
  ASSUME NEW es, NEW lasts, NEW h, h = HealthReport(es, lasts), NEW scores, scores = Scores(es)
  PROVE  h.bottlenecks = Bottlenecks(es, lasts, scores) /\ h.incidents = Incidents(es, lasts, scores)
<1>1. h = ReportOf(es, lasts, scores)
  BY DEF HealthReport
<1>2. PICK bs, is : bs = Bottlenecks(es, lasts, scores) /\ is = Incidents(es, lasts, scores)
  OBVIOUS
<1> QED
  BY ONLY <1>1, <1>2 DEF ReportOf

LEMMA HoldsAt ==
  ASSUME NEW list, NEW kind, NEW a
  PROVE  Holds(list, kind, a) <=> \E n \in DOMAIN list : list[n].kind = kind /\ list[n].agent = a
BY DEF Holds, ToSet

LEMMA ForeseesIs ==
  ASSUME NEW list, NEW kind
  PROVE  Foresees(list, kind) <=> kind \in Kinds(list)
<1>1. Kinds(list) = {list[n].kind : n \in DOMAIN list}
  BY DEF Kinds
<1> QED
  BY ONLY <1>1 DEF Foresees, ToSet

(* A report on the window says of it what the definitions of the           *)
(* detectors say.                                                          *)
LEMMA DetectorsFind ==
  ASSUME Events(window, elapsed), NEW health, health = HealthReport(window, elapsed)
  PROVE  LoopsFound(health) /\ CascadesFound(health) /\ DelaysFound(health) /\ StallsFound(health)
<1>1. PICK es, lasts : es = window /\ lasts = elapsed
  OBVIOUS
<1>2. PICK scores : scores = Scores(es)
  OBVIOUS
<1>3. PICK bs, is : bs = health.bottlenecks /\ is = health.incidents
  OBVIOUS
<1>4. bs = Bottlenecks(es, lasts, scores) /\ is = Incidents(es, lasts, scores)
  <2>1. health = HealthReport(es, lasts)
    BY <1>1
  <2> QED
    BY ONLY <1>2, <1>3, <2>1, ReportIs
<1>5. Events(es, lasts)
  BY <1>1
<1>6. \A a : /\ Holds(bs, "retry_loop", a) => Triple(OfAgent(Typed(es, RetryTypes), a))
             /\ InOrder(es, lasts) /\ Triple(OfAgent(Typed(es, RetryTypes), a)) => Holds(bs, "retry_loop", a)
             /\ LateBy(es, lasts, a) => Holds(bs, "handoff_delay", a)
             /\ InOrder(es, lasts) /\ Holds(bs, "handoff_delay", a) => LateBy(es, lasts, a)
             /\ a \in ToSet(Agents(es)) /\ Stuck(es, lasts, a) => Holds(bs, "stalled_orchestration", a)
             /\ InOrder(es, lasts) /\ a \in ToSet(Agents(es)) /\ Holds(bs, "stalled_orchestration", a) => Stuck(es, lasts, a)
  BY ONLY <1>2, <1>4, <1>5, BottlenecksAre
<1>7. /\ (\E t \in 0 .. lasts : Stricken(Typed(es, AnomalyTypes), t)) => Foresees(is, "anomaly_cascade")
      /\ InOrder(es, lasts) /\ Foresees(is, "anomaly_cascade") => \E t \in 0 .. lasts : Stricken(Typed(es, AnomalyTypes), t)
  BY ONLY <1>2, <1>4, <1>5, IncidentsAre
<1>8. DOMAIN es = 1 .. Len(es)
  BY ONLY <1>5, EventsAre
<1>9. \A kind, a : Holds(bs, kind, a) <=> \E n \in DOMAIN bs : bs[n].kind = kind /\ bs[n].agent = a
  BY ONLY HoldsAt
<1>10. LoopsFound(health)
  <2> SUFFICES ASSUME NEW a \in ToSet(Agents(window))
               PROVE  Entails(\E n \in DOMAIN health.bottlenecks :
                                health.bottlenecks[n].kind = "retry_loop" /\ health.bottlenecks[n].agent = a,
                              \E i, j, k \in DOMAIN OfAgent(Typed(window, RetryTypes), a) :
                                /\ i < j /\ j < k
                                /\ OfAgent(Typed(window, RetryTypes), a)[k].at <= OfAgent(Typed(window, RetryTypes), a)[i].at + 5)
    BY Zenon DEF LoopsFound
  <2>1. PICK all : all = Typed(es, RetryTypes)
    OBVIOUS
  <2>2. PICK rs : rs = OfAgent(all, a)
    OBVIOUS
  <2>3. Events(all, lasts)
    BY ONLY <1>5, <2>1, TypedIs
  <2>4. OfAgent(Typed(window, RetryTypes), a) = rs
    BY ONLY <1>1, <2>1, <2>2
  <2>5. DOMAIN rs = 1 .. Len(rs)
    <3>1. Events(rs, lasts)
      BY ONLY <2>2, <2>3, OfAgentIs
    <3> QED
      BY ONLY <3>1, EventsAre
  <2>6. Triple(rs) <=> \E i, j, k \in DOMAIN rs : i < j /\ j < k /\ rs[k].at <= rs[i].at + 5
    BY ONLY <2>5 DEF Triple
  <2>7. /\ Holds(bs, "retry_loop", a) => Triple(rs)
        /\ InOrder(es, lasts) /\ Triple(rs) => Holds(bs, "retry_loop", a)
    BY ONLY <1>6, <2>1, <2>2
  <2>8. Entails(\E n \in DOMAIN bs : bs[n].kind = "retry_loop" /\ bs[n].agent = a,
                \E i, j, k \in DOMAIN rs : i < j /\ j < k /\ rs[k].at <= rs[i].at + 5)
    BY ONLY <1>1, <1>9, <2>6, <2>7 DEF Entails
  <2> QED
    BY ONLY <1>3, <2>4, <2>8
<1>11. CascadesFound(health)
  <2>1. PICK an : an = Typed(es, AnomalyTypes)
    OBVIOUS
  <2>2. /\ (\E t \in 0 .. lasts : Stricken(an, t)) => "anomaly_cascade" \in Kinds(is)
        /\ InOrder(es, lasts) /\ "anomaly_cascade" \in Kinds(is) => \E t \in 0 .. lasts : Stricken(an, t)
    BY ONLY <1>7, <2>1, ForeseesIs
  <2>3. Typed(window, AnomalyTypes) = an
    BY ONLY <1>1, <2>1
  <2>4. Entails(\E t \in 0 .. elapsed : Stricken(Typed(window, AnomalyTypes), t), "anomaly_cascade" \in Kinds(health.incidents))
    BY ONLY <1>1, <1>3, <2>2, <2>3 DEF Entails
  <2> QED
    BY ONLY <2>4, Zenon DEF CascadesFound, Stricken, Within
<1>12. DelaysFound(health)
  <2> SUFFICES ASSUME NEW a \in ToSet(Agents(window))
               PROVE  Entails(\E n \in DOMAIN window :
                                /\ window[n].agent = a /\ window[n].type \in HandoffTypes /\ window[n].target # None
                                /\ elapsed > window[n].at + 5
                                /\ \A m \in DOMAIN window :
                                     window[m].agent = window[n].target => window[m].at \notin window[n].at + 1 .. window[n].at + 5,
                              \E n \in DOMAIN health.bottlenecks :
                                health.bottlenecks[n].kind = "handoff_delay" /\ health.bottlenecks[n].agent = a)
    BY Zenon DEF DelaysFound
  <2>1. LateBy(es, lasts, a)
          <=> \E n \in DOMAIN es :
                /\ es[n].agent = a /\ es[n].type \in HandoffTypes /\ es[n].target # None /\ lasts > es[n].at + 5
                /\ \A m \in DOMAIN es : es[m].agent = es[n].target => es[m].at \notin es[n].at + 1 .. es[n].at + 5
    BY ONLY <1>8 DEF LateBy, HandsOver, Idle
  <2>2. /\ LateBy(es, lasts, a) => Holds(bs, "handoff_delay", a)
        /\ InOrder(es, lasts) /\ Holds(bs, "handoff_delay", a) => LateBy(es, lasts, a)
    BY ONLY <1>6
  <2>3. Entails(\E n \in DOMAIN es :
                  /\ es[n].agent = a /\ es[n].type \in HandoffTypes /\ es[n].target # None /\ lasts > es[n].at + 5
                  /\ \A m \in DOMAIN es : es[m].agent = es[n].target => es[m].at \notin es[n].at + 1 .. es[n].at + 5,
                \E n \in DOMAIN bs : bs[n].kind = "handoff_delay" /\ bs[n].agent = a)
    BY ONLY <1>1, <1>9, <2>1, <2>2 DEF Entails
  <2> QED
    BY ONLY <1>1, <1>3, <2>3
<1>13. StallsFound(health)
  <2> SUFFICES ASSUME NEW a \in ToSet(Agents(window))
               PROVE  Entails(/\ elapsed >= 20 /\ Len(OfAgent(window, a)) >= 3
                              /\ \A n \in DOMAIN window : window[n].agent = a => window[n].at < elapsed - 10,
                              \E n \in DOMAIN health.bottlenecks :
                                health.bottlenecks[n].kind = "stalled_orchestration" /\ health.bottlenecks[n].agent = a)
    BY Zenon DEF StallsFound
  <2>1. /\ Stuck(es, lasts, a) => Holds(bs, "stalled_orchestration", a)
        /\ InOrder(es, lasts) /\ Holds(bs, "stalled_orchestration", a) => Stuck(es, lasts, a)
    <3>1. a \in ToSet(Agents(es))
      BY ONLY <1>1, a \in ToSet(Agents(window))
    <3> QED
      BY ONLY <1>6, <3>1
  <2>2. Entails(/\ lasts >= 20 /\ Len(OfAgent(es, a)) >= 3
                /\ \A n \in DOMAIN es : es[n].agent = a => es[n].at < lasts - 10,
                \E n \in DOMAIN bs : bs[n].kind = "stalled_orchestration" /\ bs[n].agent = a)
    BY ONLY <1>1, <1>9, <2>1 DEF Stuck, Entails
  <2> QED
    BY ONLY <1>1, <1>3, <2>2
<1> QED
  BY ONLY <1>10, <1>11, <1>12, <1>13
-----------------------------------------------------------------------------
(* The edges of the knowledge graph.                                       *)
Reaches(an, m, n) == \A k \in m + 1 .. n : an[k].at - an[m].at \in -5 .. 5
PairAt(an, m, n) == <<an[m].agent, an[n].agent, "anomaly_propagation">>
Paired(an, m, n) == m < n /\ Reaches(an, m, n) /\ an[m].agent # an[n].agent /\ an[m].zone = an[n].zone
PairsOf(an, m) == Joined([n \in DOMAIN an |-> Some(Paired(an, m, n), PairAt(an, m, n))])
Together(an, m, n) == m < n /\ an[n].at - an[m].at \in -5 .. 5 /\ an[m].agent # an[n].agent /\ an[m].zone = an[n].zone

LEMMA SomeIs ==
  ASSUME NEW c, c \in BOOLEAN, NEW x, NEW l, l = Some(c, x)
  PROVE  Proper(l) /\ \A k : k \in ToSet(l) <=> c /\ k = x
<1>1. CASE c
  <2>1. l = [k \in 1 .. 1 |-> l[k]] /\ l[1] = x
    BY <1>1 DEF Some
  <2>2. 1 \in Nat /\ 1 .. 1 = {1}
    OBVIOUS
  <2>3. Proper(l) /\ ToSet(l) = {l[k] : k \in 1 .. 1}
    BY ONLY <2>1, <2>2, ListIs
  <2> QED
    BY ONLY <1>1, <2>1, <2>2, <2>3
<1>2. CASE ~c
  <2>1. l = <<>>
    BY <1>2 DEF Some
  <2> QED
    BY <1>2, <2>1 DEF Proper, ToSet
<1> QED
  BY <1>1, <1>2

(* An anomaly that the search from another reaches is five seconds from it *)
(* at most; when they are in the order of their times those between them   *)
(* are no farther, and it reaches all such.                                *)
LEMMA ReachesIs ==
  ASSUME NEW an, NEW lasts, Events(an, lasts), NEW m, m \in 1 .. Len(an), NEW n, n \in 1 .. Len(an)
  PROVE  /\ Paired(an, m, n) => Together(an, m, n)
         /\ InOrder(an, lasts) /\ Together(an, m, n) => Paired(an, m, n)
<1>1. Len(an) \in Nat /\ \A k \in 1 .. Len(an) : an[k].at \in Int
  BY EventsAre
<1>2. ASSUME m < n, Reaches(an, m, n) PROVE an[n].at - an[m].at \in -5 .. 5
  <2>1. n \in m + 1 .. n
    BY ONLY <1>1, <1>2, m \in 1 .. Len(an), n \in 1 .. Len(an)
  <2> QED
    BY ONLY <1>2, <2>1 DEF Reaches
<1>3. ASSUME InOrder(an, lasts), m < n, an[n].at - an[m].at \in -5 .. 5 PROVE Reaches(an, m, n)
  <2>1. \A j, k \in 1 .. Len(an) : j < k => an[j].at <= an[k].at
    BY <1>3, OrderIs
  <2> SUFFICES ASSUME NEW k \in m + 1 .. n PROVE an[k].at - an[m].at \in -5 .. 5
    BY DEF Reaches
  <2>2. k \in 1 .. Len(an) /\ (k < n \/ k = n) /\ m < k
    BY ONLY <1>1, k \in m + 1 .. n, m \in 1 .. Len(an), n \in 1 .. Len(an)
  <2>3. an[k].at <= an[n].at /\ an[m].at <= an[k].at
    BY ONLY <1>1, <2>1, <2>2, m \in 1 .. Len(an), n \in 1 .. Len(an)
  <2>4. an[n].at \in Int /\ an[m].at \in Int /\ an[k].at \in Int
    BY <1>1, <2>2
  <2> QED
    BY ONLY <1>3, <2>3, <2>4
<1> QED
  BY ONLY <1>2, <1>3 DEF Paired, Together

LEMMA PairsOfAre ==
  ASSUME NEW an, NEW lasts, Events(an, lasts), NEW m, m \in 1 .. Len(an), NEW l, l = PairsOf(an, m)
  PROVE  Proper(l) /\ \A k : k \in ToSet(l) <=> \E n \in 1 .. Len(an) : Paired(an, m, n) /\ k = PairAt(an, m, n)
<1>1. PICK c : c = Len(an)
  OBVIOUS
<1>2. c \in Nat /\ DOMAIN an = 1 .. c
  BY ONLY <1>1, EventsAre, Events(an, lasts)
<1>3. PICK s : s = [n \in 1 .. c |-> Some(Paired(an, m, n), PairAt(an, m, n))]
  OBVIOUS
<1>4. l = Joined(s)
  BY ONLY <1>2, <1>3, l = PairsOf(an, m) DEF PairsOf
<1>5. ASSUME NEW n \in 1 .. c PROVE Proper(s[n]) /\ \A k : k \in ToSet(s[n]) <=> Paired(an, m, n) /\ k = PairAt(an, m, n)
  <2>1. PICK b \in BOOLEAN : b <=> Paired(an, m, n)
    OBVIOUS
  <2>2. s[n] = Some(b, PairAt(an, m, n))
    BY ONLY <1>3, <2>1, n \in 1 .. c DEF Some
  <2>3. Proper(s[n]) /\ \A k : k \in ToSet(s[n]) <=> b /\ k = PairAt(an, m, n)
    BY ONLY <2>2, SomeIs, b \in BOOLEAN
  <2> QED
    BY ONLY <2>1, <2>3
<1>6. DOMAIN s = 1 .. c
  BY ONLY <1>3
<1>7. Proper(l) /\ ToSet(l) = UNION {ToSet(s[n]) : n \in 1 .. c}
  BY ONLY <1>2, <1>4, <1>5, <1>6, JoinedIs
<1> QED
  BY ONLY <1>1, <1>5, <1>7

(* The pairs that the searches from all anomalies find.                    *)
LEMMA CoAnomaliesAre ==
  ASSUME NEW an, NEW lasts, Events(an, lasts), NEW l, l = CoAnomalies(an)
  PROVE  Proper(l) /\ \A k : k \in ToSet(l) <=> \E m, n \in 1 .. Len(an) : Paired(an, m, n) /\ k = PairAt(an, m, n)
<1>1. PICK c : c = Len(an)
  OBVIOUS
<1>2. c \in Nat /\ DOMAIN an = 1 .. c
  BY ONLY <1>1, EventsAre, Events(an, lasts)
<1>3. PICK s : s = [m \in 1 .. c |-> PairsOf(an, m)]
  OBVIOUS
<1>4. l = Joined(s)
  <2>1. l = Joined([m \in DOMAIN an |-> PairsOf(an, m)])
    BY ONLY l = CoAnomalies(an), Zenon DEF CoAnomalies, PairsOf, Paired, PairAt, Reaches
  <2> QED
    BY ONLY <1>2, <1>3, <2>1
<1>5. ASSUME NEW m \in 1 .. c
      PROVE  Proper(s[m]) /\ \A k : k \in ToSet(s[m]) <=> \E n \in 1 .. c : Paired(an, m, n) /\ k = PairAt(an, m, n)
  <2>1. s[m] = PairsOf(an, m) /\ m \in 1 .. Len(an)
    BY ONLY <1>1, <1>3, m \in 1 .. c
  <2> QED
    BY ONLY <1>1, <2>1, PairsOfAre, Events(an, lasts)
<1>6. DOMAIN s = 1 .. c
  BY ONLY <1>3
<1>7. Proper(l) /\ ToSet(l) = UNION {ToSet(s[m]) : m \in 1 .. c}
  BY ONLY <1>2, <1>4, <1>5, <1>6, JoinedIs
<1>8. \A k : k \in ToSet(l) <=> \E m \in 1 .. c : k \in ToSet(s[m])
  BY ONLY <1>7
<1>9. \A m \in 1 .. c : \A k : k \in ToSet(s[m]) <=> \E n \in 1 .. c : Paired(an, m, n) /\ k = PairAt(an, m, n)
  BY ONLY <1>5
<1>10. ASSUME NEW k
       PROVE  k \in ToSet(l) <=> \E m, n \in 1 .. c : Paired(an, m, n) /\ k = PairAt(an, m, n)
  <2>1. ASSUME k \in ToSet(l) PROVE \E m, n \in 1 .. c : Paired(an, m, n) /\ k = PairAt(an, m, n)
    <3>1. PICK m \in 1 .. c : k \in ToSet(s[m])
      BY ONLY <1>8, <2>1
    <3>2. PICK n \in 1 .. c : Paired(an, m, n) /\ k = PairAt(an, m, n)
      BY ONLY <1>9, <3>1, m \in 1 .. c
    <3> QED
      BY ONLY <3>2, m \in 1 .. c, n \in 1 .. c
  <2>2. ASSUME NEW m \in 1 .. c, NEW n \in 1 .. c, Paired(an, m, n), k = PairAt(an, m, n) PROVE k \in ToSet(l)
    <3>1. k \in ToSet(s[m])
      BY ONLY <1>9, <2>2, m \in 1 .. c, n \in 1 .. c
    <3> QED
      BY ONLY <1>8, <3>1, m \in 1 .. c
  <2> QED
    BY ONLY <2>1, <2>2
<1> QED
  BY ONLY <1>1, <1>7, <1>10

(* Anomalies that are together are so in the window.                       *)
StrickenAt(es, m, n, a, b) ==
  /\ m < n /\ es[m].agent = a /\ es[n].agent = b /\ a # b
  /\ es[m].type \in AnomalyTypes /\ es[n].type \in AnomalyTypes
  /\ es[m].zone = es[n].zone /\ es[n].at - es[m].at \in -5 .. 5

Met(an, a, b) == \E m, n \in 1 .. Len(an) : Paired(an, m, n) /\ an[m].agent = a /\ an[n].agent = b
Struck(es, a, b) == \E m, n \in 1 .. Len(es) : StrickenAt(es, m, n, a, b)

LEMMA TogetherIs ==
  ASSUME NEW es, NEW lasts, Events(es, lasts), NEW an, an = Typed(es, AnomalyTypes), NEW a, NEW b
  PROVE  /\ Met(an, a, b) => Struck(es, a, b)
         /\ InOrder(es, lasts) /\ Struck(es, a, b) => Met(an, a, b)
<1>1. Len(es) \in Nat /\ DOMAIN es = 1 .. Len(es)
  BY EventsAre
<1>2. PICK P \in SUBSET (1 .. Len(es)) : P = {n \in DOMAIN es : es[n].type \in AnomalyTypes}
  BY <1>1
<1>3. an = At(es, P)
  BY <1>2 DEF Typed
<1>4. PICK g : Taken(an, es, P, g)
  BY ONLY <1>1, <1>3, AtIs, P \in SUBSET (1 .. Len(es))
<1>5. PICK c : c = Len(an)
  OBVIOUS
<1>6. c \in Nat /\ Events(an, lasts) /\ (InOrder(es, lasts) => InOrder(an, lasts))
  BY ONLY <1>5, TypedIs, Events(es, lasts), an = Typed(es, AnomalyTypes)
<1>7. /\ \A k \in 1 .. c : g[k] \in P /\ an[k] = es[g[k]]
      /\ \A j, k \in 1 .. c : j < k => g[j] < g[k]
      /\ \A n \in P : \E k \in 1 .. c : g[k] = n
  BY ONLY <1>4, <1>5 DEF Taken, Rising
<1>8. \A n : n \in P <=> n \in 1 .. Len(es) /\ es[n].type \in AnomalyTypes
  BY ONLY <1>1, <1>2
<1>9. ASSUME NEW m \in 1 .. c, NEW n \in 1 .. c, Together(an, m, n), an[m].agent = a, an[n].agent = b
      PROVE  \E j, k \in 1 .. Len(es) : StrickenAt(es, j, k, a, b)
  <2>1. g[m] < g[n] /\ g[m] \in 1 .. Len(es) /\ g[n] \in 1 .. Len(es)
    BY ONLY <1>7, <1>8, <1>9 DEF Together
  <2>2. PICK j \in P, k \in P : j = g[m] /\ k = g[n] /\ an[m] = es[j] /\ an[n] = es[k]
    BY ONLY <1>7, m \in 1 .. c, n \in 1 .. c
  <2>3. StrickenAt(es, j, k, a, b)
    BY ONLY <1>8, <1>9, <2>1, <2>2, j \in P, k \in P DEF Together, StrickenAt
  <2> QED
    BY ONLY <2>1, <2>2, <2>3
<1>10. ASSUME NEW m \in 1 .. Len(es), NEW n \in 1 .. Len(es), StrickenAt(es, m, n, a, b)
       PROVE  \E j, k \in 1 .. c : Together(an, j, k) /\ an[j].agent = a /\ an[k].agent = b
  <2>1. PICK j \in 1 .. c, k \in 1 .. c : g[j] = m /\ g[k] = n
    BY ONLY <1>7, <1>8, <1>10 DEF StrickenAt
  <2>2. an[j] = es[m] /\ an[k] = es[n]
    BY ONLY <1>7, <2>1
  <2>3. j < k
    <3>1. m < n /\ m \in Int /\ n \in Int
      BY ONLY <1>1, <1>10 DEF StrickenAt
    <3>2. ~(k < j) /\ ~(k = j)
      BY ONLY <1>7, <2>1, <3>1
    <3> QED
      BY ONLY <1>6, <3>2, j \in 1 .. c, k \in 1 .. c
  <2>4. Together(an, j, k) /\ an[j].agent = a /\ an[k].agent = b
    BY ONLY <1>10, <2>2, <2>3 DEF Together, StrickenAt
  <2> QED
    BY ONLY <2>4, j \in 1 .. c, k \in 1 .. c
<1>11. ASSUME Met(an, a, b) PROVE Struck(es, a, b)
  <2>1. PICK m \in 1 .. c, n \in 1 .. c : Paired(an, m, n) /\ an[m].agent = a /\ an[n].agent = b
    BY ONLY <1>5, <1>11 DEF Met
  <2>2. Together(an, m, n)
    BY ONLY <1>5, <1>6, <2>1, ReachesIs, m \in 1 .. c, n \in 1 .. c
  <2> QED
    BY ONLY <1>9, <2>1, <2>2, m \in 1 .. c, n \in 1 .. c DEF Struck
<1>12. ASSUME InOrder(es, lasts), Struck(es, a, b) PROVE Met(an, a, b)
  <2>1. PICK m \in 1 .. Len(es), n \in 1 .. Len(es) : StrickenAt(es, m, n, a, b)
    BY ONLY <1>12 DEF Struck
  <2>2. PICK j \in 1 .. c, k \in 1 .. c : Together(an, j, k) /\ an[j].agent = a /\ an[k].agent = b
    BY ONLY <1>10, <2>1, m \in 1 .. Len(es), n \in 1 .. Len(es)
  <2>3. Paired(an, j, k)
    BY ONLY <1>5, <1>6, <1>12, <2>2, ReachesIs, j \in 1 .. c, k \in 1 .. c
  <2> QED
    BY ONLY <1>5, <2>2, <2>3, j \in 1 .. c, k \in 1 .. c DEF Met
<1> QED
  BY ONLY <1>11, <1>12

(* The lists of edges, kind by kind.                                       *)
ZonedOf(es) == At(es, {n \in DOMAIN es : es[n].zone # None})
KnownOf(es) == At(es, {n \in DOMAIN es : es[n].type \in HandoffTypes /\ es[n].target \in ToSet(Agents(es))})
RetryingOf(es) == At(Agents(es), {n \in DOMAIN Agents(es) : Count(OfAgent(es, Agents(es)[n]), RetryTypes) >= 2})

Collaborations(s) == [k \in DOMAIN s |-> <<s[k].agent, s[k].zone, "collaboration">>]
Dependencies(s) == [k \in DOMAIN s |-> <<s[k], "swarm", "dependency">>]
HandingOver(s) == [k \in DOMAIN s |-> <<s[k].agent, s[k].target, "handoff">>]
SelfRetries(s) == [k \in DOMAIN s |-> <<s[k], s[k], "retry">>]

\* Edges that join nodes of a set, and tell nothing of anomalies.
Joining(list, ids) ==
  /\ Proper(list)
  /\ \A k \in ToSet(list) : k[1] \in ids /\ k[2] \in ids
Ordinary(list) == \A k \in ToSet(list) : k[3] # "anomaly_propagation"

LEMMA EdgesOf ==
  ASSUME NEW n, n \in Nat, NEW l, DOMAIN l = 1 .. n, l = [k \in 1 .. n |-> l[k]], NEW ids,
         \A k \in 1 .. n : l[k][1] \in ids /\ l[k][2] \in ids /\ l[k][3] # "anomaly_propagation"
  PROVE  Joining(l, ids) /\ Ordinary(l)
<1>1. Proper(l) /\ ToSet(l) = {l[k] : k \in 1 .. n}
  BY ListIs
<1> QED
  BY <1>1 DEF Joining, Ordinary

LEMMA RowOfEdges ==
  ASSUME NEW ids, NEW s, Joining(s, ids), NEW t, Joining(t, ids), NEW r, r = s \o t
  PROVE  Joining(r, ids) /\ OfBoth(r, s, t)
<1>1. Proper(s) /\ Proper(t)
  BY ONLY Joining(s, ids), Joining(t, ids) DEF Joining
<1>2. Proper(r) /\ ToSet(r) = ToSet(s) \cup ToSet(t)
  BY ONLY <1>1, RowOfTwo, r = s \o t
<1> QED
  BY ONLY <1>2, Joining(s, ids), Joining(t, ids) DEF Joining, OfBoth

(* The edges are those of the five kinds.                                  *)
LEMMA EdgeListIs ==
  ASSUME NEW es, NEW l, l = EdgeList(es, "swarm")
  PROVE  l = Collaborations(ZonedOf(es)) \o Dependencies(Agents(es)) \o HandingOver(KnownOf(es))
               \o SelfRetries(RetryingOf(es)) \o CoAnomalies(Typed(es, AnomalyTypes))
BY Zenon DEF EdgeList, Each, ZonedOf, KnownOf, RetryingOf, Collaborations, Dependencies, HandingOver, SelfRetries

(* The nodes are the zones, the agents and the swarm.                      *)
LEMMA NodesAre ==
  ASSUME NEW es, NEW ids, ids = DOMAIN GraphNodes(es, "swarm")
  PROVE  ids = ToSet(Zones(es)) \cup ToSet(Agents(es)) \cup {"swarm"}
BY DEF GraphNodes

(* There is an edge for each in the list.                                  *)
LEMMA EdgesAre ==
  ASSUME NEW list
  PROVE  DOMAIN GraphEdges(list) = ToSet(list)
<1>1. PICK count : count = [k \in ToSet(list) |-> Cardinality({n \in DOMAIN list : list[n] = k})]
  OBVIOUS
<1>2. GraphEdges(list) = Weighed(count)
  BY <1>1 DEF GraphEdges
<1>3. DOMAIN Weighed(count) = DOMAIN count
  BY DEF Weighed
<1> QED
  BY <1>1, <1>2, <1>3

(* Edges join nodes, and agents are joined as stricken together only when  *)
(* they were, of events in the order of their times always when they were. *)
LEMMA LinksAre ==
  ASSUME NEW es, NEW lasts, Events(es, lasts), NEW list, list = EdgeList(es, "swarm"),
         NEW ids, ids = ToSet(Zones(es)) \cup ToSet(Agents(es)) \cup {"swarm"}
  PROVE  /\ \A k \in ToSet(list) : k[1] \in ids /\ k[2] \in ids
         /\ \A a, b : <<a, b, "anomaly_propagation">> \in ToSet(list) => Struck(es, a, b)
         /\ InOrder(es, lasts) => \A a, b : Struck(es, a, b) => <<a, b, "anomaly_propagation">> \in ToSet(list)
<1>1. /\ Len(es) \in Nat /\ DOMAIN es = 1 .. Len(es)
  BY ONLY EventsAre, Events(es, lasts)
<1>2. PICK ag, an : ag = Agents(es) /\ an = Typed(es, AnomalyTypes)
  OBVIOUS
<1>3. Events(an, lasts) /\ \A x : x \in ToSet(an) <=> \E n \in 1 .. Len(es) : es[n].type \in AnomalyTypes /\ x = es[n]
  BY ONLY <1>2, TypedIs, Events(es, lasts)
<1>4. /\ Proper(ag) /\ Len(ag) \in Nat /\ DOMAIN ag = 1 .. Len(ag)
      /\ ToSet(ag) = {es[n].agent : n \in 1 .. Len(es)}
  BY ONLY <1>2, AgentsAre, Events(es, lasts)
<1>5. \A n \in 1 .. Len(es) : es[n].agent \in ids
  BY ONLY <1>2, <1>4, ids = ToSet(Zones(es)) \cup ToSet(Agents(es)) \cup {"swarm"}
<1>6. \A n \in 1 .. Len(es) : es[n].zone # None => es[n].zone \in ids
  <2>1. PICK zs : zs = Zones(es)
    OBVIOUS
  <2>2. \A z : z \in ToSet(zs) <=> \E n \in 1 .. Len(es) : z = es[n].zone /\ z # None
    BY ONLY <2>1, ZonesAre, Events(es, lasts)
  <2> QED
    BY ONLY <2>1, <2>2, ids = ToSet(Zones(es)) \cup ToSet(Agents(es)) \cup {"swarm"}
<1>7. \A a \in ToSet(ag) : a \in ids
  BY ONLY <1>2, ids = ToSet(Zones(es)) \cup ToSet(Agents(es)) \cup {"swarm"}
<1>8. PICK z, kn, re : z = ZonedOf(es) /\ kn = KnownOf(es) /\ re = RetryingOf(es)
  OBVIOUS
<1>9. Len(z) \in Nat /\ DOMAIN z = 1 .. Len(z) /\ \A k \in 1 .. Len(z) : z[k].agent \in ids /\ z[k].zone \in ids
  <2>1. PICK P \in SUBSET (1 .. Len(es)) : P = {n \in DOMAIN es : es[n].zone # None}
    BY ONLY <1>1
  <2>2. z = At(es, P)
    BY ONLY <1>8, <2>1 DEF ZonedOf
  <2>3. Proper(z) /\ ToSet(z) = {es[p] : p \in P}
    BY ONLY <1>1, <2>2, AtIs, P \in SUBSET (1 .. Len(es))
  <2>4. Len(z) \in Nat /\ DOMAIN z = 1 .. Len(z) /\ \A k \in 1 .. Len(z) : z[k] \in ToSet(z)
    BY ONLY <2>3, ProperIs DEF ToSet
  <2>5. \A p \in P : es[p].agent \in ids /\ es[p].zone \in ids
    BY ONLY <1>5, <1>6, <2>1
  <2> QED
    BY ONLY <2>3, <2>4, <2>5
<1>10. Len(kn) \in Nat /\ DOMAIN kn = 1 .. Len(kn) /\ \A k \in 1 .. Len(kn) : kn[k].agent \in ids /\ kn[k].target \in ids
  <2>1. PICK P \in SUBSET (1 .. Len(es)) : P = {n \in DOMAIN es : es[n].type \in HandoffTypes /\ es[n].target \in ToSet(ag)}
    BY ONLY <1>1
  <2>2. kn = At(es, P)
    BY ONLY <1>2, <1>8, <2>1 DEF KnownOf
  <2>3. Proper(kn) /\ ToSet(kn) = {es[p] : p \in P}
    BY ONLY <1>1, <2>2, AtIs, P \in SUBSET (1 .. Len(es))
  <2>4. Len(kn) \in Nat /\ DOMAIN kn = 1 .. Len(kn) /\ \A k \in 1 .. Len(kn) : kn[k] \in ToSet(kn)
    BY ONLY <2>3, ProperIs DEF ToSet
  <2>5. \A p \in P : es[p].agent \in ids /\ es[p].target \in ids
    BY ONLY <1>5, <1>7, <2>1
  <2> QED
    BY ONLY <2>3, <2>4, <2>5
<1>11. Len(re) \in Nat /\ DOMAIN re = 1 .. Len(re) /\ \A k \in 1 .. Len(re) : re[k] \in ids
  <2>1. PICK P \in SUBSET (1 .. Len(ag)) : P = {n \in DOMAIN ag : Count(OfAgent(es, ag[n]), RetryTypes) >= 2}
    BY ONLY <1>4
  <2>2. re = At(ag, P)
    BY ONLY <1>2, <1>8, <2>1 DEF RetryingOf
  <2>3. Proper(re) /\ ToSet(re) = {ag[p] : p \in P}
    <3>1. Len(ag) \in Nat
      BY ONLY <1>4
    <3> QED
      BY ONLY <2>2, <3>1, AtIs, P \in SUBSET (1 .. Len(ag))
  <2>4. Len(re) \in Nat /\ DOMAIN re = 1 .. Len(re) /\ \A k \in 1 .. Len(re) : re[k] \in ToSet(re)
    BY ONLY <2>3, ProperIs DEF ToSet
  <2>5. \A p \in P : ag[p] \in ToSet(ag)
    BY ONLY <1>4, <2>1 DEF ToSet
  <2> QED
    BY ONLY <1>7, <2>3, <2>4, <2>5
<1>12. PICK l1, l2, l3, l4, l5 :
         /\ l1 = Collaborations(z) /\ l2 = Dependencies(ag) /\ l3 = HandingOver(kn) /\ l4 = SelfRetries(re)
         /\ l5 = CoAnomalies(an)
  OBVIOUS
<1>13. Joining(l1, ids) /\ Ordinary(l1)
  <2>1. l1 = [k \in 1 .. Len(z) |-> <<z[k].agent, z[k].zone, "collaboration">>]
    BY ONLY <1>9, <1>12 DEF Collaborations
  <2>2. DOMAIN l1 = 1 .. Len(z) /\ l1 = [k \in 1 .. Len(z) |-> l1[k]]
    BY ONLY <2>1
  <2>3. \A k \in 1 .. Len(z) : l1[k][1] \in ids /\ l1[k][2] \in ids /\ l1[k][3] # "anomaly_propagation"
    BY ONLY <1>9, <2>1
  <2> QED
    BY ONLY <1>9, <2>2, <2>3, EdgesOf
<1>14. Joining(l2, ids) /\ Ordinary(l2)
  <2>1. l2 = [k \in 1 .. Len(ag) |-> <<ag[k], "swarm", "dependency">>]
    BY ONLY <1>4, <1>12 DEF Dependencies
  <2>2. DOMAIN l2 = 1 .. Len(ag) /\ l2 = [k \in 1 .. Len(ag) |-> l2[k]]
    BY ONLY <2>1
  <2>3. \A k \in 1 .. Len(ag) : ag[k] \in ids
    BY ONLY <1>4, <1>7 DEF ToSet
  <2>4. \A k \in 1 .. Len(ag) : l2[k][1] \in ids /\ l2[k][2] \in ids /\ l2[k][3] # "anomaly_propagation"
    BY ONLY <2>1, <2>3, ids = ToSet(Zones(es)) \cup ToSet(Agents(es)) \cup {"swarm"}
  <2> QED
    BY ONLY <1>4, <2>2, <2>4, EdgesOf
<1>15. Joining(l3, ids) /\ Ordinary(l3)
  <2>1. l3 = [k \in 1 .. Len(kn) |-> <<kn[k].agent, kn[k].target, "handoff">>]
    BY ONLY <1>10, <1>12 DEF HandingOver
  <2>2. DOMAIN l3 = 1 .. Len(kn) /\ l3 = [k \in 1 .. Len(kn) |-> l3[k]]
    BY ONLY <2>1
  <2>3. \A k \in 1 .. Len(kn) : l3[k][1] \in ids /\ l3[k][2] \in ids /\ l3[k][3] # "anomaly_propagation"
    BY ONLY <1>10, <2>1
  <2> QED
    BY ONLY <1>10, <2>2, <2>3, EdgesOf
<1>16. Joining(l4, ids) /\ Ordinary(l4)
  <2>1. l4 = [k \in 1 .. Len(re) |-> <<re[k], re[k], "retry">>]
    BY ONLY <1>11, <1>12 DEF SelfRetries
  <2>2. DOMAIN l4 = 1 .. Len(re) /\ l4 = [k \in 1 .. Len(re) |-> l4[k]]
    BY ONLY <2>1
  <2>3. \A k \in 1 .. Len(re) : l4[k][1] \in ids /\ l4[k][2] \in ids /\ l4[k][3] # "anomaly_propagation"
    BY ONLY <1>11, <2>1
  <2> QED
    BY ONLY <1>11, <2>2, <2>3, EdgesOf
<1>17. Proper(l5) /\ \A k : k \in ToSet(l5) <=> \E m, n \in 1 .. Len(an) : Paired(an, m, n) /\ k = PairAt(an, m, n)
  BY ONLY <1>3, <1>12, CoAnomaliesAre
<1>18. Joining(l5, ids)
  <2>1. DOMAIN an = 1 .. Len(an)
    BY ONLY <1>3, EventsAre
  <2>2. \A k \in 1 .. Len(an) : an[k].agent \in ids
    <3>1. \A k \in 1 .. Len(an) : an[k] \in ToSet(an)
      BY ONLY <2>1 DEF ToSet
    <3> QED
      BY ONLY <1>3, <1>5, <3>1
  <2> QED
    BY ONLY <1>17, <2>2 DEF Joining, PairAt
<1>19. \A a, b : /\ <<a, b, "anomaly_propagation">> \in ToSet(l5) => Struck(es, a, b)
                 /\ InOrder(es, lasts) /\ Struck(es, a, b) => <<a, b, "anomaly_propagation">> \in ToSet(l5)
  <2> SUFFICES ASSUME NEW a, NEW b
               PROVE  /\ <<a, b, "anomaly_propagation">> \in ToSet(l5) => Struck(es, a, b)
                      /\ InOrder(es, lasts) /\ Struck(es, a, b) => <<a, b, "anomaly_propagation">> \in ToSet(l5)
    OBVIOUS
  <2>1. <<a, b, "anomaly_propagation">> \in ToSet(l5)
          <=> \E m, n \in 1 .. Len(an) : Paired(an, m, n) /\ an[m].agent = a /\ an[n].agent = b
    BY ONLY <1>17 DEF PairAt
  <2>2. an = Typed(es, AnomalyTypes)
    BY ONLY <1>2
  <2>3. /\ Met(an, a, b) => Struck(es, a, b)
        /\ InOrder(es, lasts) /\ Struck(es, a, b) => Met(an, a, b)
    BY ONLY <2>2, TogetherIs, Events(es, lasts)
  <2> QED
    BY ONLY <2>1, <2>3 DEF Met
<1>20. PICK m2 : m2 = l1 \o l2
  OBVIOUS
<1>21. PICK m3 : m3 = m2 \o l3
  OBVIOUS
<1>22. PICK m4 : m4 = m3 \o l4
  OBVIOUS
<1>23. list = m4 \o l5
  BY ONLY <1>2, <1>8, <1>12, <1>20, <1>21, <1>22, EdgeListIs, list = EdgeList(es, "swarm")
<1>24. Joining(m2, ids) /\ OfBoth(m2, l1, l2)
  BY ONLY <1>13, <1>14, <1>20, RowOfEdges
<1>25. Joining(m3, ids) /\ OfBoth(m3, m2, l3)
  BY ONLY <1>15, <1>21, <1>24, RowOfEdges
<1>26. Joining(m4, ids) /\ OfBoth(m4, m3, l4)
  BY ONLY <1>16, <1>22, <1>25, RowOfEdges
<1>27. Joining(list, ids) /\ OfBoth(list, m4, l5)
  BY ONLY <1>18, <1>23, <1>26, RowOfEdges
<1>28. \A a, b : <<a, b, "anomaly_propagation">> \in ToSet(list) <=> <<a, b, "anomaly_propagation">> \in ToSet(l5)
  <2>1. \A k : k \in ToSet(m4) => k[3] # "anomaly_propagation"
    BY ONLY <1>13, <1>14, <1>15, <1>16, <1>24, <1>25, <1>26 DEF Ordinary, OfBoth
  <2>2. \A a, b : <<a, b, "anomaly_propagation">>[3] = "anomaly_propagation"
    OBVIOUS
  <2>3. \A a, b : <<a, b, "anomaly_propagation">> \notin ToSet(m4)
    BY ONLY <2>1, <2>2
  <2> QED
    BY ONLY <1>27, <2>3 DEF OfBoth
<1>29. \A k \in ToSet(list) : k[1] \in ids /\ k[2] \in ids
  BY ONLY <1>27 DEF Joining
<1> QED
  BY ONLY <1>19, <1>28, <1>29

-----------------------------------------------------------------------------
(* Some of the events, by their places among all of them.                  *)
Follows(t, es, Q, g) ==
  /\ \A k \in 1 .. Len(t) : g[k] \in Q /\ t[k] = es[g[k]]
  /\ \A j, k \in 1 .. Len(t) : j < k => g[j] < g[k]
  /\ \A q \in Q : \E k \in 1 .. Len(t) : g[k] = q
Drawn(t, es, Q) == Proper(t) /\ Q \in SUBSET (1 .. Len(es)) /\ \E g : Follows(t, es, Q, g)

PlacesOf(es, a) == {n \in 1 .. Len(es) : es[n].agent = a}
RetriesOf(es) == {n \in 1 .. Len(es) : es[n].type \in RetryTypes}
ThreeIn(es, Q) == \E i, j, k \in Q : i < j /\ j < k /\ es[k].at <= es[i].at + 5
SinceIn(es, Q, m, n) == \E k \in Q : m < k /\ k < n /\ es[k].type \in StepTypes
BeginsIn(es, Q, n) ==
  es[n].type \in RetryTypes /\ \A m \in Q : m < n /\ es[m].type \in RetryTypes => SinceIn(es, Q, m, n)
FlipsIn(es, Q) == {n \in Q : BeginsIn(es, Q, n)}

Ordered(t, es, Q, g) ==
  /\ \A k \in 1 .. Len(t) : g[k] \in Q /\ t[k] = es[g[k]] /\ g[k] \in Int
  /\ \A j, k \in 1 .. Len(t) : j < k <=> g[j] < g[k]
  /\ \A j, k \in 1 .. Len(t) : g[j] = g[k] => j = k
  /\ \A q \in Q : \E k \in 1 .. Len(t) : g[k] = q
Matches(T, U, t, es, Q, g) ==
  /\ Len(t) \in Nat /\ Ordered(t, es, Q, g) /\ T \subseteq 1 .. Len(t) /\ U \subseteq Q
  /\ \A k \in 1 .. Len(t) : k \in T <=> g[k] \in U

(* Events drawn from others keep their order, both ways.                   *)
LEMMA InOrderOf ==
  ASSUME NEW n, n \in Nat, NEW Q, Q \in SUBSET (1 .. n), NEW t, Len(t) \in Nat, NEW es, NEW g, Follows(t, es, Q, g)
  PROVE  Ordered(t, es, Q, g)
<1>1. \A k \in 1 .. Len(t) : g[k] \in Q /\ t[k] = es[g[k]] /\ g[k] \in Int
  BY ONLY n \in Nat, Q \in SUBSET (1 .. n), Follows(t, es, Q, g) DEF Follows
<1>2. \A j, k \in 1 .. Len(t) : j < k => g[j] < g[k]
  BY ONLY Follows(t, es, Q, g) DEF Follows
<1>3. \A j, k \in 1 .. Len(t) : ~(j < k) => ~(g[j] < g[k])
  <2> SUFFICES ASSUME NEW j \in 1 .. Len(t), NEW k \in 1 .. Len(t), ~(j < k) PROVE ~(g[j] < g[k])
    OBVIOUS
  <2>1. j = k \/ k < j
    BY ONLY ~(j < k), Len(t) \in Nat, j \in 1 .. Len(t), k \in 1 .. Len(t)
  <2>2. CASE j = k
    BY ONLY <1>1, <2>2, j \in 1 .. Len(t)
  <2>3. CASE k < j
    BY ONLY <1>1, <1>2, <2>3, j \in 1 .. Len(t), k \in 1 .. Len(t)
  <2> QED
    BY ONLY <2>1, <2>2, <2>3
<1>4. \A j, k \in 1 .. Len(t) : g[j] = g[k] => j = k
  <2> SUFFICES ASSUME NEW j \in 1 .. Len(t), NEW k \in 1 .. Len(t), g[j] = g[k] PROVE j = k
    OBVIOUS
  <2>1. ~(j < k) /\ ~(k < j)
    BY ONLY <1>1, <1>2, g[j] = g[k], j \in 1 .. Len(t), k \in 1 .. Len(t)
  <2> QED
    BY ONLY <2>1, Len(t) \in Nat, j \in 1 .. Len(t), k \in 1 .. Len(t)
<1>5. \A q \in Q : \E k \in 1 .. Len(t) : g[k] = q
  BY ONLY Follows(t, es, Q, g) DEF Follows
<1> QED
  BY ONLY <1>1, <1>2, <1>3, <1>4, <1>5 DEF Ordered

(* As many of the drawn events are of a sort as of the places they are     *)
(* drawn from.                                                             *)
LEMMA SameNumber ==
  ASSUME NEW T, NEW U, NEW t, NEW es, NEW Q, NEW g, Matches(T, U, t, es, Q, g)
  PROVE  Cardinality(T) = Cardinality(U)
<1>1. /\ \A j, k \in 1 .. Len(t) : g[j] = g[k] => j = k
      /\ \A q \in Q : \E k \in 1 .. Len(t) : g[k] = q
  BY ONLY Matches(T, U, t, es, Q, g) DEF Matches, Ordered
<1>2. PICK f : f = [k \in T |-> g[k]]
  OBVIOUS
<1>3. /\ Len(t) \in Nat /\ T \in SUBSET (1 .. Len(t)) /\ U \in SUBSET Q
      /\ \A k \in 1 .. Len(t) : k \in T <=> g[k] \in U
  BY ONLY Matches(T, U, t, es, Q, g) DEF Matches
<1>4. f \in [T -> U] /\ \A k \in T : f[k] = g[k]
  BY ONLY <1>2, <1>3
<1>5. \A u \in U : \E k \in T : f[k] = u
  BY ONLY <1>1, <1>4, <1>3
<1>6. \A j, k \in T : f[j] = f[k] => j = k
  BY ONLY <1>1, <1>4, <1>3
<1>7. f \in Surjection(T, U) /\ f \in Injection(T, U)
  BY ONLY <1>4, <1>5, <1>6 DEF Surjection, Injection, IsInjective
<1>8. IsFiniteSet(T)
  BY ONLY <1>3, CountPlaces
<1> QED
  BY ONLY <1>7, <1>8, FS_Surjection

LEMMA DrawnAll ==
  ASSUME NEW es, Proper(es)
  PROVE  Drawn(es, es, 1 .. Len(es))
<1>1. PICK g : g = [k \in 1 .. Len(es) |-> k]
  OBVIOUS
<1>2. Follows(es, es, 1 .. Len(es), g)
  BY <1>1 DEF Follows
<1> QED
  BY <1>2 DEF Drawn

(* What is drawn from drawn events is drawn from the first ones.           *)
LEMMA DrawnAgain ==
  ASSUME NEW s, NEW es, NEW P, Drawn(s, es, P), Len(es) \in Nat, NEW h, Follows(s, es, P, h), NEW D,
         NEW K, K \in SUBSET (1 .. Len(s)), \A k \in 1 .. Len(s) : k \in K <=> h[k] \in D, NEW t, t = At(s, K)
  PROVE  Drawn(t, es, P \cap D)
<1>1. Len(s) \in Nat /\ P \in SUBSET (1 .. Len(es))
  BY ONLY Drawn(s, es, P), ProperIs DEF Drawn
<1>2. Proper(t)
  BY ONLY <1>1, AtIs, K \in SUBSET (1 .. Len(s)), t = At(s, K)
<1>3. PICK g : Taken(t, s, K, g)
  BY ONLY <1>1, AtIs, K \in SUBSET (1 .. Len(s)), t = At(s, K)
<1>4. PICK c, d : c = Len(t) /\ d = Len(s)
  OBVIOUS
<1>5. /\ \A k \in 1 .. c : g[k] \in K /\ t[k] = s[g[k]]
      /\ \A j, k \in 1 .. c : j < k => g[j] < g[k]
      /\ \A m \in K : \E k \in 1 .. c : g[k] = m
  BY ONLY <1>3, <1>4 DEF Taken, Rising
<1>6. /\ \A k \in 1 .. d : h[k] \in P /\ s[k] = es[h[k]]
      /\ \A j, k \in 1 .. d : j < k => h[j] < h[k]
      /\ \A p \in P : \E k \in 1 .. d : h[k] = p
  BY ONLY <1>4, Follows(s, es, P, h) DEF Follows
<1>7. \A m : m \in K <=> m \in 1 .. d /\ h[m] \in D
  BY ONLY <1>4, K \in SUBSET (1 .. Len(s)), \A k \in 1 .. Len(s) : k \in K <=> h[k] \in D
<1>8. PICK f : f = [k \in 1 .. c |-> h[g[k]]]
  OBVIOUS
<1>9. \A k \in 1 .. c : f[k] \in P \cap D /\ t[k] = es[f[k]]
  BY ONLY <1>5, <1>6, <1>7, <1>8
<1>10. \A j, k \in 1 .. c : j < k => f[j] < f[k]
  BY ONLY <1>5, <1>6, <1>7, <1>8
<1>11. ASSUME NEW q \in P \cap D PROVE \E k \in 1 .. c : f[k] = q
  <2>1. PICK m \in 1 .. d : h[m] = q
    BY ONLY <1>6, q \in P \cap D
  <2>2. m \in K
    BY ONLY <1>7, <2>1, q \in P \cap D, m \in 1 .. d
  <2>3. PICK k \in 1 .. c : g[k] = m
    BY ONLY <1>5, <2>2
  <2> QED
    BY ONLY <1>8, <2>1, <2>3, k \in 1 .. c
<1>12. Follows(t, es, P \cap D, f)
  BY ONLY <1>4, <1>9, <1>10, <1>11 DEF Follows
<1>13. P \cap D \in SUBSET (1 .. Len(es))
  BY ONLY <1>1
<1> QED
  BY ONLY <1>2, <1>12, <1>13 DEF Drawn

LEMMA DrawnOfAgent ==
  ASSUME NEW s, NEW es, NEW P, Drawn(s, es, P), Len(es) \in Nat, NEW a, NEW t, t = OfAgent(s, a)
  PROVE  Drawn(t, es, P \cap PlacesOf(es, a))
<1>1. Len(s) \in Nat /\ DOMAIN s = 1 .. Len(s) /\ P \in SUBSET (1 .. Len(es))
  BY ONLY Drawn(s, es, P), ProperIs DEF Drawn
<1>2. PICK h : Follows(s, es, P, h)
  BY ONLY Drawn(s, es, P) DEF Drawn
<1>3. PICK K \in SUBSET (1 .. Len(s)) : K = {k \in DOMAIN s : s[k].agent = a}
  BY ONLY <1>1
<1>4. t = At(s, K)
  BY ONLY <1>3, t = OfAgent(s, a) DEF OfAgent
<1>5. \A k \in 1 .. Len(s) : k \in K <=> h[k] \in PlacesOf(es, a)
  BY ONLY <1>1, <1>2, <1>3 DEF Follows, PlacesOf
<1> QED
  BY ONLY <1>2, <1>4, <1>5, DrawnAgain, K \in SUBSET (1 .. Len(s)), Drawn(s, es, P), Len(es) \in Nat

LEMMA DrawnRetries ==
  ASSUME NEW s, NEW es, NEW P, Drawn(s, es, P), Len(es) \in Nat, NEW t, t = Typed(s, RetryTypes)
  PROVE  Drawn(t, es, P \cap RetriesOf(es))
<1>1. Len(s) \in Nat /\ DOMAIN s = 1 .. Len(s) /\ P \in SUBSET (1 .. Len(es))
  BY ONLY Drawn(s, es, P), ProperIs DEF Drawn
<1>2. PICK h : Follows(s, es, P, h)
  BY ONLY Drawn(s, es, P) DEF Drawn
<1>3. PICK K \in SUBSET (1 .. Len(s)) : K = {k \in DOMAIN s : s[k].type \in RetryTypes}
  BY ONLY <1>1
<1>4. t = At(s, K)
  BY ONLY <1>3, t = Typed(s, RetryTypes) DEF Typed
<1>5. \A k \in 1 .. Len(s) : k \in K <=> h[k] \in RetriesOf(es)
  BY ONLY <1>1, <1>2, <1>3 DEF Follows, RetriesOf
<1> QED
  BY ONLY <1>2, <1>4, <1>5, DrawnAgain, K \in SUBSET (1 .. Len(s)), Drawn(s, es, P), Len(es) \in Nat

LEMMA DrawnLength ==
  ASSUME NEW t, NEW es, NEW Q, Drawn(t, es, Q), Len(es) \in Nat
  PROVE  Len(t) = Cardinality(Q) /\ Count(t, RetryTypes) = Cardinality(Q \cap RetriesOf(es))
<1>1. Len(t) \in Nat /\ DOMAIN t = 1 .. Len(t) /\ Q \in SUBSET (1 .. Len(es))
  BY ONLY Drawn(t, es, Q), ProperIs DEF Drawn
<1>2. PICK g : Follows(t, es, Q, g)
  BY ONLY Drawn(t, es, Q) DEF Drawn
<1>3. Ordered(t, es, Q, g) /\ Len(t) \in Nat
  BY ONLY <1>1, <1>2, InOrderOf, Len(es) \in Nat
<1>4. PICK T \in SUBSET (1 .. Len(t)) : T = {k \in DOMAIN t : t[k].type \in RetryTypes}
  BY ONLY <1>1
<1>5. PICK U \in SUBSET Q : U = Q \cap RetriesOf(es)
  OBVIOUS
<1>6. Matches(T, U, t, es, Q, g)
  BY ONLY <1>1, <1>2, <1>4, <1>5, <1>3 DEF Follows, RetriesOf, Matches
<1>7. Cardinality(T) = Cardinality(U)
  BY ONLY <1>6, SameNumber
<1>8. PICK all, most : all = 1 .. Len(t) /\ most = Q
  OBVIOUS
<1>9. Matches(all, most, t, es, Q, g)
  BY ONLY <1>2, <1>8, <1>3 DEF Follows, Matches
<1>10. Cardinality(all) = Cardinality(most)
  BY ONLY <1>9, SameNumber
<1>11. Cardinality(all) = Len(t)
  <2>1. Cardinality(1 .. Len(t)) = IF 1 > Len(t) THEN 0 ELSE Len(t) - 1 + 1
    <3>1. 1 \in Int /\ Len(t) \in Int
      BY ONLY <1>1
    <3> QED
      BY ONLY <3>1, FS_Interval
  <2> QED
    BY ONLY <1>1, <1>8, <2>1
<1>12. Count(t, RetryTypes) = Cardinality(T)
  BY ONLY <1>4 DEF Count
<1> QED
  BY ONLY <1>5, <1>7, <1>8, <1>10, <1>11, <1>12

(* A loop among drawn events is one among their places.                    *)
LEMMA DrawnTriple ==
  ASSUME NEW t, NEW es, NEW Q, Drawn(t, es, Q), Len(es) \in Nat
  PROVE  Triple(t) <=> ThreeIn(es, Q)
<1>1. Len(t) \in Nat /\ DOMAIN t = 1 .. Len(t) /\ Q \in SUBSET (1 .. Len(es))
  BY ONLY Drawn(t, es, Q), ProperIs DEF Drawn
<1>2. PICK g : Follows(t, es, Q, g)
  BY ONLY Drawn(t, es, Q) DEF Drawn
<1>3. /\ \A k \in 1 .. Len(t) : g[k] \in Q /\ t[k] = es[g[k]] /\ g[k] \in Int
      /\ \A j, k \in 1 .. Len(t) : j < k <=> g[j] < g[k]
      /\ \A q \in Q : \E k \in 1 .. Len(t) : g[k] = q
  <2>1. Ordered(t, es, Q, g)
    BY ONLY <1>1, <1>2, InOrderOf, Len(es) \in Nat
  <2> QED
    BY ONLY <2>1 DEF Ordered
<1>4. ASSUME Triple(t) PROVE ThreeIn(es, Q)
  <2>1. PICK i \in 1 .. Len(t), j \in 1 .. Len(t), k \in 1 .. Len(t) : i < j /\ j < k /\ t[k].at <= t[i].at + 5
    BY ONLY <1>4 DEF Triple
  <2>2. g[i] \in Q /\ g[j] \in Q /\ g[k] \in Q /\ g[i] < g[j] /\ g[j] < g[k] /\ es[g[k]].at <= es[g[i]].at + 5
    BY ONLY <1>3, <2>1, i \in 1 .. Len(t), j \in 1 .. Len(t), k \in 1 .. Len(t)
  <2> QED
    BY ONLY <2>2 DEF ThreeIn
<1>5. ASSUME ThreeIn(es, Q) PROVE Triple(t)
  <2>1. PICK x \in Q, y \in Q, z \in Q : x < y /\ y < z /\ es[z].at <= es[x].at + 5
    BY ONLY <1>5 DEF ThreeIn
  <2>2. PICK i \in 1 .. Len(t), j \in 1 .. Len(t), k \in 1 .. Len(t) : g[i] = x /\ g[j] = y /\ g[k] = z
    BY ONLY <1>3, x \in Q, y \in Q, z \in Q
  <2>3. i < j /\ j < k /\ t[k].at <= t[i].at + 5
    BY ONLY <1>3, <2>1, <2>2, i \in 1 .. Len(t), j \in 1 .. Len(t), k \in 1 .. Len(t)
  <2> QED
    BY ONLY <2>3, i \in 1 .. Len(t), j \in 1 .. Len(t), k \in 1 .. Len(t) DEF Triple
<1> QED
  BY ONLY <1>4, <1>5

Since(t, m, n) == \E k \in m + 1 .. n - 1 : t[k].type \in StepTypes
Begins(t, n) == t[n].type \in RetryTypes /\ \A m \in 1 .. n - 1 : t[m].type \in RetryTypes => Since(t, m, n)

LEMMA DrawnSince ==
  ASSUME NEW t, NEW es, NEW Q, NEW g, Ordered(t, es, Q, g), Len(t) \in Nat,
         NEW m, m \in 1 .. Len(t), NEW n, n \in 1 .. Len(t)
  PROVE  Since(t, m, n) <=> SinceIn(es, Q, g[m], g[n])
<1>1. /\ \A k \in 1 .. Len(t) : g[k] \in Q /\ t[k] = es[g[k]]
      /\ \A j, k \in 1 .. Len(t) : j < k <=> g[j] < g[k]
      /\ \A q \in Q : \E k \in 1 .. Len(t) : g[k] = q
  BY ONLY Ordered(t, es, Q, g) DEF Ordered
<1>2. ASSUME Since(t, m, n) PROVE SinceIn(es, Q, g[m], g[n])
  <2>1. PICK k \in m + 1 .. n - 1 : t[k].type \in StepTypes
    BY ONLY <1>2 DEF Since
  <2>2. k \in 1 .. Len(t) /\ m < k /\ k < n
    BY ONLY Len(t) \in Nat, m \in 1 .. Len(t), n \in 1 .. Len(t), k \in m + 1 .. n - 1
  <2>3. g[k] \in Q /\ g[m] < g[k] /\ g[k] < g[n] /\ es[g[k]].type \in StepTypes
    BY ONLY <1>1, <2>1, <2>2, m \in 1 .. Len(t), n \in 1 .. Len(t)
  <2> QED
    BY ONLY <2>3 DEF SinceIn
<1>3. ASSUME SinceIn(es, Q, g[m], g[n]) PROVE Since(t, m, n)
  <2>1. PICK q \in Q : g[m] < q /\ q < g[n] /\ es[q].type \in StepTypes
    BY ONLY <1>3 DEF SinceIn
  <2>2. PICK k \in 1 .. Len(t) : g[k] = q
    BY ONLY <1>1, q \in Q
  <2>3. m < k /\ k < n /\ t[k].type \in StepTypes
    BY ONLY <1>1, <2>1, <2>2, k \in 1 .. Len(t), m \in 1 .. Len(t), n \in 1 .. Len(t)
  <2>4. k \in m + 1 .. n - 1
    BY ONLY <2>3, Len(t) \in Nat, k \in 1 .. Len(t), m \in 1 .. Len(t), n \in 1 .. Len(t)
  <2> QED
    BY ONLY <2>3, <2>4 DEF Since
<1> QED
  BY ONLY <1>2, <1>3

LEMMA DrawnBegins ==
  ASSUME NEW t, NEW es, NEW Q, NEW g, Ordered(t, es, Q, g), Len(t) \in Nat, NEW n, n \in 1 .. Len(t)
  PROVE  Begins(t, n) <=> BeginsIn(es, Q, g[n])
<1>1. /\ \A k \in 1 .. Len(t) : g[k] \in Q /\ t[k] = es[g[k]]
      /\ \A j, k \in 1 .. Len(t) : j < k <=> g[j] < g[k]
      /\ \A q \in Q : \E k \in 1 .. Len(t) : g[k] = q
  BY ONLY Ordered(t, es, Q, g) DEF Ordered
<1>2. \A m \in 1 .. Len(t) : Since(t, m, n) <=> SinceIn(es, Q, g[m], g[n])
  BY ONLY DrawnSince, Ordered(t, es, Q, g), Len(t) \in Nat, n \in 1 .. Len(t)
<1>3. \A m : m \in 1 .. n - 1 <=> m \in 1 .. Len(t) /\ m < n
  BY ONLY Len(t) \in Nat, n \in 1 .. Len(t)
<1>4. ASSUME Begins(t, n), NEW q \in Q, q < g[n], es[q].type \in RetryTypes PROVE SinceIn(es, Q, q, g[n])
  <2>1. PICK m \in 1 .. Len(t) : g[m] = q
    BY ONLY <1>1, q \in Q
  <2>2. m < n /\ t[m].type \in RetryTypes
    BY ONLY <1>1, <1>4, <2>1, m \in 1 .. Len(t), n \in 1 .. Len(t)
  <2>3. Since(t, m, n)
    BY ONLY <1>3, <1>4, <2>2, m \in 1 .. Len(t) DEF Begins
  <2> QED
    BY ONLY <1>2, <2>1, <2>3, m \in 1 .. Len(t)
<1>5. ASSUME BeginsIn(es, Q, g[n]), NEW m \in 1 .. n - 1, t[m].type \in RetryTypes PROVE Since(t, m, n)
  <2>1. m \in 1 .. Len(t) /\ m < n
    BY ONLY <1>3, m \in 1 .. n - 1
  <2>2. g[m] \in Q /\ g[m] < g[n] /\ es[g[m]].type \in RetryTypes
    BY ONLY <1>1, <1>5, <2>1, n \in 1 .. Len(t)
  <2>3. SinceIn(es, Q, g[m], g[n])
    BY ONLY <1>5, <2>2 DEF BeginsIn
  <2> QED
    BY ONLY <1>2, <2>1, <2>3
<1>6. t[n].type \in RetryTypes <=> es[g[n]].type \in RetryTypes
  BY ONLY <1>1, n \in 1 .. Len(t)
<1>7. ASSUME Begins(t, n) PROVE BeginsIn(es, Q, g[n])
  BY ONLY <1>4, <1>6, <1>7 DEF Begins, BeginsIn
<1>8. ASSUME BeginsIn(es, Q, g[n]) PROVE Begins(t, n)
  BY ONLY <1>5, <1>6, <1>8 DEF Begins, BeginsIn
<1> QED
  BY ONLY <1>7, <1>8

(* An agent flips as often as there are places at which a streak of        *)
(* retries begins.                                                         *)
LEMMA DrawnFlips ==
  ASSUME NEW t, NEW es, NEW Q, Drawn(t, es, Q), Len(es) \in Nat
  PROVE  Flips(t) = Cardinality(FlipsIn(es, Q))
<1>1. Len(t) \in Nat /\ DOMAIN t = 1 .. Len(t) /\ Q \in SUBSET (1 .. Len(es))
  BY ONLY Drawn(t, es, Q), ProperIs DEF Drawn
<1>2. PICK g : Follows(t, es, Q, g)
  BY ONLY Drawn(t, es, Q) DEF Drawn
<1>3. Ordered(t, es, Q, g)
  BY ONLY <1>1, <1>2, InOrderOf, Len(es) \in Nat
<1>4. PICK T : T = {n \in 1 .. Len(t) : Begins(t, n)}
  OBVIOUS
<1>5. Flips(t) = Cardinality(T)
  <2>1. Flips(t) = Cardinality({n \in DOMAIN t : t[n].type \in RetryTypes /\ \A m \in 1 .. n - 1 : t[m].type \in RetryTypes => Since(t, m, n)})
    BY ONLY Zenon DEF Flips, Since
  <2> QED
    BY ONLY <1>1, <1>4, <2>1 DEF Begins
<1>6. PICK U : U = FlipsIn(es, Q)
  OBVIOUS
<1>7. \A n \in 1 .. Len(t) : Begins(t, n) <=> BeginsIn(es, Q, g[n])
  BY ONLY <1>1, <1>3, DrawnBegins
<1>8. Matches(T, U, t, es, Q, g)
  <2>1. \A n \in 1 .. Len(t) : g[n] \in Q
    BY ONLY <1>3 DEF Ordered
  <2>2. \A n \in 1 .. Len(t) : n \in T <=> g[n] \in U
    BY ONLY <1>4, <1>6, <1>7, <2>1 DEF FlipsIn
  <2>3. T \subseteq 1 .. Len(t) /\ U \subseteq Q
    BY ONLY <1>4, <1>6 DEF FlipsIn
  <2> QED
    BY ONLY <1>1, <1>3, <2>2, <2>3 DEF Matches
<1> QED
  BY ONLY <1>5, <1>6, <1>8, SameNumber

(* The first retry of those that a retry follows without a step between.   *)
Streak(es, Q, n) == {q \in Q : q <= n /\ es[q].type \in RetryTypes /\ ~SinceIn(es, Q, q, n)}

(* Every retry is of a streak, which begins at one of the places.          *)
LEMMA StreakBegins ==
  ASSUME NEW l, l \in Nat, NEW Q, Q \in SUBSET (1 .. l), NEW es, NEW n, n \in Q, es[n].type \in RetryTypes,
         NEW q, q = Min(Streak(es, Q, n))
  PROVE  q \in Q /\ q <= n /\ BeginsIn(es, Q, q) /\ ~SinceIn(es, Q, q, n)
<1>1. \A k \in Q : k \in Nat
  BY ONLY l \in Nat, Q \in SUBSET (1 .. l)
<1>2. PICK S : S = Streak(es, Q, n)
  OBVIOUS
<1>3. \A k : k \in S <=> k \in Q /\ k <= n /\ es[k].type \in RetryTypes /\ ~SinceIn(es, Q, k, n)
  BY ONLY <1>2 DEF Streak
<1>4. n \in S
  <2>1. ~SinceIn(es, Q, n, n)
    BY ONLY <1>1, n \in Q DEF SinceIn
  <2> QED
    BY ONLY <1>1, <1>3, <2>1, n \in Q, es[n].type \in RetryTypes
<1>5. S \in SUBSET Nat /\ S # {}
  BY ONLY <1>1, <1>3, <1>4
<1>6. q \in S /\ \A k \in S : q <= k
  BY ONLY <1>2, <1>5, LeastOf, q = Min(Streak(es, Q, n))
<1>7. ASSUME NEW m \in Q, m < q, es[m].type \in RetryTypes PROVE SinceIn(es, Q, m, q)
  <2>1. q \in Q /\ q <= n /\ es[q].type \in RetryTypes /\ ~SinceIn(es, Q, q, n)
    BY ONLY <1>3, <1>6
  <2>2. m \in Nat /\ q \in Nat /\ n \in Nat
    BY ONLY <1>1, <2>1, m \in Q, n \in Q
  <2>3. m \notin S
    BY ONLY <1>6, <1>7, <2>2
  <2>4. SinceIn(es, Q, m, n)
    BY ONLY <1>3, <1>7, <2>1, <2>2, <2>3, m \in Q
  <2>5. PICK k \in Q : m < k /\ k < n /\ es[k].type \in StepTypes
    BY ONLY <2>4 DEF SinceIn
  <2>6. ~(q < k)
    BY ONLY <2>1, <2>5, k \in Q DEF SinceIn
  <2>7. k # q
    BY ONLY <2>1, <2>5 DEF RetryTypes, StepTypes
  <2>8. k < q
    BY ONLY <1>1, <2>2, <2>6, <2>7, k \in Q
  <2> QED
    BY ONLY <2>5, <2>8, k \in Q DEF SinceIn
<1> QED
  BY ONLY <1>3, <1>6, <1>7 DEF BeginsIn

(* Without some of the retries there are no more streaks: each is part of  *)
(* one that was, and different ones of different ones.                     *)
LEMMA FewerFlips ==
  ASSUME NEW es, Len(es) \in Nat, NEW Q, Q \in SUBSET (1 .. Len(es)), NEW P
  PROVE  /\ Cardinality(FlipsIn(es, Q \cap P)) \in Nat /\ Cardinality(FlipsIn(es, Q)) \in Nat
         /\ Cardinality(FlipsIn(es, Q \cap P)) <= Cardinality(FlipsIn(es, Q))
<1>1. PICK l : l = Len(es)
  OBVIOUS
<1>2. PICK R : R = Q \cap P
  OBVIOUS
<1>3. l \in Nat /\ Q \in SUBSET (1 .. l) /\ R \in SUBSET Q /\ \A k \in Q : k \in Int
  BY ONLY <1>1, <1>2, Len(es) \in Nat, Q \in SUBSET (1 .. Len(es))
<1>4. PICK S, T : S = FlipsIn(es, R) /\ T = FlipsIn(es, Q)
  OBVIOUS
<1>5. /\ \A n : n \in S <=> n \in R /\ BeginsIn(es, R, n)
      /\ \A n : n \in T <=> n \in Q /\ BeginsIn(es, Q, n)
  BY ONLY <1>4 DEF FlipsIn
<1>6. PICK f : f = [n \in S |-> Min(Streak(es, Q, n))]
  OBVIOUS
<1>7. \A n \in S : n \in Q /\ es[n].type \in RetryTypes
  BY ONLY <1>3, <1>5 DEF BeginsIn
<1>8. \A n \in S : f[n] \in Q /\ f[n] <= n /\ BeginsIn(es, Q, f[n]) /\ ~SinceIn(es, Q, f[n], n)
  BY ONLY <1>3, <1>6, <1>7, StreakBegins
<1>9. f \in [S -> T]
  BY ONLY <1>5, <1>6, <1>8
<1>10. ASSUME NEW m \in S, NEW n \in S, m < n PROVE f[m] < f[n]
  <2>1. SinceIn(es, R, m, n)
    BY ONLY <1>5, <1>7, <1>10, m \in S, n \in S DEF BeginsIn
  <2>2. PICK k \in R : m < k /\ k < n /\ es[k].type \in StepTypes
    BY ONLY <2>1 DEF SinceIn
  <2>3. k \in Q
    BY ONLY <1>3, k \in R
  <2>4. ~(f[n] < k)
    BY ONLY <1>8, <2>2, <2>3, n \in S DEF SinceIn
  <2>5. f[n] # k
    BY ONLY <1>8, <2>2, n \in S DEF BeginsIn, RetryTypes, StepTypes
  <2>6. f[m] <= m /\ f[m] \in Int /\ f[n] \in Int /\ k \in Int /\ m \in Int
    BY ONLY <1>3, <1>7, <1>8, <2>3, m \in S, n \in S
  <2> QED
    BY ONLY <2>2, <2>4, <2>5, <2>6
<1>11. \A m, n \in S : f[m] = f[n] => m = n
  <2> SUFFICES ASSUME NEW m \in S, NEW n \in S, f[m] = f[n] PROVE m = n
    OBVIOUS
  <2>1. m \in Int /\ n \in Int /\ f[m] \in Int
    BY ONLY <1>3, <1>7, <1>8, m \in S, n \in S
  <2>2. ~(m < n) /\ ~(n < m)
    BY ONLY <1>10, <2>1, m \in S, n \in S, f[m] = f[n]
  <2> QED
    BY ONLY <2>1, <2>2
<1>12. f \in Injection(S, T)
  BY ONLY <1>9, <1>11 DEF Injection, IsInjective
<1>13. S \in SUBSET (1 .. l) /\ T \in SUBSET (1 .. l)
  BY ONLY <1>3, <1>5
<1>14. IsFiniteSet(T) /\ Cardinality(T) \in Nat /\ Cardinality(S) \in Nat
  BY ONLY <1>3, <1>13, CountPlaces
<1>15. Cardinality(S) <= Cardinality(T)
  BY ONLY <1>12, <1>14, FS_Injection
<1> QED
  BY ONLY <1>2, <1>4, <1>14, <1>15

(* Flips are too many when one agent has four of them, or two have two.    *)
FlipsOf(es, a) == Flips(OfAgent(es, a))
Flipper(es, a) == a \in ToSet(Agents(es)) /\ FlipsOf(es, a) >= 2
Unstable(es) == \E a : Flipper(es, a) /\ (FlipsOf(es, a) >= 4 \/ \E b : b # a /\ Flipper(es, b))

(* The agents that flip are listed once.                                   *)
LEMMA FlippersDiffer ==
  ASSUME NEW es, NEW lasts, Events(es, lasts), NEW t, t = FlippingOf(es)
  PROVE  \A j, k \in 1 .. Len(t) : t[j] = t[k] => j = k
<1>1. PICK ag : ag = Agents(es)
  OBVIOUS
<1>2. PICK n : n = Len(ag)
  OBVIOUS
<1>3. n \in Nat /\ DOMAIN ag = 1 .. n /\ \A j, k \in 1 .. n : ag[j] = ag[k] => j = k
  BY ONLY <1>1, <1>2, AgentsAre, Events(es, lasts)
<1>4. PICK P \in SUBSET (1 .. n) : P = {k \in DOMAIN ag : Flips(OfAgent(es, ag[k])) >= 2}
  BY ONLY <1>3
<1>5. t = At(ag, P)
  BY ONLY <1>1, <1>4, t = FlippingOf(es) DEF FlippingOf
<1>6. n \in Nat
  BY ONLY <1>3
<1>7. PICK g : Taken(t, ag, P, g)
  BY ONLY <1>5, <1>6, AtIs, P \in SUBSET (1 .. n)
<1>8. Len(t) \in Nat
  BY ONLY FlippingIs, Events(es, lasts), t = FlippingOf(es)
<1>9. Follows(t, ag, P, g)
  BY ONLY <1>7 DEF Taken, Rising, Follows
<1>10. Ordered(t, ag, P, g)
  BY ONLY <1>6, <1>8, <1>9, InOrderOf, P \in SUBSET (1 .. n)
<1> QED
  BY ONLY <1>3, <1>10, P \in SUBSET (1 .. n) DEF Ordered

(* Flips add up to four exactly when one agent has four, or two agents     *)
(* have two each.                                                          *)
LEMMA FlipSumIs ==
  ASSUME NEW es, NEW lasts, Events(es, lasts)
  PROVE  FlipSum(es) >= 4 <=> Unstable(es)
<1>1. PICK t : t = FlippingOf(es)
  OBVIOUS
<1>2. PICK n : n = Len(t)
  OBVIOUS
<1>3. n \in Nat /\ DOMAIN t = 1 .. n /\ \A a : a \in ToSet(t) <=> Flipper(es, a)
  BY ONLY <1>1, <1>2, FlippingIs, Events(es, lasts) DEF Flipper, FlipsOf
<1>4. \A j, k \in 1 .. n : t[j] = t[k] => j = k
  BY ONLY <1>1, <1>2, FlippersDiffer, Events(es, lasts)
<1>5. \A a : Flipper(es, a) <=> \E k \in 1 .. n : t[k] = a
  BY ONLY <1>3 DEF ToSet
<1>6. PICK s : s = [k \in 1 .. n |-> FlipsOf(es, t[k])]
  OBVIOUS
<1>7. FlipSum(es) = SumOf(s)
  <2>1. Each(t, LAMBDA a : Flips(OfAgent(es, a))) = s
    BY ONLY <1>3, <1>6 DEF Each, FlipsOf
  <2> QED
    BY ONLY <1>1, <2>1 DEF FlipSum
<1>8. DOMAIN s = 1 .. n /\ \A k \in 1 .. n : s[k] = FlipsOf(es, t[k]) /\ s[k] \in Int /\ s[k] >= 2
  <2>1. \A a : FlipsOf(es, a) \in Nat
    <3> SUFFICES ASSUME NEW a PROVE FlipsOf(es, a) \in Nat
      OBVIOUS
    <3>1. PICK of : of = OfAgent(es, a)
      OBVIOUS
    <3>2. Events(of, lasts)
      BY ONLY <3>1, OfAgentIs, Events(es, lasts)
    <3> QED
      BY ONLY <3>1, <3>2, FlipsAre DEF FlipsOf
  <2>2. \A k \in 1 .. n : Flipper(es, t[k])
    BY ONLY <1>5
  <2>3. \A k \in 1 .. n : FlipsOf(es, t[k]) >= 2
    BY ONLY <2>2 DEF Flipper
  <2> QED
    BY ONLY <1>6, <2>1, <2>3
<1>9. \A k \in 1 .. n : s[k] \in Int
  BY ONLY <1>8
<1>10. CASE n = 0
  <2>1. 0 \in Int /\ DOMAIN s = 1 .. n /\ \A k \in 1 .. n : s[k] <= 0
    BY ONLY <1>8, <1>10
  <2>2. SumOf(s) \in Int /\ SumOf(s) <= n * 0
    BY ONLY <1>3, <1>9, <2>1, SumBounds
  <2>3. \A a : ~Flipper(es, a)
    BY ONLY <1>5, <1>10
  <2> QED
    BY ONLY <1>7, <1>10, <2>2, <2>3 DEF Unstable
<1>11. CASE n = 1
  <2>1. PICK v : v = s[1]
    OBVIOUS
  <2>2. /\ v \in Int /\ DOMAIN s = 1 .. n /\ \A k \in 1 .. n : s[k] <= v
        /\ \A k \in 1 .. n : s[k] >= v
    BY ONLY <1>8, <1>11, <2>1
  <2>3. SumOf(s) \in Int /\ SumOf(s) <= n * v /\ SumOf(s) >= n * v
    BY ONLY <1>3, <1>9, <2>2, SumBounds
  <2>4. SumOf(s) = v
    BY ONLY <1>11, <2>2, <2>3
  <2>5. v = FlipsOf(es, t[1])
    BY ONLY <1>8, <1>11, <2>1
  <2>6. \A a : Flipper(es, a) <=> a = t[1]
    BY ONLY <1>5, <1>11
  <2> QED
    BY ONLY <1>7, <2>4, <2>5, <2>6 DEF Unstable
<1>12. CASE n >= 2
  <2>1. 2 \in Int /\ DOMAIN s = 1 .. n /\ \A k \in 1 .. n : s[k] >= 2
    BY ONLY <1>8
  <2>2. SumOf(s) \in Int /\ SumOf(s) >= n * 2
    BY ONLY <1>3, <1>9, <2>1, SumBounds
  <2>3. FlipSum(es) >= 4
    BY ONLY <1>3, <1>7, <1>12, <2>2
  <2>4. 1 \in 1 .. n /\ 2 \in 1 .. n
    BY ONLY <1>3, <1>12
  <2>5. Flipper(es, t[1]) /\ Flipper(es, t[2]) /\ t[2] # t[1]
    BY ONLY <1>4, <1>5, <2>4
  <2> QED
    BY ONLY <2>3, <2>5 DEF Unstable
<1> QED
  BY ONLY <1>3, <1>10, <1>11, <1>12

-----------------------------------------------------------------------------
(* Whom the detectors accuse, by the places of the events.                 *)
Exhausts(es, a) ==
  a \in ToSet(Agents(es)) /\ 20 * Count(OfAgent(es, a), RetryTypes) >= 7 * Len(OfAgent(es, a))
Accuses(es, lasts, x) ==
  \/ x = <<"retry_storm", "swarm">> /\ Storms(Typed(es, RetryTypes), lasts)
  \/ \E a : \/ x = <<"retry_loop", a>> /\ Triple(OfAgent(Typed(es, RetryTypes), a))
            \/ x = <<"agent_exhaustion", a>> /\ Exhausts(es, a)
            \/ x = <<"orchestration_instability", a>> /\ Unstable(es) /\ Flipper(es, a)

AccusedBy(health, x) ==
  \/ x = <<"retry_storm", "swarm">> /\ Foresees(health.incidents, "retry_storm")
  \/ \E a : \/ x = <<"retry_loop", a>> /\ Holds(health.bottlenecks, "retry_loop", a)
            \/ x = <<"agent_exhaustion", a>> /\ Blamed(health.incidents, "agent_exhaustion", a)
            \/ x = <<"orchestration_instability", a>> /\ Blamed(health.incidents, "orchestration_instability", a)

(* The accusations of a report, kind by kind.                              *)
LEMMA AccusedIs ==
  ASSUME NEW health, NEW x
  PROVE  x \in Accused(health) <=> AccusedBy(health, x)
<1> DEFINE of(i) == IF i.kind = "retry_storm" THEN {"swarm"}
                    ELSE IF i.kind \in {"agent_exhaustion", "orchestration_instability"} THEN ToSet(i.agents) ELSE {}
<1>1. PICK bs, is : bs = ToSet(health.bottlenecks) /\ is = ToSet(health.incidents)
  OBVIOUS
<1>2. Accused(health) = {<<b.kind, b.agent>> : b \in {b \in bs : b.kind = "retry_loop"}}
                          \cup UNION {{<<i.kind, a>> : a \in of(i)} : i \in is}
  BY ONLY <1>1 DEF Accused
<1> HIDE DEF of
<1>3. x \in Accused(health)
        <=> \/ \E b \in bs : b.kind = "retry_loop" /\ x = <<b.kind, b.agent>>
            \/ \E i \in is : \E a \in of(i) : x = <<i.kind, a>>
  BY ONLY <1>2
<1>4. \A i, a : a \in of(i) <=> \/ i.kind = "retry_storm" /\ a = "swarm"
                                \/ i.kind \in {"agent_exhaustion", "orchestration_instability"} /\ a \in ToSet(i.agents)
  BY DEF of
<1>5. (\E b \in bs : b.kind = "retry_loop" /\ x = <<b.kind, b.agent>>)
        <=> \E a : x = <<"retry_loop", a>> /\ Holds(health.bottlenecks, "retry_loop", a)
  BY ONLY <1>1 DEF Holds
<1>6. (\E i \in is : i.kind = "retry_storm" /\ x = <<i.kind, "swarm">>)
        <=> x = <<"retry_storm", "swarm">> /\ Foresees(health.incidents, "retry_storm")
  BY ONLY <1>1 DEF Foresees
<1>7. ASSUME NEW kind
      PROVE  (\E i \in is : \E a : i.kind = kind /\ a \in ToSet(i.agents) /\ x = <<i.kind, a>>)
               <=> \E a : x = <<kind, a>> /\ Blamed(health.incidents, kind, a)
  BY ONLY <1>1 DEF Blamed
<1>8. (\E i \in is : \E a \in of(i) : x = <<i.kind, a>>)
        <=> \/ \E i \in is : i.kind = "retry_storm" /\ x = <<i.kind, "swarm">>
            \/ \E i \in is : \E a : i.kind = "agent_exhaustion" /\ a \in ToSet(i.agents) /\ x = <<i.kind, a>>
            \/ \E i \in is : \E a : i.kind = "orchestration_instability" /\ a \in ToSet(i.agents) /\ x = <<i.kind, a>>
  BY ONLY <1>4
<1> QED
  BY ONLY <1>3, <1>5, <1>6, <1>7, <1>8 DEF AccusedBy

(* An agent is exhausted by its score exactly when it is by its events.    *)
LEMMA TiringIs ==
  ASSUME NEW es, NEW lasts, Events(es, lasts), NEW scores, scores = Scores(es), NEW a
  PROVE  (\E k \in DOMAIN scores : scores[k].agent = a /\ Tires(scores[k])) <=> Exhausts(es, a)
<1>1. PICK ag : ag = Agents(es)
  OBVIOUS
<1>2. PICK n : n = Len(ag)
  OBVIOUS
<1>3. DOMAIN scores = 1 .. n /\ \A k \in 1 .. n : Rates(scores[k], OfAgent(es, ag[k])) /\ scores[k].agent = ag[k]
  BY ONLY <1>1, <1>2, ScoresAre, Events(es, lasts), scores = Scores(es)
<1>4. n \in Nat /\ DOMAIN ag = 1 .. n
  BY ONLY <1>1, <1>2, AgentsAre, Events(es, lasts)
<1>5. a \in ToSet(ag) <=> \E k \in 1 .. n : ag[k] = a
  BY ONLY <1>4 DEF ToSet
<1>6. \A k \in 1 .. n : ag[k] = a => (Tires(scores[k]) <=> 20 * Count(OfAgent(es, a), RetryTypes) >= 7 * Len(OfAgent(es, a)))
  BY ONLY <1>3 DEF Rates, Tires
<1> QED
  BY ONLY <1>1, <1>3, <1>5, <1>6 DEF Exhausts

(* Whom a report on events in the order of their times accuses is said by  *)
(* the places of the events alone.                                         *)
LEMMA AccusesIs ==
  ASSUME NEW es, NEW lasts, Events(es, lasts), InOrder(es, lasts), NEW x
  PROVE  x \in Accused(HealthReport(es, lasts)) <=> Accuses(es, lasts, x)
<1>1. PICK h, scores : h = HealthReport(es, lasts) /\ scores = Scores(es)
  OBVIOUS
<1>2. PICK bs, is : bs = Bottlenecks(es, lasts, scores) /\ is = Incidents(es, lasts, scores)
  OBVIOUS
<1>3. h.bottlenecks = bs /\ h.incidents = is
  BY ONLY <1>1, <1>2, ReportIs
<1>4. \A a : Holds(bs, "retry_loop", a) <=> Triple(OfAgent(Typed(es, RetryTypes), a))
  BY ONLY <1>1, <1>2, BottlenecksAre, Events(es, lasts), InOrder(es, lasts)
<1>5. /\ Foresees(is, "retry_storm") <=> Storms(Typed(es, RetryTypes), lasts)
      /\ \A a : Blamed(is, "orchestration_instability", a)
                  <=> FlipSum(es) >= 4 /\ a \in ToSet(Agents(es)) /\ Flips(OfAgent(es, a)) >= 2
      /\ \A a : Blamed(is, "agent_exhaustion", a) <=> \E k \in DOMAIN scores : scores[k].agent = a /\ Tires(scores[k])
  BY ONLY <1>1, <1>2, IncidentsAre, Events(es, lasts)
<1>6. \A a : Blamed(is, "orchestration_instability", a) <=> Unstable(es) /\ Flipper(es, a)
  <2>1. FlipSum(es) >= 4 <=> Unstable(es)
    BY ONLY FlipSumIs, Events(es, lasts)
  <2> QED
    BY ONLY <1>5, <2>1 DEF Flipper, FlipsOf
<1>7. \A a : Blamed(is, "agent_exhaustion", a) <=> Exhausts(es, a)
  <2>1. \A a : (\E k \in DOMAIN scores : scores[k].agent = a /\ Tires(scores[k])) <=> Exhausts(es, a)
    BY ONLY <1>1, TiringIs, Events(es, lasts)
  <2> QED
    BY ONLY <1>5, <2>1
<1>8. x \in Accused(h) <=> AccusedBy(h, x)
  BY ONLY AccusedIs
<1> QED
  BY ONLY <1>1, <1>3, <1>4, <1>5, <1>6, <1>7, <1>8 DEF AccusedBy, Accuses

-----------------------------------------------------------------------------
(* Giving retries up accuses nobody of more.                               *)
LEMMA PartOf ==
  ASSUME NEW n, n \in Nat, NEW A, A \in SUBSET (1 .. n), NEW P
  PROVE  /\ Cardinality(A) \in Nat /\ Cardinality(A \cap P) \in Nat
         /\ Cardinality(A \ P) \in Nat /\ Cardinality(A) = Cardinality(A \cap P) + Cardinality(A \ P)
<1>1. PICK B, C : B = A \cap P /\ C = A \ P
  OBVIOUS
<1>2. B \in SUBSET (1 .. n) /\ C \in SUBSET (1 .. n)
  BY ONLY <1>1, A \in SUBSET (1 .. n)
<1>3. IsFiniteSet(A) /\ Cardinality(A) \in Nat
  BY ONLY CountPlaces, n \in Nat, A \in SUBSET (1 .. n)
<1>4. Cardinality(B) \in Nat
  BY ONLY <1>2, CountPlaces, n \in Nat
<1>5. Cardinality(C) \in Nat
  BY ONLY <1>2, CountPlaces, n \in Nat
<1>6. Cardinality(A \ P) = Cardinality(A) - Cardinality(A \cap P)
  BY ONLY <1>3, FS_Difference
<1> QED
  BY ONLY <1>1, <1>3, <1>4, <1>5, <1>6

(* Some of the events are events in their order, of agents that were       *)
(* there.                                                                  *)
LEMMA DrawnSome ==
  ASSUME NEW es, NEW lasts, Events(es, lasts), NEW P, P \in SUBSET (1 .. Len(es)), NEW new, new = At(es, P)
  PROVE  /\ Events(new, lasts) /\ (InOrder(es, lasts) => InOrder(new, lasts)) /\ Drawn(new, es, P)
         /\ \A a : a \in ToSet(Agents(new)) => a \in ToSet(Agents(es))
<1>1. Proper(es) /\ Len(es) \in Nat /\ DOMAIN es = 1 .. Len(es)
  BY ONLY EventsAre, Events(es, lasts)
<1>2. Events(new, lasts) /\ (InOrder(es, lasts) => InOrder(new, lasts)) /\ ToSet(new) = {es[p] : p \in P}
  BY ONLY SomeEvents, Events(es, lasts), P \in SUBSET (1 .. Len(es)), new = At(es, P)
<1>3. PICK g : Taken(new, es, P, g)
  BY ONLY <1>1, AtIs, P \in SUBSET (1 .. Len(es)), new = At(es, P)
<1>4. Drawn(new, es, P)
  <2>1. Follows(new, es, P, g)
    BY ONLY <1>3 DEF Taken, Rising, Follows
  <2>2. Proper(new)
    BY ONLY <1>2 DEF Events
  <2> QED
    BY ONLY <2>1, <2>2, P \in SUBSET (1 .. Len(es)) DEF Drawn
<1>5. Len(new) \in Nat /\ DOMAIN new = 1 .. Len(new)
  BY ONLY <1>2, EventsAre
<1>6. ToSet(Agents(new)) = {new[n].agent : n \in 1 .. Len(new)}
  BY ONLY <1>2, AgentsAre
<1>7. ToSet(Agents(es)) = {es[n].agent : n \in 1 .. Len(es)}
  BY ONLY AgentsAre, Events(es, lasts)
<1>8. \A n \in 1 .. Len(new) : \E p \in P : new[n] = es[p]
  <2>1. \A n \in 1 .. Len(new) : new[n] \in ToSet(new)
    BY ONLY <1>5 DEF ToSet
  <2> QED
    BY ONLY <1>2, <2>1
<1>9. \A a : a \in ToSet(Agents(new)) => a \in ToSet(Agents(es))
  BY ONLY <1>6, <1>7, <1>8, P \in SUBSET (1 .. Len(es))
<1> QED
  BY ONLY <1>2, <1>4, <1>9

(* Some events, of which only retries are missing, accuse nobody of more.  *)
LEMMA SuppressionIs ==
  ASSUME NEW es, NEW lasts, Events(es, lasts), NEW P, P \in SUBSET (1 .. Len(es)),
         \A n \in 1 .. Len(es) : n \notin P => es[n].type \in RetryTypes,
         NEW new, new = At(es, P), NEW x, Accuses(new, lasts, x)
  PROVE  Accuses(es, lasts, x)
<1>1. PICK l, all : l = Len(es) /\ all = 1 .. l
  OBVIOUS
<1>2. Proper(es) /\ l \in Nat /\ lasts \in Int
  BY ONLY <1>1, EventsAre, Events(es, lasts)
<1>3. /\ Events(new, lasts) /\ Drawn(new, es, P)
      /\ \A a : a \in ToSet(Agents(new)) => a \in ToSet(Agents(es))
  BY ONLY DrawnSome, Events(es, lasts), P \in SUBSET (1 .. Len(es)), new = At(es, P)
<1>4. Drawn(es, es, all)
  BY ONLY <1>1, <1>2, DrawnAll
<1>5. Len(es) \in Nat
  BY ONLY <1>1, <1>2
<1>6. PICK R : R = RetriesOf(es)
  OBVIOUS
<1>7. \A n \in 1 .. l : n \notin P => n \in R
  BY ONLY <1>1, <1>6, \A n \in 1 .. Len(es) : n \notin P => es[n].type \in RetryTypes DEF RetriesOf
<1>8. P \in SUBSET all /\ R \in SUBSET all /\ P \in SUBSET (1 .. l)
  BY ONLY <1>1, <1>6, P \in SUBSET (1 .. Len(es)) DEF RetriesOf
<1>9. PICK rs, few : rs = Typed(es, RetryTypes) /\ few = Typed(new, RetryTypes)
  OBVIOUS
<1>10. Drawn(rs, es, all \cap R) /\ Drawn(few, es, P \cap R)
  BY ONLY <1>3, <1>4, <1>5, <1>6, <1>9, DrawnRetries
<1>11. Storms(few, lasts) => Storms(rs, lasts)
  <2>1. Len(rs) = Cardinality(all \cap R) /\ Len(few) = Cardinality(P \cap R)
    BY ONLY <1>5, <1>10, DrawnLength
  <2>2. PICK S : S = all \cap R
    OBVIOUS
  <2>3. S \in SUBSET (1 .. l)
    BY ONLY <1>1, <2>2
  <2>4. /\ Cardinality(S) \in Nat /\ Cardinality(S \cap P) \in Nat /\ Cardinality(S \ P) \in Nat
        /\ Cardinality(S) = Cardinality(S \cap P) + Cardinality(S \ P)
    BY ONLY <1>2, <2>3, PartOf
  <2>5. S \cap P = P \cap R
    BY ONLY <1>8, <2>2
  <2>6. Len(rs) \in Nat /\ Len(few) \in Nat /\ Len(few) <= Len(rs)
    <3>1. PICK c, d, e : c = Cardinality(S) /\ d = Cardinality(S \cap P) /\ e = Cardinality(S \ P)
      OBVIOUS
    <3>2. Len(rs) = c /\ Len(few) = d
      BY ONLY <2>1, <2>2, <2>5, <3>1
    <3>3. c \in Nat /\ d \in Nat /\ e \in Nat /\ c = d + e
      BY ONLY <2>4, <3>1
    <3> QED
      BY ONLY <3>2, <3>3
  <2>7. PICK span : span = Most(lasts, 6)
    OBVIOUS
  <2>8. span \in Int
    BY ONLY <1>2, <2>7 DEF Most
  <2> QED
    BY ONLY <2>6, <2>7, <2>8 DEF Storms
<1>12. ASSUME NEW a
       PROVE  /\ Triple(OfAgent(few, a)) => Triple(OfAgent(rs, a))
              /\ Exhausts(new, a) => Exhausts(es, a)
              /\ Flipper(new, a) => Flipper(es, a)
              /\ FlipsOf(new, a) >= 4 => FlipsOf(es, a) >= 4
  <2>1. PICK A : A = PlacesOf(es, a)
    OBVIOUS
  <2>2. A \in SUBSET (1 .. l) /\ A \in SUBSET all
    BY ONLY <1>1, <2>1 DEF PlacesOf
  <2>3. PICK t, u, of, on : t = OfAgent(rs, a) /\ u = OfAgent(few, a) /\ of = OfAgent(es, a) /\ on = OfAgent(new, a)
    OBVIOUS
  <2>4. Drawn(t, es, (all \cap R) \cap A) /\ Drawn(u, es, (P \cap R) \cap A)
    BY ONLY <1>5, <1>10, <2>1, <2>3, DrawnOfAgent
  <2>5. Drawn(of, es, all \cap A) /\ Drawn(on, es, P \cap A)
    BY ONLY <1>3, <1>4, <1>5, <2>1, <2>3, DrawnOfAgent
  <2>6. all \cap A = A /\ P \cap A = A \cap P /\ (P \cap R) \cap A \subseteq (all \cap R) \cap A
    BY ONLY <1>8, <2>2
  <2>7. Drawn(of, es, A) /\ Drawn(on, es, A \cap P)
    BY ONLY <2>5, <2>6
  <2>8. Triple(u) => Triple(t)
    <3>1. Triple(u) <=> ThreeIn(es, (P \cap R) \cap A)
      BY ONLY <1>5, <2>4, DrawnTriple
    <3>2. Triple(t) <=> ThreeIn(es, (all \cap R) \cap A)
      BY ONLY <1>5, <2>4, DrawnTriple
    <3> QED
      BY ONLY <2>6, <3>1, <3>2 DEF ThreeIn
  <2>9. Exhausts(new, a) => Exhausts(es, a)
    <3>1. Len(of) = Cardinality(A) /\ Count(of, RetryTypes) = Cardinality(A \cap R)
      BY ONLY <1>5, <1>6, <2>7, DrawnLength
    <3>2. Len(on) = Cardinality(A \cap P) /\ Count(on, RetryTypes) = Cardinality((A \cap P) \cap R)
      BY ONLY <1>5, <1>6, <2>7, DrawnLength
    <3>3. PICK B : B = A \cap R
      OBVIOUS
    <3>4. B \in SUBSET (1 .. l)
      BY ONLY <2>2, <3>3
    <3>5. /\ Cardinality(A) \in Nat /\ Cardinality(A \cap P) \in Nat /\ Cardinality(A \ P) \in Nat
          /\ Cardinality(A) = Cardinality(A \cap P) + Cardinality(A \ P)
      BY ONLY <1>2, <2>2, PartOf
    <3>6. /\ Cardinality(B) \in Nat /\ Cardinality(B \cap P) \in Nat /\ Cardinality(B \ P) \in Nat
          /\ Cardinality(B) = Cardinality(B \cap P) + Cardinality(B \ P)
      BY ONLY <1>2, <3>4, PartOf
    <3>7. B \cap P = (A \cap P) \cap R /\ B \ P = A \ P
      BY ONLY <1>7, <2>2, <3>3
    <3>8. PICK e, r, f, s, d : /\ e = Len(of) /\ r = Count(of, RetryTypes) /\ f = Len(on) /\ s = Count(on, RetryTypes)
                               /\ d = Cardinality(A \ P)
      OBVIOUS
    <3>9. e \in Nat /\ r \in Nat /\ f \in Nat /\ s \in Nat /\ d \in Nat /\ e = f + d /\ r = s + d
      BY ONLY <3>1, <3>2, <3>3, <3>5, <3>6, <3>7, <3>8
    <3>10. 20 * s >= 7 * f => 20 * r >= 7 * e
      BY ONLY <3>9
    <3> QED
      BY ONLY <1>3, <2>3, <3>8, <3>10 DEF Exhausts
  <2>10. Flips(of) \in Nat /\ Flips(on) \in Nat /\ Flips(on) <= Flips(of)
    <3>1. Flips(of) = Cardinality(FlipsIn(es, A)) /\ Flips(on) = Cardinality(FlipsIn(es, A \cap P))
      BY ONLY <1>5, <2>7, DrawnFlips
    <3>2. A \in SUBSET (1 .. Len(es))
      BY ONLY <1>1, <2>2
    <3> QED
      BY ONLY <1>5, <3>1, <3>2, FewerFlips
  <2>11. (Flipper(new, a) => Flipper(es, a)) /\ (FlipsOf(new, a) >= 4 => FlipsOf(es, a) >= 4)
    BY ONLY <1>3, <2>3, <2>10 DEF Flipper, FlipsOf
  <2> QED
    BY ONLY <2>3, <2>8, <2>9, <2>11
<1>13. Unstable(new) => Unstable(es)
  BY ONLY <1>12 DEF Unstable
<1> QED
  BY ONLY <1>9, <1>11, <1>12, <1>13, Accuses(new, lasts, x) DEF Accuses

\* What the mutations without retries leave: only retries are missing.
Spared(es, m) ==
  IF m.kind = "alter_retry_policy"
    THEN {n \in DOMAIN es : es[n].type \in RetryTypes /\ es[n].at >= m.from /\ (m.target = "*" \/ es[n].agent = m.target)}
    ELSE {n \in DOMAIN es : es[n].type \in {"TASK_RETRY", "AGENT_RETRY"} /\ es[n].at >= m.from}
Permitted(m) == IF m.kind = "alter_retry_policy" THEN m.n ELSE 2

(* Both mutations limit how many of some retries each agent keeps.         *)
LEMMA MutatedIs ==
  ASSUME NEW es, NEW m, m.kind \in {"alter_retry_policy", "suppress_retries"}
  PROVE  Mutated(es, m) = Limited(es, Spared(es, m), Permitted(m))
<1>1. CASE m.kind = "alter_retry_policy"
  BY ONLY <1>1, Zenon DEF Mutated, Spared, Permitted
<1>2. CASE m.kind = "suppress_retries"
  <2>1. m.kind # "alter_retry_policy" /\ m.kind # "reroute_agent" /\ m.kind # "inject_anomaly"
        /\ m.kind # "remove_agent" /\ m.kind # "add_capacity" /\ m.kind # "change_throughput"
    BY ONLY <1>2
  <2>2. Spared(es, m) = {n \in DOMAIN es : es[n].type \in {"TASK_RETRY", "AGENT_RETRY"} /\ es[n].at >= m.from}
    BY ONLY <2>1 DEF Spared
  <2>3. {n \in DOMAIN es : es[n].type \in {"TASK_RETRY", "AGENT_RETRY"} /\ es[n].at >= m.from /\ (TRUE \/ es[n].agent = m.target)}
        = {n \in DOMAIN es : es[n].type \in {"TASK_RETRY", "AGENT_RETRY"} /\ es[n].at >= m.from}
    OBVIOUS
  <2>4. Mutated(es, m)
        = Limited(es, {n \in DOMAIN es : es[n].type \in {"TASK_RETRY", "AGENT_RETRY"} /\ es[n].at >= m.from
                                         /\ (TRUE \/ es[n].agent = m.target)}, 2)
    BY ONLY <1>2, <2>1 DEF Mutated
  <2>5. Permitted(m) = 2
    BY ONLY <2>1 DEF Permitted
  <2> QED
    BY ONLY <2>2, <2>3, <2>4, <2>5
<1> QED
  BY <1>1, <1>2

(* So neither accuses anybody of more, of events in the order of their     *)
(* times.                                                                  *)
LEMMA SuppressedIs ==
  ASSUME NEW es, NEW lasts, Events(es, lasts), InOrder(es, lasts), NEW m, m.kind \in {"alter_retry_policy", "suppress_retries"},
         NEW new, new = Mutated(es, m)
  PROVE  Accused(HealthReport(new, lasts)) \subseteq Accused(HealthReport(es, lasts))
<1>1. PICK places, most : places = Spared(es, m) /\ most = Permitted(m)
  OBVIOUS
<1>2. PICK P : P = {n \in DOMAIN es : n \in places => Cardinality({k \in places : k <= n /\ es[k].agent = es[n].agent}) <= most}
  OBVIOUS
<1>3. new = At(es, P)
  <2>1. new = Limited(es, places, most)
    BY ONLY <1>1, MutatedIs, m.kind \in {"alter_retry_policy", "suppress_retries"}, new = Mutated(es, m)
  <2> QED
    BY ONLY <1>2, <2>1, Zenon DEF Limited
<1>4. DOMAIN es = 1 .. Len(es)
  BY ONLY EventsAre, Events(es, lasts)
<1>5. P \in SUBSET (1 .. Len(es))
  BY ONLY <1>2, <1>4
<1>6. \A n \in 1 .. Len(es) : n \notin P => es[n].type \in RetryTypes
  <2>1. \A n \in 1 .. Len(es) : n \notin P => n \in places
    BY ONLY <1>2, <1>4
  <2>2. \A n \in Spared(es, m) : es[n].type \in RetryTypes
    BY ONLY DEF Spared, RetryTypes
  <2> QED
    BY ONLY <1>1, <2>1, <2>2
<1>7. Events(new, lasts) /\ InOrder(new, lasts)
  BY ONLY <1>3, <1>5, DrawnSome, Events(es, lasts), InOrder(es, lasts)
<1>8. SUFFICES ASSUME NEW x, x \in Accused(HealthReport(new, lasts))
               PROVE  x \in Accused(HealthReport(es, lasts))
  OBVIOUS
<1>9. Accuses(new, lasts, x)
  BY ONLY <1>7, <1>8, AccusesIs
<1>10. Accuses(es, lasts, x)
  BY ONLY <1>3, <1>5, <1>6, <1>9, SuppressionIs, Events(es, lasts)
<1> QED
  BY ONLY <1>10, AccusesIs, Events(es, lasts), InOrder(es, lasts)

-----------------------------------------------------------------------------
(* The requests about the window.                                          *)

(* What a swarm may do next is what one of the courses says.               *)
Coursing(c) == c = None \/ ("most" \in DOMAIN c /\ "bursts" \in DOMAIN c /\ \E d \in Courses : c.bursts = d.bursts)

(* What is answered is told of these events.                               *)
ToldOf(told, es, lasts) ==
  told # None =>
    /\ told.to = "health" => told.health = HealthReport(es, lasts)
    /\ told.to = "analyze" => /\ told.nodes = GraphNodes(es, "swarm")
                              /\ told.edges = GraphEdges(EdgeList(es, "swarm"))

InsightInv == Events(window, elapsed) /\ Coursing(course) /\ ToldOf(answer, window, elapsed)

(* The window begins empty.                                                *)
LEMMA WindowBegins == InsightInit => InsightInv
<1> SUFFICES ASSUME InsightInit PROVE InsightInv
  OBVIOUS
<1>1. window = <<>> /\ elapsed = 0 /\ course = None /\ answer = None
  BY DEF InsightInit
<1>2. PICK es, lasts : es = window /\ lasts = elapsed
  OBVIOUS
<1>3. Events(es, lasts)
  <2>1. es = <<>> /\ lasts = 0
    BY ONLY <1>1, <1>2
  <2>2. Len(es) = 0 /\ DOMAIN es = 1 .. 0 /\ es \in Seq(ToSet(es))
    BY ONLY <2>1
  <2>3. Proper(es)
    BY ONLY <2>2 DEF Proper
  <2>4. WellFormed(es, lasts)
    BY ONLY <2>1, <2>2 DEF WellFormed, IsList
  <2> QED
    BY ONLY <2>3, <2>4 DEF Events
<1> QED
  BY ONLY <1>1, <1>2, <1>3 DEF InsightInv, Coursing, ToldOf

(* The next burst comes after the events of the window.                    *)
LEMMA BurstKeeps ==
  ASSUME InsightInv, course # None, NEW b \in course.bursts, Arrive(b)
  PROVE  InsightInv'
<1>1. PICK c, es, lasts : c = course /\ es = window /\ lasts = elapsed
  OBVIOUS
<1>2. PICK d \in Courses : "most" \in DOMAIN c /\ "bursts" \in DOMAIN c /\ c.bursts = d.bursts
  BY <1>1 DEF InsightInv, Coursing
<1>3. WellFormed(b.events, b.lasts)
  <2>1. b \in d.bursts
    BY <1>1, <1>2
  <2> QED
    BY <2>1, InsightAssumption
<1>4. Events(es, lasts)
  BY <1>1 DEF InsightInv
<1>5. PICK more, length : more = b.events /\ length = b.lasts
  OBVIOUS
<1>6. PICK t : t = es \o Each(more, LAMBDA e : [e EXCEPT !.at = e.at + lasts])
  OBVIOUS
<1>7. window' = t /\ elapsed' = lasts + length /\ answer' = None
  BY <1>1, <1>5, <1>6 DEF Arrive
<1>8. Events(t, lasts + length)
  BY ONLY <1>3, <1>4, <1>5, <1>6, EventsGoOn
<1>9. course' = [c EXCEPT !.most = @ - 1]
  BY <1>1 DEF Arrive
<1>10. Coursing(course')
  <2>1. DOMAIN course' = DOMAIN c /\ course'.bursts = c.bursts
    BY <1>2, <1>9
  <2> QED
    BY <1>2, <2>1 DEF Coursing
<1> QED
  BY ONLY <1>7, <1>8, <1>10 DEF InsightInv, Coursing, ToldOf

(* A swarm that begins has sent nothing yet.                               *)
LEMMA BeginKeeps == ASSUME InsightInv, NEW c \in Courses, Begin(c) PROVE InsightInv'
<1>1. course' = c /\ window' = window /\ elapsed' = elapsed /\ answer' = answer
  BY DEF Begin
<1>2. "most" \in DOMAIN c /\ "bursts" \in DOMAIN c
  BY InsightAssumption
<1>3. Coursing(c)
  BY <1>2 DEF Coursing
<1> QED
  BY <1>1, <1>3 DEF InsightInv

(* An answer is told of the window, which no request changes.              *)
LEMMA RequestKeeps ==
  ASSUME InsightInv, NEW health, health = HealthReport(window, elapsed), Request(health)
  PROVE  InsightInv'
<1>1. course' = course /\ window' = window /\ elapsed' = elapsed
  BY DEF Request
<1>2. ASSUME NEW complete, Analyze(health, complete) PROVE ToldOf(answer', window, elapsed)
  BY <1>2 DEF Analyze, ToldOf
<1>3. ASSUME AnalyzeHealth(health) PROVE ToldOf(answer', window, elapsed)
  BY <1>3 DEF AnalyzeHealth, ToldOf
<1>4. ASSUME AnalyzeNarrative(health) PROVE ToldOf(answer', window, elapsed)
  BY <1>4 DEF AnalyzeNarrative, ToldOf
<1>5. ASSUME NEW m, SimulateBranch(health, m) PROVE ToldOf(answer', window, elapsed)
  BY <1>5 DEF SimulateBranch, ToldOf
<1>6. ToldOf(answer', window, elapsed)
  BY <1>2, <1>3, <1>4, <1>5 DEF Request
<1> QED
  BY <1>1, <1>6 DEF InsightInv

InsightStep == InsightNext \/ UNCHANGED insight

(* A step of the service is one of this part or leaves it alone.           *)
LEMMA InsightSteps == [Next]_intelligence => InsightStep
BY Zenon DEF Next, intelligence, services, insight, InsightStep, InsightRestart, OversightRequest, PlanetaryRequest,
   StructureRequest, MemoryRequest, GovernorRequest, CollectiveRequest, InsightRequest, EvolutionRequest,
   LearningRequest, Restart

(* Every step keeps the invariant.                                         *)
LEMMA WindowKept == ASSUME InsightInv, InsightStep PROVE InsightInv'
<1>1. ASSUME NEW c \in Courses, Begin(c) PROVE InsightInv'
  BY <1>1, BeginKeeps
<1>2. ASSUME course # None, NEW b \in course.bursts, Arrive(b) PROVE InsightInv'
  BY <1>2, BurstKeeps
<1>3. ASSUME NEW health, health = HealthReport(window, elapsed), Request(health) PROVE InsightInv'
  BY <1>3, RequestKeeps
<1>4. ASSUME UNCHANGED insight PROVE InsightInv'
  BY <1>4 DEF insight, InsightInv
<1>5. ASSUME InsightNext PROVE InsightInv'
  BY <1>1, <1>2, <1>3, <1>5 DEF InsightNext
<1> QED
  BY <1>4, <1>5 DEF InsightStep

(* The three parts of the property follow from it.                         *)
LEMMA DetectorsAre == InsightInv => DetectorsExact
<1> SUFFICES ASSUME InsightInv, answer # None, answer.to = "health"
             PROVE  /\ LoopsFound(answer.health) /\ CascadesFound(answer.health)
                    /\ DelaysFound(answer.health) /\ StallsFound(answer.health)
  BY Zenon DEF DetectorsExact
<1>1. PICK health : health = answer.health
  OBVIOUS
<1>2. Events(window, elapsed) /\ health = HealthReport(window, elapsed)
  BY <1>1 DEF InsightInv, ToldOf
<1>3. LoopsFound(health) /\ CascadesFound(health) /\ DelaysFound(health) /\ StallsFound(health)
  BY <1>2, DetectorsFind
<1> QED
  BY <1>1, <1>3

(* The events that strike two agents together, as the property names them. *)
LEMMA StruckIs ==
  ASSUME NEW es, NEW lasts, Events(es, lasts), NEW a, NEW b
  PROVE  Struck(es, a, b)
           <=> \E m, n \in DOMAIN es :
                 /\ m < n /\ es[m].agent = a /\ es[n].agent = b /\ a # b
                 /\ {es[m].type, es[n].type} \subseteq AnomalyTypes
                 /\ es[m].zone = es[n].zone /\ es[n].at - es[m].at \in -5 .. 5
<1>1. DOMAIN es = 1 .. Len(es)
  BY ONLY EventsAre, Events(es, lasts)
<1>2. \A x, y : {x, y} \subseteq AnomalyTypes <=> x \in AnomalyTypes /\ y \in AnomalyTypes
  OBVIOUS
<1> QED
  BY ONLY <1>1, <1>2 DEF Struck, StrickenAt

LEMMA LinksRight == InsightInv => LinksExact
<1> SUFFICES ASSUME InsightInv, answer # None, answer.to = "analyze" PROVE LinksExact
  BY DEF LinksExact
<1>1. PICK es, lasts : es = window /\ lasts = elapsed
  OBVIOUS
<1>2. PICK list, links, made : list = EdgeList(es, "swarm") /\ links = answer.edges /\ made = answer.nodes
  OBVIOUS
<1>3. Events(es, lasts) /\ links = GraphEdges(list) /\ made = GraphNodes(es, "swarm")
  BY <1>1, <1>2 DEF InsightInv, ToldOf
<1>4. PICK ids : ids = DOMAIN made
  OBVIOUS
<1>5. ids = ToSet(Zones(es)) \cup ToSet(Agents(es)) \cup {"swarm"}
  BY ONLY <1>3, <1>4, NodesAre
<1>6. DOMAIN links = ToSet(list)
  BY ONLY <1>3, EdgesAre
<1>7. /\ \A k \in ToSet(list) : k[1] \in ids /\ k[2] \in ids
      /\ \A a, b : <<a, b, "anomaly_propagation">> \in ToSet(list) => Struck(es, a, b)
      /\ InOrder(es, lasts) => \A a, b : Struck(es, a, b) => <<a, b, "anomaly_propagation">> \in ToSet(list)
  BY ONLY <1>2, <1>3, <1>5, LinksAre
<1>8. \A k \in DOMAIN links : {k[1], k[2]} \subseteq DOMAIN made
  BY ONLY <1>4, <1>6, <1>7
<1>9. ASSUME NEW a, NEW b
      PROVE  Entails(<<a, b, "anomaly_propagation">> \in DOMAIN links,
                     \E m, n \in DOMAIN es :
                       /\ m < n /\ es[m].agent = a /\ es[n].agent = b /\ a # b
                       /\ {es[m].type, es[n].type} \subseteq AnomalyTypes
                       /\ es[m].zone = es[n].zone /\ es[n].at - es[m].at \in -5 .. 5)
  BY ONLY <1>1, <1>3, <1>6, <1>7, StruckIs DEF Entails
<1>10. \A k \in DOMAIN answer.edges : {k[1], k[2]} \subseteq DOMAIN answer.nodes
  BY ONLY <1>2, <1>8
<1>11. \A a, b \in ToSet(Agents(window)) :
         Entails(<<a, b, "anomaly_propagation">> \in DOMAIN answer.edges,
                 \E m, n \in DOMAIN window :
                   /\ m < n /\ window[m].agent = a /\ window[n].agent = b /\ a # b
                   /\ {window[m].type, window[n].type} \subseteq AnomalyTypes
                   /\ window[m].zone = window[n].zone /\ window[n].at - window[m].at \in -5 .. 5)
  <2> SUFFICES ASSUME NEW a \in ToSet(Agents(window)), NEW b \in ToSet(Agents(window))
               PROVE  Entails(<<a, b, "anomaly_propagation">> \in DOMAIN answer.edges,
                              \E m, n \in DOMAIN window :
                                /\ m < n /\ window[m].agent = a /\ window[n].agent = b /\ a # b
                                /\ {window[m].type, window[n].type} \subseteq AnomalyTypes
                                /\ window[m].zone = window[n].zone /\ window[n].at - window[m].at \in -5 .. 5)
    OBVIOUS
  <2> QED
    BY ONLY <1>1, <1>2, <1>9
<1> QED
  BY ONLY <1>10, <1>11, Zenon DEF LinksExact

LEMMA SuppressionHarmless == InsightInv => SuppressionNeverHarms
<1> SUFFICES ASSUME InsightInv, answer # None, answer.to = "simulate", InOrder(window, elapsed),
                    answer.mutation.kind \in {"alter_retry_policy", "suppress_retries"}
             PROVE  Accused(HealthReport(Mutated(window, answer.mutation), elapsed)) \subseteq Accused(HealthReport(window, elapsed))
  BY Zenon DEF SuppressionNeverHarms
<1>1. PICK es, lasts, m : es = window /\ lasts = elapsed /\ m = answer.mutation
  OBVIOUS
<1>2. PICK new : new = Mutated(es, m)
  OBVIOUS
<1>3. Events(es, lasts) /\ InOrder(es, lasts) /\ m.kind \in {"alter_retry_policy", "suppress_retries"}
  BY <1>1 DEF InsightInv
<1>4. Accused(HealthReport(new, lasts)) \subseteq Accused(HealthReport(es, lasts))
  BY ONLY <1>2, <1>3, SuppressedIs
<1> QED
  BY ONLY <1>1, <1>2, <1>4

(* Whatever events a swarm sends, in whatever bursts and whatever order,   *)
(* and whatever is asked about them: the detectors invent no loop and miss *)
(* no cascade, late handoff or stall; every edge of the knowledge graph    *)
(* joins two of its nodes, and agents are joined as stricken together only *)
(* when they were. When the events are in the order of their times, loops, *)
(* cascades, late handoffs, stalls and stricken pairs are found exactly as *)
(* their definitions say, and the twin's branch with fewer retries is      *)
(* accused of nothing that the swarm itself is not accused of.             *)
THEOREM AnalysisAlwaysExact == Spec => []AnalysisExact
<1>1. Init => InsightInv
  BY WindowBegins DEF Init
<1>2. InsightInv /\ [Next]_intelligence => InsightInv'
  BY WindowKept, InsightSteps
<1>3. InsightInv => AnalysisExact
  BY DetectorsAre, LinksRight, SuppressionHarmless DEF AnalysisExact
<1> QED
  BY <1>1, <1>2, <1>3, PTL DEF Spec
=============================================================================
