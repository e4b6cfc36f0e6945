------------------------------- MODULE FoldFacts -------------------------------
(***************************************************************************)
(* Facts about data that the proofs of several components rest on: least   *)
(* and greatest numbers, induction over the naturals and over the parts of *)
(* a finite set, sums over a finite set, and the values a fold over a      *)
(* sequence passes through.  They are about the operators of the community *)
(* modules, whatever the program.                                          *)
(***************************************************************************)
EXTENDS Integers, SequencesExt, FiniteSetTheorems, SequenceTheorems, WellFoundedInduction, NaturalsInduction, TLAPS

-----------------------------------------------------------------------------
(* A set of naturals has a least member, and one within a bound a greatest. *)
LEMMA LeastOf ==
  ASSUME NEW S \in SUBSET Nat, S # {}
  PROVE  Min(S) \in S /\ \A y \in S : Min(S) <= y
<1>1. PICK x \in S : \A y \in S : ~(<<y, x>> \in OpToRel(<, Nat))
  BY NatLessThanWellFounded, WFMin
<1>2. \A y \in S : x <= y
  <2>1. \A y \in S : ~(y < x)
    BY <1>1 DEF OpToRel
  <2>2. x \in Nat /\ \A y \in S : y \in Nat
    OBVIOUS
  <2> QED
    BY <2>1, <2>2
<1> QED
  BY <1>2 DEF Min


LEMMA GreatestOf ==
  ASSUME NEW k \in Nat, NEW S \in SUBSET (1 .. k), S # {}
  PROVE  Max(S) \in S /\ \A y \in S : Max(S) >= y
<1> DEFINE T == {k - x : x \in S}
<1>1. T \in SUBSET Nat /\ T # {}
  <2>1. \A x \in S : x \in Int /\ k - x \in Nat
    OBVIOUS
  <2> QED
    BY <2>1
<1>2. PICK t \in T : \A u \in T : ~(<<u, t>> \in OpToRel(<, Nat))
  <2> HIDE DEF T
  <2> QED
    BY <1>1, NatLessThanWellFounded, WFMin
<1>3. \A u \in T : t <= u
  <2> HIDE DEF T
  <2>1. \A u \in T : ~(u < t)
    BY <1>1, <1>2 DEF OpToRel
  <2>2. t \in Nat /\ \A u \in T : u \in Nat
    BY <1>1
  <2> QED
    BY <2>1, <2>2
<1>4. PICK x \in S : t = k - x
  OBVIOUS
<1>5. \A y \in S : x >= y
  <2> SUFFICES ASSUME NEW y \in S PROVE x >= y
    OBVIOUS
  <2>1. k - y \in T
    OBVIOUS
  <2>2. t <= k - y
    BY <1>3, <2>1
  <2> QED
    BY <1>4, <2>2
<1> HIDE DEF T
<1> QED
  BY <1>5 DEF Max

(* Nothing added.                                                          *)
LEMMA PlusZero == ASSUME NEW n \in Nat PROVE n + 0 = n
OBVIOUS

(* One element more, one less.                                             *)
LEMMA OneMore ==
  ASSUME NEW S, IsFiniteSet(S), NEW x, NEW T \in SUBSET (S \cup {x})
  PROVE  IsFiniteSet(T) /\ Cardinality(T) <= Cardinality(S) + 1
<1>1. /\ IsFiniteSet(S \cup {x}) /\ Cardinality(S) \in Nat
      /\ Cardinality(S \cup {x}) = Cardinality(S) \/ Cardinality(S \cup {x}) = Cardinality(S) + 1
  BY FS_AddElement, FS_CardinalityType
<1>2. IsFiniteSet(T) /\ Cardinality(T) <= Cardinality(S \cup {x}) /\ Cardinality(T) \in Nat
  BY <1>1, FS_Subset, FS_CardinalityType
<1> QED
  BY <1>1, <1>2

LEMMA OneLess ==
  ASSUME NEW S, IsFiniteSet(S), NEW x \in S
  PROVE  /\ IsFiniteSet(S \ {x}) /\ Cardinality(S \ {x}) \in Nat
         /\ Cardinality(S) = Cardinality(S \ {x}) + 1
<1>1. IsFiniteSet(S \ {x}) /\ Cardinality(S \ {x}) = Cardinality(S) - 1
  BY FS_RemoveElement
<1>2. Cardinality(S) \in Nat /\ Cardinality(S \ {x}) \in Nat
  BY <1>1, FS_CardinalityType
<1> QED
  BY <1>1, <1>2

-----------------------------------------------------------------------------
(* Induction.                                                              *)

(* Sets of naturals that hold with a number the next: all of them.         *)
LEMMA NumbersByStep ==
  ASSUME NEW P \in SUBSET Nat, 0 \in P, \A n \in P : n + 1 \in P
  PROVE  P = Nat
<1> DEFINE Bad == Nat \ P
<1>1. SUFFICES ASSUME Bad # {} PROVE FALSE
  OBVIOUS
<1>2. PICK n \in Bad : \A m \in Bad : ~(<<m, n>> \in OpToRel(<, Nat))
  <2>1. Bad \in SUBSET Nat
    OBVIOUS
  <2> HIDE DEF Bad
  <2> QED
    BY <1>1, <2>1, NatLessThanWellFounded, WFMin
<1>3. n \in Nat /\ n # 0 /\ n - 1 \in Nat /\ n - 1 < n /\ (n - 1) + 1 = n
  OBVIOUS
<1>4. n - 1 \notin Bad
  BY <1>2, <1>3 DEF OpToRel
<1> QED
  BY <1>3, <1>4

(* Sets of subsets of a finite set that hold with a subset those with one  *)
(* element more: all of them.                                              *)
LEMMA SetInduction ==
  ASSUME NEW S, IsFiniteSet(S), NEW Good \in SUBSET SUBSET S, {} \in Good,
         \A s \in Good, x \in S : x \notin s => s \cup {x} \in Good
  PROVE  S \in Good
<1> DEFINE P == {n \in Nat : \A s \in SUBSET S : Cardinality(s) = n => s \in Good}
<1>1. \A s \in SUBSET S : /\ IsFiniteSet(s) /\ Cardinality(s) \in Nat /\ (s = {} <=> Cardinality(s) = 0)
                          /\ \A y \in s : Cardinality(s \ {y}) = Cardinality(s) - 1
  <2> SUFFICES ASSUME NEW s \in SUBSET S
               PROVE  /\ IsFiniteSet(s) /\ Cardinality(s) \in Nat /\ (s = {} <=> Cardinality(s) = 0)
                      /\ \A y \in s : Cardinality(s \ {y}) = Cardinality(s) - 1
    OBVIOUS
  <2>1. IsFiniteSet(s)
    BY FS_Subset
  <2> QED
    BY <2>1, FS_CardinalityType, FS_EmptySet, FS_RemoveElement
<1>2. 0 \in P
  BY <1>1
<1>3. ASSUME NEW n \in P PROVE n + 1 \in P
  <2> SUFFICES ASSUME NEW s \in SUBSET S, Cardinality(s) = n + 1 PROVE s \in Good
    OBVIOUS
  <2>1. PICK x \in s : TRUE
    BY <1>1
  <2>2. s \ {x} \in SUBSET S /\ Cardinality(s \ {x}) = n
    BY <1>1
  <2>3. s \ {x} \in Good
    BY <2>2
  <2>4. (s \ {x}) \cup {x} \in Good
    BY <2>3
  <2>5. (s \ {x}) \cup {x} = s
    OBVIOUS
  <2> QED
    BY <2>4, <2>5
<1>4. P = Nat
  <2> HIDE DEF P
  <2>1. P \in SUBSET Nat
    BY DEF P
  <2> QED
    BY <1>2, <1>3, <2>1, NumbersByStep
<1> QED
  BY <1>1, <1>4

-----------------------------------------------------------------------------
(* Sums. A sum of a function over a finite set takes the elements in some  *)
(* order; that the order does not matter is shown by induction on the size *)
(* of the set, with the set of the sizes for which it holds as the         *)
(* invariant of the induction.                                             *)

(* A function that holds the sum of f over every part of S.                *)
Grown(f, S, g) == [s \in SUBSET S |-> IF s = {} THEN 0 ELSE LET x == CHOOSE x \in s : TRUE IN f[x] + g[s \ {x}]]

SumOver(f, S) == FoldFunctionOnSet(LAMBDA x, y : x + y, 0, f, S)

(* Such a function gives the sum, if there is one.                       *)
LEMMA Unfold ==
  ASSUME NEW f, NEW S, NEW g, g = Grown(f, S, g)
  PROVE  \E h : h = Grown(f, S, h) /\ SumOver(f, S) = h[S]
<1> DEFINE iter[s \in SUBSET S] == IF s = {} THEN 0 ELSE LET x == CHOOSE x \in s : TRUE IN f[x] + iter[s \ {x}]
           Is(h) == h = Grown(f, S, h)
<1>1. SumOver(f, S) = iter[S]
  BY Zenon DEF SumOver, FoldFunctionOnSet, MapThenFoldSet
<1>2. Is(iter)
  <2>1. iter = CHOOSE h : Is(h)
    BY Zenon DEF Grown
  <2>2. Is(g)
    OBVIOUS
  <2> HIDE DEF iter, Is
  <2> QED
    BY <2>1, <2>2, Zenon
<1> QED
  BY <1>1, <1>2, Zenon

(* There is one, by induction on the size of the parts.                    *)
Smaller(S, n) == {s \in SUBSET S : Cardinality(s) <= n}

LEMMA Grows ==
  ASSUME NEW f, NEW S, IsFiniteSet(S)
  PROVE  \E g : g = Grown(f, S, g)
<1> DEFINE x(s) == CHOOSE y \in s : TRUE
           To(n) == \E g : g = [s \in Smaller(S, n) |-> IF s = {} THEN 0 ELSE f[x(s)] + g[s \ {x(s)}]]
           Bad == {n \in Nat : ~To(n)}
<1>1. \A s \in SUBSET S : /\ IsFiniteSet(s) /\ Cardinality(s) \in Nat /\ (s = {} <=> Cardinality(s) = 0)
                          /\ s # {} => /\ x(s) \in s /\ s \ {x(s)} \in SUBSET S
                                       /\ Cardinality(s \ {x(s)}) = Cardinality(s) - 1
  <2> SUFFICES ASSUME NEW s \in SUBSET S
               PROVE  /\ IsFiniteSet(s) /\ Cardinality(s) \in Nat /\ (s = {} <=> Cardinality(s) = 0)
                      /\ s # {} => /\ x(s) \in s /\ s \ {x(s)} \in SUBSET S
                                   /\ Cardinality(s \ {x(s)}) = Cardinality(s) - 1
    OBVIOUS
  <2>1. IsFiniteSet(s)
    BY FS_Subset
  <2>2. s # {} => x(s) \in s
    OBVIOUS
  <2> HIDE DEF x
  <2> QED
    BY <2>1, <2>2, FS_CardinalityType, FS_EmptySet, FS_RemoveElement
<1> HIDE DEF x
<1>2. To(0)
  <2> DEFINE g == [s \in Smaller(S, 0) |-> 0]
  <2>1. \A s \in Smaller(S, 0) : s = {}
    <3> SUFFICES ASSUME NEW s \in Smaller(S, 0) PROVE s = {}
      OBVIOUS
    <3>1. s \in SUBSET S /\ Cardinality(s) <= 0
      BY DEF Smaller
    <3>2. Cardinality(s) \in Nat /\ (s = {} <=> Cardinality(s) = 0)
      BY <1>1, <3>1
    <3> QED
      BY <3>1, <3>2
  <2>2. g = [s \in Smaller(S, 0) |-> IF s = {} THEN 0 ELSE f[x(s)] + g[s \ {x(s)}]]
    BY <2>1
  <2> QED
    BY <2>2
<1>3. \A n \in Nat : To(n) => To(n + 1)
  <2> SUFFICES ASSUME NEW n \in Nat, To(n) PROVE To(n + 1)
    OBVIOUS
  <2>1. PICK g : g = [s \in Smaller(S, n) |-> IF s = {} THEN 0 ELSE f[x(s)] + g[s \ {x(s)}]]
    OBVIOUS
  <2> DEFINE h == [s \in Smaller(S, n + 1) |-> IF s = {} THEN 0 ELSE f[x(s)] + g[s \ {x(s)}]]
  <2>2. \A s \in Smaller(S, n) : s \in Smaller(S, n + 1) /\ h[s] = g[s]
    <3>1. \A s \in Smaller(S, n) : s \in Smaller(S, n + 1)
      <4> SUFFICES ASSUME NEW s \in Smaller(S, n) PROVE s \in Smaller(S, n + 1)
        OBVIOUS
      <4>1. s \in SUBSET S /\ Cardinality(s) <= n
        BY DEF Smaller
      <4>2. Cardinality(s) \in Nat
        BY <1>1, <4>1
      <4>3. Cardinality(s) <= n + 1
        BY <4>1, <4>2
      <4> QED
        BY <4>1, <4>3 DEF Smaller
    <3> QED
      BY <2>1, <3>1
  <2>3. \A s \in Smaller(S, n + 1) : s # {} => s \ {x(s)} \in Smaller(S, n)
    BY <1>1 DEF Smaller
  <2>4. \A s \in Smaller(S, n + 1) : s # {} => g[s \ {x(s)}] = h[s \ {x(s)}]
    <3> HIDE DEF h
    <3> QED
      BY <2>2, <2>3
  <2>5. h = [s \in Smaller(S, n + 1) |-> IF s = {} THEN 0 ELSE f[x(s)] + h[s \ {x(s)}]]
    <3>1. \A s \in Smaller(S, n + 1) : (IF s = {} THEN 0 ELSE f[x(s)] + g[s \ {x(s)}])
                                       = (IF s = {} THEN 0 ELSE f[x(s)] + h[s \ {x(s)}])
      <4> HIDE DEF h
      <4> QED
        BY <2>4
    <3>2. h = [s \in Smaller(S, n + 1) |-> IF s = {} THEN 0 ELSE f[x(s)] + g[s \ {x(s)}]]
      OBVIOUS
    <3> HIDE DEF h
    <3> QED
      BY <3>1, <3>2
  <2> HIDE DEF h
  <2> QED
    BY <2>5
<1>4. Bad = {}
  <2> HIDE DEF To
  <2> SUFFICES ASSUME Bad # {} PROVE FALSE
    OBVIOUS
  <2>1. PICK n \in Bad : \A m \in Bad : ~(<<m, n>> \in OpToRel(<, Nat))
    <3> HIDE DEF Bad
    <3>1. Bad \in SUBSET Nat
      BY DEF Bad
    <3> QED
      BY <3>1, NatLessThanWellFounded, WFMin
  <2>2. n \in Nat /\ ~To(n) /\ n # 0
    BY <1>2
  <2>3. n - 1 \in Nat /\ n - 1 < n /\ (n - 1) + 1 = n
    BY <2>2
  <2>4. n - 1 \notin Bad
    BY <2>1, <2>2, <2>3 DEF OpToRel
  <2>5. To(n - 1)
    BY <2>3, <2>4
  <2> QED
    BY <1>3, <2>2, <2>3, <2>5
<1>5. To(Cardinality(S))
  <2> HIDE DEF To
  <2> QED
    BY <1>1, <1>4
<1>6. Smaller(S, Cardinality(S)) = SUBSET S
  <2>1. \A s \in SUBSET S : Cardinality(s) <= Cardinality(S)
    BY FS_Subset
  <2> QED
    BY <2>1 DEF Smaller
<1>7. PICK g : g = [s \in SUBSET S |-> IF s = {} THEN 0 ELSE f[x(s)] + g[s \ {x(s)}]]
  BY <1>5, <1>6
<1>8. g = Grown(f, S, g)
  BY <1>7, Zenon DEF Grown, x
<1> QED
  BY <1>8

LEMMA SumSteps ==
  ASSUME NEW f, NEW S, IsFiniteSet(S)
  PROVE  \E h : h = Grown(f, S, h) /\ SumOver(f, S) = h[S]
<1>1. PICK g : g = Grown(f, S, g)
  BY Grows
<1> QED
  BY <1>1, Unfold

LEMMA SumOfNone == ASSUME NEW f PROVE SumOver(f, {}) = 0
<1>1. IsFiniteSet({})
  BY FS_EmptySet
<1>2. PICK h : h = Grown(f, {}, h) /\ SumOver(f, {}) = h[{}]
  BY <1>1, SumSteps
<1>3. h[{}] = 0
  BY <1>2, Zenon DEF Grown
<1> QED
  BY <1>2, <1>3

(* A sum takes its elements in some order. For h over a larger set too:    *)
(* what it sums of a part is the sum of that part.                         *)
LEMMA SumAgrees ==
  ASSUME NEW f, NEW S, IsFiniteSet(S), NEW g, g = Grown(f, S, g), NEW R \in SUBSET S
  PROVE  SumOver(f, R) = g[R]
<1>1. IsFiniteSet(R)
  BY FS_Subset
<1>2. PICK h : h = Grown(f, R, h) /\ SumOver(f, R) = h[R]
  BY <1>1, SumSteps
<1> DEFINE P == {n \in Nat : \A s \in SUBSET R : Cardinality(s) <= n => h[s] = g[s]}
<1>3. \A s \in SUBSET R : /\ IsFiniteSet(s) /\ Cardinality(s) \in Nat /\ (s = {} <=> Cardinality(s) = 0)
                          /\ \A y \in s : Cardinality(s \ {y}) = Cardinality(s) - 1
  <2> SUFFICES ASSUME NEW s \in SUBSET R
               PROVE  /\ IsFiniteSet(s) /\ Cardinality(s) \in Nat /\ (s = {} <=> Cardinality(s) = 0)
                      /\ \A y \in s : Cardinality(s \ {y}) = Cardinality(s) - 1
    OBVIOUS
  <2>1. IsFiniteSet(s)
    BY <1>1, FS_Subset
  <2> QED
    BY <2>1, FS_CardinalityType, FS_EmptySet, FS_RemoveElement
<1>4. h[{}] = 0 /\ g[{}] = 0
  BY <1>2, Zenon DEF Grown
<1> DEFINE x(s) == CHOOSE y \in s : TRUE
<1>5. \A s \in SUBSET R : s # {} => x(s) \in s
  OBVIOUS
<1>6. \A s \in SUBSET R : s # {} => h[s] = f[x(s)] + h[s \ {x(s)}] /\ g[s] = f[x(s)] + g[s \ {x(s)}]
  <2>1. \A s \in SUBSET R : s \in SUBSET S
    OBVIOUS
  <2> QED
    BY <1>2, <2>1, Zenon DEF Grown
<1> HIDE DEF x
<1>7. 0 \in P
  BY <1>3, <1>4
<1>8. ASSUME NEW n \in P PROVE n + 1 \in P
  <2> SUFFICES ASSUME NEW s \in SUBSET R, Cardinality(s) <= n + 1 PROVE h[s] = g[s]
    OBVIOUS
  <2>1. CASE s = {}
    BY <1>4, <2>1
  <2>2. CASE s # {}
    <3>1. s \ {x(s)} \in SUBSET R /\ Cardinality(s \ {x(s)}) <= n
      BY <1>3, <1>5, <2>2
    <3>2. h[s \ {x(s)}] = g[s \ {x(s)}]
      BY <3>1
    <3> QED
      BY <1>6, <2>2, <3>2
  <2> QED
    BY <2>1, <2>2
<1>9. P = Nat
  <2> HIDE DEF P
  <2>1. P \in SUBSET Nat
    BY DEF P
  <2> QED
    BY <1>7, <1>8, <2>1, NumbersByStep
<1>10. Cardinality(R) \in P
  BY <1>3, <1>9
<1>11. h[R] = g[R]
  BY <1>3, <1>10
<1> QED
  BY <1>2, <1>11

(* A sum is one of its terms and the sum of the others.                    *)
LEMMA SumTakes ==
  ASSUME NEW f, NEW S, IsFiniteSet(S), S # {}
  PROVE  \E x \in S : SumOver(f, S) = f[x] + SumOver(f, S \ {x})
<1>1. PICK g : g = Grown(f, S, g) /\ SumOver(f, S) = g[S]
  BY SumSteps
<1> DEFINE x == CHOOSE y \in S : TRUE
<1>2. x \in S
  OBVIOUS
<1>3. g[S] = f[x] + g[S \ {x}]
  <2>1. S \in SUBSET S
    OBVIOUS
  <2> QED
    BY <1>1, <2>1, Zenon DEF Grown
<1>4. SumOver(f, S \ {x}) = g[S \ {x}]
  <2> HIDE DEF x
  <2>1. S \ {x} \in SUBSET S
    OBVIOUS
  <2> QED
    BY <1>1, <2>1, SumAgrees
<1> HIDE DEF x
<1> QED
  BY <1>1, <1>2, <1>3, <1>4

(* A sum of whole numbers is one.                                          *)
LEMMA SumInt ==
  ASSUME NEW S, IsFiniteSet(S), NEW f, \A y \in S : f[y] \in Int
  PROVE  SumOver(f, S) \in Int
<1> DEFINE P == {n \in Nat : \A s \in SUBSET S : Cardinality(s) = n => SumOver(f, s) \in Int}
<1>1. \A s \in SUBSET S : /\ IsFiniteSet(s) /\ Cardinality(s) \in Nat /\ (s = {} <=> Cardinality(s) = 0)
                          /\ \A y \in s : Cardinality(s \ {y}) = Cardinality(s) - 1
  <2> SUFFICES ASSUME NEW s \in SUBSET S
               PROVE  /\ IsFiniteSet(s) /\ Cardinality(s) \in Nat /\ (s = {} <=> Cardinality(s) = 0)
                      /\ \A y \in s : Cardinality(s \ {y}) = Cardinality(s) - 1
    OBVIOUS
  <2>1. IsFiniteSet(s)
    BY FS_Subset
  <2> QED
    BY <2>1, FS_CardinalityType, FS_EmptySet, FS_RemoveElement
<1>2. 0 \in P
  <2>1. SumOver(f, {}) = 0
    BY SumOfNone
  <2>2. \A s \in SUBSET S : Cardinality(s) = 0 => s = {}
    BY <1>1
  <2>3. \A s \in SUBSET S : Cardinality(s) = 0 => SumOver(f, s) = 0
    BY <2>1, <2>2
  <2>4. \A s \in SUBSET S : Cardinality(s) = 0 => \A x \in s : FALSE
    BY <2>2
  <2> QED
    BY <2>3, <2>4
<1>3. ASSUME NEW n \in P PROVE n + 1 \in P
  <2> SUFFICES ASSUME NEW s \in SUBSET S, Cardinality(s) = n + 1 PROVE SumOver(f, s) \in Int
    OBVIOUS
  <2>1. IsFiniteSet(s) /\ s # {}
    BY <1>1
  <2>2. PICK c \in s : SumOver(f, s) = f[c] + SumOver(f, s \ {c})
    BY <2>1, SumTakes
  <2>3. s \ {c} \in SUBSET S /\ Cardinality(s \ {c}) = n /\ f[c] \in Int
    BY <1>1
  <2>4. SumOver(f, s \ {c}) \in Int
    BY <2>3
  <2> QED
    BY <2>2, <2>3, <2>4
<1>4. P = Nat
  <2> HIDE DEF P
  <2>1. P \in SUBSET Nat
    BY DEF P
  <2> QED
    BY <1>2, <1>3, <2>1, NumbersByStep
<1> QED
  BY <1>1, <1>4

(* Whichever term is taken.                                                *)
LEMMA SumPlus ==
  ASSUME NEW S, IsFiniteSet(S), NEW f, \A y \in S : f[y] \in Int
  PROVE  /\ SumOver(f, S) \in Int
         /\ \A x \in S : SumOver(f, S) = f[x] + SumOver(f, S \ {x})
<1> DEFINE P == {n \in Nat : \A s \in SUBSET S : Cardinality(s) = n =>
                  /\ SumOver(f, s) \in Int
                  /\ \A x \in s : SumOver(f, s) = f[x] + SumOver(f, s \ {x})}
<1>1. \A s \in SUBSET S : /\ IsFiniteSet(s) /\ Cardinality(s) \in Nat /\ (s = {} <=> Cardinality(s) = 0)
                          /\ \A y \in s : Cardinality(s \ {y}) = Cardinality(s) - 1
  <2> SUFFICES ASSUME NEW s \in SUBSET S
               PROVE  /\ IsFiniteSet(s) /\ Cardinality(s) \in Nat /\ (s = {} <=> Cardinality(s) = 0)
                      /\ \A y \in s : Cardinality(s \ {y}) = Cardinality(s) - 1
    OBVIOUS
  <2>1. IsFiniteSet(s)
    BY FS_Subset
  <2> QED
    BY <2>1, FS_CardinalityType, FS_EmptySet, FS_RemoveElement
<1>2. 0 \in P
  <2>1. SumOver(f, {}) = 0
    BY SumOfNone
  <2>2. \A s \in SUBSET S : Cardinality(s) = 0 => s = {}
    BY <1>1
  <2>3. \A s \in SUBSET S : Cardinality(s) = 0 => SumOver(f, s) = 0
    BY <2>1, <2>2
  <2>4. \A s \in SUBSET S : Cardinality(s) = 0 => \A x \in s : FALSE
    BY <2>2
  <2> QED
    BY <2>3, <2>4
<1>3. ASSUME NEW n \in P PROVE n + 1 \in P
  <2> SUFFICES ASSUME NEW s \in SUBSET S, Cardinality(s) = n + 1
               PROVE  /\ SumOver(f, s) \in Int
                      /\ \A x \in s : SumOver(f, s) = f[x] + SumOver(f, s \ {x})
    OBVIOUS
  <2>1. IsFiniteSet(s) /\ s # {}
    BY <1>1
  <2>2. PICK c \in s : SumOver(f, s) = f[c] + SumOver(f, s \ {c})
    BY <2>1, SumTakes
  <2>3. \A y \in s : /\ s \ {y} \in SUBSET S /\ Cardinality(s \ {y}) = n /\ f[y] \in Int
    BY <1>1
  <2>4. \A y \in s : /\ SumOver(f, s \ {y}) \in Int
                     /\ \A z \in s \ {y} : SumOver(f, s \ {y}) = f[z] + SumOver(f, (s \ {y}) \ {z})
    BY <2>3
  <2>5. SumOver(f, s) \in Int
    BY <2>2, <2>3, <2>4
  <2>6. ASSUME NEW x \in s, x # c PROVE SumOver(f, s) = f[x] + SumOver(f, s \ {x})
    <3>1. SumOver(f, s \ {c}) = f[x] + SumOver(f, (s \ {c}) \ {x})
      BY <2>4, <2>6
    <3>2. SumOver(f, s \ {x}) = f[c] + SumOver(f, (s \ {x}) \ {c})
      BY <2>4, <2>6
    <3>3. (s \ {x}) \ {c} = (s \ {c}) \ {x}
      OBVIOUS
    <3>4. SumOver(f, (s \ {c}) \ {x}) \in Int
      <4> DEFINE r == (s \ {c}) \ {x}
      <4>1. f[x] \in Int /\ SumOver(f, s \ {c}) \in Int
        BY <2>3, <2>4
      <4>2. r \in SUBSET S /\ IsFiniteSet(r) /\ \A y \in r : f[y] \in Int
        BY <1>1
      <4> QED
        BY <4>2, SumInt
    <3>5. f[c] \in Int /\ f[x] \in Int
      BY <2>3
    <3> QED
      BY ONLY <2>2, <3>1, <3>2, <3>3, <3>4, <3>5
  <2> QED
    BY <2>2, <2>5, <2>6
<1>4. P = Nat
  <2> HIDE DEF P
  <2>1. P \in SUBSET Nat
    BY DEF P
  <2> QED
    BY <1>2, <1>3, <2>1, NumbersByStep
<1> QED
  BY <1>1, <1>4

-----------------------------------------------------------------------------
(* Folds. A fold over a sequence passes through one value per element.      *)


(* A function of the parts of a finite set that is told for the empty part  *)
(* and, for another, from the part without one of its members: there is one.*)
Picks(pick, S) == \A s \in SUBSET S : s # {} => pick[s] \in s
FoldOf(g, S, base, F, pick) == \A s \in SUBSET S : g[s] = IF s = {} THEN base ELSE F[pick[s], g[s \ {pick[s]}]]

LEMMA Folding ==
  ASSUME NEW S, IsFiniteSet(S), NEW V, NEW base \in V, NEW pick, NEW F \in [S \X V -> V], Picks(pick, S)
  PROVE  \E g \in [SUBSET S -> V] : FoldOf(g, S, base, F, pick)
<1> DEFINE Upto(n) == {s \in SUBSET S : Cardinality(s) <= n}
           Of(g, s) == IF s = {} THEN base ELSE F[pick[s], g[s \ {pick[s]}]]
           To(n) == \E g \in [Upto(n) -> V] : \A s \in Upto(n) : g[s] = Of(g, s)
           P == {n \in Nat : To(n)}
<1>1. \A s \in SUBSET S : /\ IsFiniteSet(s) /\ Cardinality(s) \in Nat /\ (s = {} <=> Cardinality(s) = 0)
                          /\ s # {} => /\ pick[s] \in s /\ s \ {pick[s]} \in SUBSET S
                                       /\ Cardinality(s \ {pick[s]}) = Cardinality(s) - 1
  <2> SUFFICES ASSUME NEW s \in SUBSET S
               PROVE  /\ IsFiniteSet(s) /\ Cardinality(s) \in Nat /\ (s = {} <=> Cardinality(s) = 0)
                      /\ s # {} => /\ pick[s] \in s /\ s \ {pick[s]} \in SUBSET S
                                   /\ Cardinality(s \ {pick[s]}) = Cardinality(s) - 1
    OBVIOUS
  <2>1. IsFiniteSet(s)
    BY FS_Subset
  <2> QED
    BY <2>1, FS_CardinalityType, FS_EmptySet, FS_RemoveElement DEF Picks
<1>2. 0 \in P
  <2> DEFINE g == [s \in Upto(0) |-> base]
  <2>1. \A s \in Upto(0) : s = {}
    <3> SUFFICES ASSUME NEW s \in Upto(0) PROVE s = {}
      OBVIOUS
    <3>1. s \in SUBSET S /\ Cardinality(s) <= 0
      OBVIOUS
    <3>2. Cardinality(s) \in Nat /\ (s = {} <=> Cardinality(s) = 0)
      BY <1>1, <3>1
    <3> QED
      BY <3>1, <3>2
  <2>2. g \in [Upto(0) -> V] /\ \A s \in Upto(0) : g[s] = Of(g, s)
    BY <2>1
  <2> QED
    BY <2>2
<1>3. ASSUME NEW n \in Nat, To(n) PROVE To(n + 1)
  <2>1. PICK g \in [Upto(n) -> V] : \A s \in Upto(n) : g[s] = Of(g, s)
    BY <1>3
  <2> DEFINE h == [s \in Upto(n + 1) |-> Of(g, s)]
  <2> HIDE DEF P
  <2>2. \A s \in Upto(n) : s \in Upto(n + 1)
    <3> SUFFICES ASSUME NEW s \in Upto(n) PROVE s \in Upto(n + 1)
      OBVIOUS
    <3>1. s \in SUBSET S /\ Cardinality(s) <= n
      OBVIOUS
    <3>2. Cardinality(s) \in Nat
      BY <1>1, <3>1
    <3>3. Cardinality(s) <= n + 1
      BY ONLY n \in Nat, <3>1, <3>2
    <3> QED
      BY <3>1, <3>3
  <2>3. \A s \in Upto(n + 1) : s # {} => s \ {pick[s]} \in Upto(n) /\ pick[s] \in S
    <3> SUFFICES ASSUME NEW s \in Upto(n + 1), s # {} PROVE s \ {pick[s]} \in Upto(n) /\ pick[s] \in S
      OBVIOUS
    <3>1. s \in SUBSET S /\ Cardinality(s) <= n + 1
      OBVIOUS
    <3>2. /\ Cardinality(s) \in Nat /\ pick[s] \in s /\ s \ {pick[s]} \in SUBSET S
          /\ Cardinality(s \ {pick[s]}) = Cardinality(s) - 1
      BY <1>1, <3>1
    <3>3. Cardinality(s \ {pick[s]}) <= n
      BY ONLY n \in Nat, <3>1, <3>2
    <3> QED
      BY <3>1, <3>2, <3>3
  <2>4. h \in [Upto(n + 1) -> V]
    <3>1. \A s \in Upto(n + 1) : Of(g, s) \in V
      BY <2>1, <2>3
    <3> HIDE DEF Of, Upto
    <3> QED
      BY <3>1
  <2>5. \A s \in Upto(n) : h[s] = g[s]
    <3> HIDE DEF Of, Upto
    <3> QED
      BY <2>1, <2>2
  <2>6. \A s \in Upto(n + 1) : h[s] = Of(h, s)
    <3> SUFFICES ASSUME NEW s \in Upto(n + 1) PROVE h[s] = Of(h, s)
      OBVIOUS
    <3>1. h[s] = Of(g, s)
      <4> HIDE DEF Of, Upto
      <4> QED
        OBVIOUS
    <3>2. s # {} => h[s \ {pick[s]}] = g[s \ {pick[s]}]
      BY <2>3, <2>5
    <3> HIDE DEF h
    <3> QED
      BY <3>1, <3>2
  <2> HIDE DEF h, Of, Upto
  <2> QED
    BY <2>4, <2>6
<1>4. P = Nat
  <2> HIDE DEF To
  <2>1. P \in SUBSET Nat /\ \A n \in P : n + 1 \in P
    BY <1>3
  <2> HIDE DEF P
  <2> QED
    BY <1>2, <2>1, NumbersByStep
<1>5. To(Cardinality(S))
  <2> HIDE DEF To
  <2> QED
    BY <1>1, <1>4
<1>6. Upto(Cardinality(S)) = SUBSET S
  <2>1. \A s \in SUBSET S : Cardinality(s) <= Cardinality(S)
    BY FS_Subset
  <2> QED
    BY <2>1
<1> QED
  BY <1>5, <1>6 DEF FoldOf

(* The greatest of the first numbers is the last of them.                  *)
LEMMA LastOfFirst ==
  ASSUME NEW k \in Nat \ {0}
  PROVE  Max(1 .. k) = k /\ (1 .. k) \ {k} = 1 .. k - 1 /\ 1 .. k # {}
<1>1. 1 .. k \in SUBSET (1 .. k) /\ 1 .. k # {} /\ k \in 1 .. k
  OBVIOUS
<1>2. Max(1 .. k) \in 1 .. k /\ Max(1 .. k) >= k
  BY <1>1, GreatestOf
<1> QED
  BY <1>1, <1>2

(* The values a fold over a sequence passes through. h is what FoldLeft is *)
(* defined by, told for the parts of the domain; F is the folded operation *)
(* where its values stay in V.                                             *)
Folds(h, n, base, F, V) ==
  \A s \in SUBSET (1 .. n) :
    /\ s = {} => h[s] = base
    /\ s # {} /\ h[s \ {Max(s)}] \in V => h[s] = F[Max(s), h[s \ {Max(s)}]]

Passes(t, h, n, base, F, V) ==
  /\ t \in [0 .. n -> V] /\ t[0] = base /\ t[n] = h[1 .. n]
  /\ \A k \in 1 .. n : t[k] = F[k, t[k - 1]]

LEMMA PassesThrough ==
  ASSUME NEW n \in Nat, NEW V, NEW base \in V, NEW F \in [(1 .. n) \X V -> V], NEW h, Folds(h, n, base, F, V)
  PROVE  \E t : Passes(t, h, n, base, F, V)
<1> DEFINE P == {k \in Nat : k <= n => h[1 .. k] \in V}
           t == [k \in 0 .. n |-> h[1 .. k]]
<1>1. h[1 .. 0] = base
  <2>1. 1 .. 0 = {}
    OBVIOUS
  <2> QED
    BY <2>1 DEF Folds
<1>2. \A k \in 1 .. n : h[1 .. k - 1] \in V => h[1 .. k] = F[k, h[1 .. k - 1]]
  <2> SUFFICES ASSUME NEW k \in 1 .. n, h[1 .. k - 1] \in V PROVE h[1 .. k] = F[k, h[1 .. k - 1]]
    OBVIOUS
  <2>1. Max(1 .. k) = k /\ (1 .. k) \ {k} = 1 .. k - 1 /\ 1 .. k # {}
    <3>1. k \in Nat \ {0}
      OBVIOUS
    <3> QED
      BY ONLY <3>1, LastOfFirst
  <2>2. 1 .. k \in SUBSET (1 .. n)
    OBVIOUS
  <2> QED
    BY <2>1, <2>2 DEF Folds
<1>3. P = Nat
  <2>1. 0 \in P
    BY <1>1
  <2>2. ASSUME NEW k \in P PROVE k + 1 \in P
    <3>1. SUFFICES ASSUME k + 1 <= n PROVE h[1 .. k + 1] \in V
      OBVIOUS
    <3>2. k \in Nat /\ k + 1 \in 1 .. n /\ (k + 1) - 1 = k /\ h[1 .. k] \in V
      BY <3>1
    <3>3. h[1 .. k + 1] = F[k + 1, h[1 .. k]]
      BY <1>2, <3>2
    <3> QED
      BY <3>2, <3>3
  <2>3. P \in SUBSET Nat
    OBVIOUS
  <2> HIDE DEF P
  <2> QED
    BY <2>1, <2>2, <2>3, NumbersByStep
<1>4. \A k \in 0 .. n : h[1 .. k] \in V
  <2>1. \A k \in 0 .. n : k \in P /\ k <= n
    BY <1>3
  <2> QED
    BY <2>1
<1>5. t \in [0 .. n -> V] /\ t[0] = base /\ t[n] = h[1 .. n]
  BY <1>1, <1>4
<1>6. \A k \in 1 .. n : t[k] = F[k, t[k - 1]]
  <2> SUFFICES ASSUME NEW k \in 1 .. n PROVE t[k] = F[k, t[k - 1]]
    OBVIOUS
  <2>1. k \in 0 .. n /\ k - 1 \in 0 .. n
    OBVIOUS
  <2> QED
    BY <1>2, <1>4, <2>1
<1> HIDE DEF t
<1> QED
  BY <1>5, <1>6 DEF Passes

(* There is such an h for every operation that stays in V.                 *)
Folded(g, n, base, F) ==
  \A s \in SUBSET (1 .. n) : g[s] = IF s = {} THEN base ELSE F[Max(s), g[s \ {Max(s)}]]

LEMMA Foldable ==
  ASSUME NEW n \in Nat, NEW V, NEW base \in V, NEW F \in [(1 .. n) \X V -> V]
  PROVE  \E g \in [SUBSET (1 .. n) -> V] : Folded(g, n, base, F)
<1> DEFINE pick == [s \in SUBSET (1 .. n) |-> Max(s)]
<1>1. IsFiniteSet(1 .. n)
  BY FS_Interval
<1>2. \A s \in SUBSET (1 .. n) : s # {} => Max(s) \in s
  BY GreatestOf
<1>3. \A s \in SUBSET (1 .. n) : pick[s] = Max(s)
  OBVIOUS
<1> DEFINE S == 1 .. n
<1>4. IsFiniteSet(S) /\ F \in [S \X V -> V] /\ Picks(pick, S)
  BY <1>1, <1>2, <1>3 DEF Picks
<1> HIDE DEF pick, S
<1>5. PICK g \in [SUBSET S -> V] : FoldOf(g, S, base, F, pick)
  BY <1>4, Folding
<1> QED
  BY <1>3, <1>5 DEF S, FoldOf, Folded

(* Sums of functions that agree.                                           *)
LEMMA SumSame ==
  ASSUME NEW S, IsFiniteSet(S), NEW f, NEW h, \A y \in S : f[y] \in Int /\ h[y] = f[y]
  PROVE  SumOver(h, S) = SumOver(f, S)
<1> DEFINE Good == {s \in SUBSET S : SumOver(h, s) = SumOver(f, s)}
<1>1. {} \in Good
  BY SumOfNone
<1>2. ASSUME NEW s \in Good, NEW x \in S, x \notin s PROVE s \cup {x} \in Good
  <2> DEFINE u == s \cup {x}
  <2>1. u \in SUBSET S /\ u \ {x} = s /\ x \in u /\ SumOver(h, s) = SumOver(f, s)
    BY <1>2
  <2>2. IsFiniteSet(u) /\ (\A y \in u : f[y] \in Int) /\ (\A y \in u : h[y] \in Int) /\ h[x] = f[x]
    BY <2>1, FS_Subset
  <2> HIDE DEF u
  <2>3. SumOver(h, u) = h[x] + SumOver(h, u \ {x}) /\ SumOver(f, u) = f[x] + SumOver(f, u \ {x})
    BY <2>1, <2>2, SumPlus
  <2>4. SumOver(h, u) = SumOver(f, u)
    BY <2>1, <2>2, <2>3
  <2> QED
    BY <2>1, <2>4 DEF u
<1>3. Good \in SUBSET SUBSET S
  OBVIOUS
<1>4. S \in Good
  <2> HIDE DEF Good
  <2> QED
    BY <1>1, <1>2, <1>3, SetInduction
<1> QED
  BY <1>4

(* A sum when the value of one element changes, or the element is new.     *)
LEMMA SumWith ==
  ASSUME NEW S, IsFiniteSet(S), NEW x, NEW f, NEW h,
         \A y \in S : f[y] \in Int, h[x] \in Int, \A y \in S \ {x} : h[y] = f[y]
  PROVE  /\ SumOver(f, S) \in Int /\ SumOver(h, S \cup {x}) \in Int
         /\ SumOver(h, S \cup {x}) = SumOver(f, S) + h[x] - (IF x \in S THEN f[x] ELSE 0)
<1> DEFINE u == S \cup {x}
           r == S \ {x}
<1>1. /\ IsFiniteSet(u) /\ IsFiniteSet(r) /\ x \in u /\ u \ {x} = r
      /\ (\A y \in u : h[y] \in Int) /\ (\A y \in r : f[y] \in Int /\ h[y] = f[y])
  BY FS_AddElement, FS_RemoveElement
<1> HIDE DEF u, r
<1>2. SumOver(h, u) \in Int /\ SumOver(h, u) = h[x] + SumOver(h, u \ {x})
  BY <1>1, SumPlus
<1>3. SumOver(h, r) = SumOver(f, r) /\ SumOver(f, r) \in Int
  BY <1>1, SumSame, SumInt
<1>4. SumOver(f, S) \in Int /\ SumOver(f, S) = SumOver(f, r) + (IF x \in S THEN f[x] ELSE 0)
  <2>1. SumOver(f, S) \in Int /\ \A y \in S : SumOver(f, S) = f[y] + SumOver(f, S \ {y})
    BY SumPlus
  <2>2. CASE x \in S
    <3>1. SumOver(f, S) = f[x] + SumOver(f, r) /\ f[x] \in Int
      BY <2>1, <2>2 DEF r
    <3> QED
      BY <1>3, <2>1, <2>2, <3>1
  <2>3. CASE x \notin S
    <3>1. r = S
      BY <2>3 DEF r
    <3> QED
      BY <1>3, <2>1, <2>3, <3>1
  <2> QED
    BY <2>2, <2>3
<1>5. SumOver(h, u) = SumOver(f, S) + h[x] - (IF x \in S THEN f[x] ELSE 0)
  <2>1. SumOver(h, u) = h[x] + SumOver(f, r)
    BY <1>1, <1>2, <1>3
  <2>2. (IF x \in S THEN f[x] ELSE 0) \in Int
    OBVIOUS
  <2>3. PICK v : v = IF x \in S THEN f[x] ELSE 0
    OBVIOUS
  <2>4. v \in Int /\ SumOver(f, S) = SumOver(f, r) + v
    BY <1>4, <2>2, <2>3
  <2>5. SumOver(h, u) = SumOver(f, S) + h[x] - v
    BY <1>3, <2>1, <2>4
  <2> QED
    BY <2>3, <2>5
<1> QED
  BY <1>2, <1>4, <1>5 DEF u

(* A set as a sequence.                                                    *)
LEMMA SequenceOf ==
  ASSUME NEW S, IsFiniteSet(S), NEW s, s = SetToSeq(S)
  PROVE  s \in Seq(S) /\ IsInjective(s)
<1> DEFINE n == Cardinality(S)
<1>1. n \in Nat /\ ExistsBijection(1 .. n, S)
  BY FS_CardinalityType
<1>2. PICK f : f \in [1 .. n -> S] /\ \A i, j \in 1 .. n : f[i] = f[j] => i = j
  BY <1>1 DEF ExistsBijection, Bijection, Injection, IsInjective
<1>3. IsInjective(f)
  BY <1>2 DEF IsInjective
<1>4. s \in [1 .. n -> S] /\ IsInjective(s)
  BY <1>2, <1>3, Zenon DEF SetToSeq
<1> QED
  BY <1>1, <1>4
=============================================================================
