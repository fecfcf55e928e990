----------------------------- MODULE OrderFacts -----------------------------
(* What the proofs share: least and greatest numbers, and ranks.            *)
EXTENDS Ranks, FiniteSetsExt, TLAPS, FiniteSetTheorems, WellFoundedInduction

\* The least-number principle, which the code relies on wherever it takes
\* the first position, slot or descriptor that satisfies a test.
LEMMA LeastElement ==
  ASSUME NEW S \in SUBSET Nat, S # {}
  PROVE  /\ Min(S) \in S
         /\ \A k \in S : Min(S) <= k
<1> DEFINE T == {1 .. n : n \in S}
<1>1. T \subseteq FiniteSubsetsOf(Nat)
  BY FS_Interval DEF FiniteSubsetsOf
<1>2. T # {}
  OBVIOUS
<1> HIDE DEF T
<1>3. PICK u \in T : \A y \in T : ~ (<<y, u>> \in StrictSubsetOrdering(Nat))
  BY <1>1, <1>2, WFMin, FS_StrictSubsetOrderingWellFounded
<1>4. PICK m \in S : u = 1 .. m
  BY DEF T
<1>5. ASSUME NEW k \in S, k < m
      PROVE  FALSE
  <2>1. /\ 1 .. k \in T
        /\ 1 .. k \subseteq 1 .. m
        /\ m \in 1 .. m /\ m \notin 1 .. k
        /\ 1 .. k \in SUBSET Nat /\ 1 .. m \in SUBSET Nat
    BY <1>5 DEF T
  <2>2. QED
    BY <2>1, <1>3, <1>4, Zenon DEF StrictSubsetOrdering
<1>6. \A k \in S : m <= k
  BY <1>5
<1>7. QED
  BY <1>6 DEF Min

\* A bounded set has a greatest number.
LEMMA GreatestElement ==
  ASSUME NEW S \in SUBSET Nat, S # {}, NEW n \in Nat, \A s \in S : s <= n
  PROVE  /\ Max(S) \in S
         /\ \A k \in S : k <= Max(S)
<1> DEFINE bounds == {k \in Nat : \A s \in S : s <= k}
           m == Min(bounds)
<1>1. bounds \in SUBSET Nat /\ n \in bounds
  OBVIOUS
<1>2. /\ m \in Nat
      /\ \A s \in S : s <= m
      /\ \A k \in Nat : (\A s \in S : s <= k) => m <= k
  BY <1>1, LeastElement
<1> HIDE DEF m
<1>3. m \in S
  <2> SUFFICES ASSUME m \notin S PROVE FALSE
    OBVIOUS
  <2>1. \A s \in S : s \in Nat /\ s < m
    <3>1. \A s \in S : s \in Nat /\ s <= m /\ s # m
      BY <1>2
    <3>2. QED
      BY <3>1, <1>2
  <2>2. m - 1 \in Nat /\ \A s \in S : s <= m - 1
    <3>1. PICK s \in S : s \in Nat /\ s < m
      BY <2>1
    <3>2. QED
      BY <1>2, <2>1, <3>1
  <2>3. QED
    BY <1>2, <2>2
<1>4. QED
  BY <1>2, <1>3 DEF Max

-----------------------------------------------------------------------------
(* Ranks.                                                                   *)

\* A later slot has a higher rank.
LEMMA RankGrows ==
  ASSUME NEW S \in SUBSET Nat, IsFiniteSet(S), NEW s \in S, NEW t \in S, s < t
  PROVE  Rank(S, s) < Rank(S, t)
<1> DEFINE below(u) == {x \in S : x <= u}
<1>1. IsFiniteSet(below(t)) /\ below(s) \in SUBSET below(t)
  <2>1. below(t) \in SUBSET S
    OBVIOUS
  <2>2. \A x \in S : x <= s => x <= t
    <3>1. s \in Nat /\ t \in Nat /\ \A x \in S : x \in Nat
      OBVIOUS
    <3>2. QED
      BY <3>1
  <2>3. QED
    BY <2>1, <2>2, FS_Subset
<1>2. t \in below(t) /\ t \notin below(s)
  OBVIOUS
<1>3. /\ Cardinality(below(s)) \in Nat /\ Cardinality(below(t)) \in Nat
      /\ Cardinality(below(s)) <= Cardinality(below(t))
      /\ Cardinality(below(t)) = Cardinality(below(s)) => below(t) = below(s)
  BY <1>1, FS_Subset, FS_CardinalityType
<1>4. QED
  BY <1>2, <1>3 DEF Rank

\* Ranks number the slots from 1.
LEMMA RankRange ==
  ASSUME NEW S \in SUBSET Nat, IsFiniteSet(S), NEW s \in S
  PROVE  Rank(S, s) \in 1 .. Cardinality(S)
<1> DEFINE below == {x \in S : x <= s}
<1>1. /\ IsFiniteSet(below) /\ Cardinality(below) <= Cardinality(S)
      /\ Cardinality(below) \in Nat /\ Cardinality(S) \in Nat
  BY FS_Subset, FS_CardinalityType
<1>2. Cardinality(below) # 0
  BY <1>1, FS_EmptySet
<1>3. QED
  BY <1>1, <1>2 DEF Rank

\* Two slots have two ranks.
LEMMA RankUnique ==
  ASSUME NEW S \in SUBSET Nat, IsFiniteSet(S), NEW s \in S, NEW t \in S,
         Rank(S, s) = Rank(S, t)
  PROVE  s = t
<1>1. Rank(S, s) \in Nat /\ Rank(S, t) \in Nat
  BY RankRange
<1>2. ~ s < t /\ ~ t < s
  BY <1>1, RankGrows
<1>3. QED
  BY <1>2

\* There is an i-th slot, and it is the only one of that rank.
LEMMA NthExists ==
  ASSUME NEW S \in SUBSET Nat, IsFiniteSet(S), NEW i \in 1 .. Cardinality(S)
  PROVE  Nth(S, i) \in S /\ Rank(S, Nth(S, i)) = i
<1> DEFINE rank == [s \in S |-> Rank(S, s)]
           n == Cardinality(S)
<1>1. rank \in Injection(S, 1 .. n)
  BY RankRange, RankUnique DEF Injection, IsInjective
<1>2. IsFiniteSet(1 .. n) /\ Cardinality(1 .. n) = n
  BY FS_Interval, FS_CardinalityType
<1>3. rank \in Surjection(S, 1 .. n)
  BY <1>1, <1>2, FS_Injection
<1>4. \E s \in S : Rank(S, s) = i
  BY <1>3 DEF Surjection
<1>5. QED
  BY <1>4 DEF Nth

LEMMA NthOfRank ==
  ASSUME NEW S \in SUBSET Nat, IsFiniteSet(S), NEW s \in S
  PROVE  Nth(S, Rank(S, s)) = s
<1> DEFINE i == Rank(S, s)
           t == Nth(S, i)
<1>1. i \in 1 .. Cardinality(S)
  BY RankRange
<1> HIDE DEF i
<1>2. t \in S /\ Rank(S, t) = i
  BY <1>1, NthExists
<1> HIDE DEF t
<1>3. t = s
  BY <1>2, RankUnique DEF i
<1>4. QED
  BY <1>3 DEF i, t

\* A number beyond all of a set comes last, and leaves the others their places.
LEMMA NthOfLonger ==
  ASSUME NEW S \in SUBSET Nat, IsFiniteSet(S), NEW m \in Nat, \A s \in S : s < m
  PROVE  LET T == S \cup {m}
         IN  /\ Cardinality(T) = Cardinality(S) + 1
             /\ \A i \in 1 .. Cardinality(S) : Nth(T, i) = Nth(S, i)
             /\ Nth(T, Cardinality(T)) = m
<1> DEFINE T == S \cup {m}
<1>1. T \in SUBSET Nat /\ IsFiniteSet(T) /\ Cardinality(T) = Cardinality(S) + 1
  BY FS_AddElement
<1>2. ASSUME NEW s \in S
      PROVE  Rank(T, s) = Rank(S, s)
  <2>1. {t \in T : t <= s} = {t \in S : t <= s}
    OBVIOUS
  <2>2. QED
    BY <2>1 DEF Rank
<1>3. Rank(T, m) = Cardinality(T)
  <2>1. \A t \in T : t <= m
    <3>1. \A t \in T : t = m \/ (t \in Nat /\ t < m)
      OBVIOUS
    <3>2. QED
      BY <3>1
  <2>2. QED
    BY <2>1 DEF Rank
<1> HIDE DEF T
<1>4. ASSUME NEW i \in 1 .. Cardinality(S)
      PROVE  Nth(T, i) = Nth(S, i)
  <2>1. Nth(S, i) \in S /\ Rank(S, Nth(S, i)) = i
    BY NthExists
  <2>2. Nth(S, i) \in T /\ Rank(T, Nth(S, i)) = i
    BY <1>2, <2>1 DEF T
  <2>3. QED
    BY <1>1, <2>2, NthOfRank
<1>5. Nth(T, Cardinality(T)) = m
  <2>1. m \in T
    BY DEF T
  <2>2. QED
    BY <1>1, <1>3, <2>1, NthOfRank
<1>6. QED
  BY <1>1, <1>4, <1>5 DEF T

\* The last of a finite set is its greatest.
LEMMA GreatestOfFinite ==
  ASSUME NEW S \in SUBSET Nat, IsFiniteSet(S), S # {}
  PROVE  /\ Max(S) \in S
         /\ \A k \in S : k <= Max(S)
<1> DEFINE n == Cardinality(S)
           last == Nth(S, n)
<1>1. n \in Nat /\ n # 0
  BY FS_CardinalityType, FS_EmptySet
<1>2. n \in 1 .. n
  BY <1>1
<1>3. last \in S /\ Rank(S, last) = n
  BY <1>2, NthExists
<1>4. ASSUME NEW s \in S PROVE s <= last
  <2>1. Rank(S, s) \in 1 .. n
    BY RankRange
  <2> HIDE DEF last, n
  <2>2. ~ last < s
    BY <1>1, <1>3, <2>1, RankGrows
  <2>3. QED
    BY <1>3, <2>2
<1>5. last \in Nat
  BY <1>3
<1> HIDE DEF last
<1>6. QED
  BY <1>4, <1>5, GreatestElement

=============================================================================
