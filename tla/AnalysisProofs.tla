---------------------------- MODULE AnalysisProofs ----------------------------
(***************************************************************************)
(* Theorems about Analysis, for every set of experiments, all rows a run   *)
(* may report and all thresholds.                                          *)
(***************************************************************************)
EXTENDS Analysis, FiniteSetTheorems, TLAPS

-------------------------------------------------------------------------------
(* Finite sets of numbers.                                                  *)

LEMMA GreatestExists ==
  ASSUME NEW S \in SUBSET Int, IsFiniteSet(S), S # {}
  PROVE  \E x \in S : \A y \in S : x >= y
<1> DEFINE Above(x) == {y \in S : y > x}
           T == {Above(x) : x \in S}
<1>1. \E s \in T : \A t \in T : ~(<<t, s>> \in StrictSubsetOrdering(S))
  <2>1. IsWellFoundedOn(StrictSubsetOrdering(S), FiniteSubsetsOf(S))
    BY FS_StrictSubsetOrderingWellFounded
  <2>2. FiniteSubsetsOf(S) = SUBSET S
    BY FS_FiniteSubsetsOfFinite
  <2>3. T \subseteq SUBSET S
    OBVIOUS
  <2>4. T # {}
    <3>1. PICK x \in S : TRUE
      OBVIOUS
    <3>2. Above(x) \in T
      BY <3>1
    <3>3. QED
      BY <3>2
  <2>5. T \subseteq FiniteSubsetsOf(S)
    BY <2>2, <2>3
  <2> HIDE DEF T
  <2>6. QED
    BY <2>1, <2>4, <2>5, WFMin
<1>2. PICK x \in S : \A y \in S : ~(<<Above(y), Above(x)>> \in StrictSubsetOrdering(S))
  BY <1>1
<1>3. SUFFICES ASSUME NEW y \in S, ~(x >= y) PROVE FALSE
  OBVIOUS
<1>4. x \in Int /\ y \in Int /\ y > x
  BY <1>3
<1>5. ASSUME NEW z \in Above(y) PROVE z \in Above(x)
  <2>1. z \in S /\ z \in Int /\ z > y
    OBVIOUS
  <2>2. QED
    BY <1>4, <2>1
<1>6. y \in Above(x) /\ y \notin Above(y)
  BY <1>4
<1>7. <<Above(y), Above(x)>> \in StrictSubsetOrdering(S)
  BY <1>5, <1>6 DEF StrictSubsetOrdering
<1>8. QED
  BY <1>2, <1>7

LEMMA LeastExists ==
  ASSUME NEW S \in SUBSET Int, IsFiniteSet(S), S # {}
  PROVE  \E x \in S : \A y \in S : x <= y
<1> DEFINE minus == [x \in S |-> -x]
           M == {-x : x \in S}
<1>1. minus \in Surjection(S, M)
  BY DEF Surjection
<1>2. IsFiniteSet(M)
  BY <1>1, FS_Surjection
<1>3. PICK m \in M : \A y \in M : m >= y
  <2>1. M \subseteq Int
    OBVIOUS
  <2>2. M # {}
    OBVIOUS
  <2> HIDE DEF M
  <2>3. QED
    BY <1>2, <2>1, <2>2, GreatestExists
<1>4. -m \in S /\ \A y \in S : -m <= y
  BY <1>3
<1>5. QED
  BY <1>4

LEMMA MaxOf ==
  ASSUME NEW S \in SUBSET Int, IsFiniteSet(S), S # {}
  PROVE  Max(S) \in S /\ \A y \in S : Max(S) >= y
BY GreatestExists DEF Max

LEMMA MinOf ==
  ASSUME NEW S \in SUBSET Int, IsFiniteSet(S), S # {}
  PROVE  Min(S) \in S /\ \A y \in S : Min(S) <= y
BY LeastExists DEF Min

\* What a function takes on a finite set is finite.
LEMMA FiniteRange ==
  ASSUME NEW S, IsFiniteSet(S), NEW T, NEW f \in [S -> T]
  PROVE  IsFiniteSet(Range(f)) /\ Range(f) \subseteq T /\ \A x \in S : f[x] \in Range(f)
<1>1. Range(f) = {f[x] : x \in S}
  BY DEF Range
<1>2. f \in Surjection(S, Range(f))
  BY <1>1 DEF Surjection
<1>3. QED
  BY <1>1, <1>2, FS_Surjection

-------------------------------------------------------------------------------
(* The median.                                                              *)

Below(v, x) == {i \in DOMAIN v : v[i] < x}
AtMost(v, x) == {i \in DOMAIN v : v[i] <= x}

\* The k-th smallest value exists.
LEMMA SmallestIs ==
  ASSUME NEW S, IsFiniteSet(S), NEW v \in [S -> Int], NEW k \in 1..Cardinality(S)
  PROVE  /\ Smallest(v, k) \in Range(v) /\ Smallest(v, k) \in Int
         /\ Cardinality(Below(v, Smallest(v, k))) < k
         /\ Cardinality(AtMost(v, Smallest(v, k))) >= k
<1> DEFINE R == Range(v)
           C == {x \in R : Cardinality(AtMost(v, x)) >= k}
<1>1. Cardinality(S) \in Nat /\ S # {}
  BY FS_CardinalityType, FS_EmptySet
<1>2. IsFiniteSet(R) /\ R \subseteq Int /\ R = {v[i] : i \in S} /\ R # {}
  BY <1>1, FiniteRange DEF Range
<1>3. C # {}
  <2>1. PICK x \in R : \A y \in R : x >= y
    BY <1>2, GreatestExists
  <2>2. AtMost(v, x) = S
    BY <1>2, <2>1 DEF AtMost
  <2>3. QED
    BY <1>1, <2>2
<1>4. IsFiniteSet(C) /\ C \subseteq Int
  BY <1>2, FS_Subset
<1>5. PICK x \in C : \A y \in C : x <= y
  BY <1>3, <1>4, LeastExists
<1>6. IsFiniteSet(Below(v, x)) /\ Cardinality(Below(v, x)) \in Nat
  BY FS_Subset, FS_CardinalityType DEF Below
<1>7. Cardinality(Below(v, x)) < k
  <2>1. SUFFICES ASSUME Cardinality(Below(v, x)) >= k PROVE FALSE
    BY <1>6
  <2> DEFINE B == {v[i] : i \in Below(v, x)}
  <2>2. Below(v, x) # {}
    BY <1>6, <2>1, FS_EmptySet
  <2>3. B \in SUBSET R /\ B # {}
    BY <1>2, <2>2 DEF Below
  <2>4. IsFiniteSet(B) /\ B \subseteq Int
    BY <1>2, <2>3, FS_Subset
  <2> HIDE DEF B
  <2>5. PICK y \in B : \A z \in B : y >= z
    BY <2>3, <2>4, GreatestExists
  <2>6. y \in R /\ y < x /\ y \in Int
    BY <1>2, <2>3, <2>5 DEF Below, B
  <2>7. Below(v, x) \in SUBSET AtMost(v, y)
    BY <2>5 DEF Below, AtMost, B
  <2>8. AtMost(v, y) \in SUBSET S /\ IsFiniteSet(AtMost(v, y)) /\ Cardinality(AtMost(v, y)) \in Nat
    BY FS_Subset, FS_CardinalityType DEF AtMost
  <2>9. Cardinality(Below(v, x)) <= Cardinality(AtMost(v, y))
    BY <2>7, <2>8, FS_Subset
  <2>10. y \in C
    BY <1>6, <2>1, <2>6, <2>8, <2>9
  <2>11. QED
    BY <1>4, <1>5, <2>6, <2>10
<1>8. \E y \in Range(v) : /\ Cardinality({i \in DOMAIN v : v[i] < y}) < k
                          /\ Cardinality({i \in DOMAIN v : v[i] <= y}) >= k
  BY <1>5, <1>7 DEF Below, AtMost
<1>9. QED
  BY <1>2, <1>8 DEF Smallest, Below, AtMost

\* Two functions with as many values: in some place the one is at most, and the
\* other at least, its own k-th smallest.
LEMMA SmallestWitness ==
  ASSUME NEW S, IsFiniteSet(S), NEW v \in [S -> Int],
         NEW T, IsFiniteSet(T), NEW w \in [T -> Int],
         NEW pi \in Injection(T, S), NEW k \in 1..Cardinality(S), k <= Cardinality(T)
  PROVE  \E j \in T : w[j] <= Smallest(w, k) /\ v[pi[j]] >= Smallest(v, k)
<1> DEFINE x == Smallest(v, k)
           y == Smallest(w, k)
<1>1. Cardinality(S) \in Nat /\ Cardinality(T) \in Nat
  BY FS_CardinalityType
<1>2. k \in 1..Cardinality(T) /\ k \in Nat
  BY <1>1
<1>3. x \in Int /\ Cardinality(Below(v, x)) < k
  BY SmallestIs
<1>4. y \in Int /\ Cardinality(AtMost(w, y)) >= k
  BY <1>2, SmallestIs
<1>5. /\ IsFiniteSet(Below(v, x)) /\ Cardinality(Below(v, x)) \in Nat
      /\ IsFiniteSet(AtMost(w, y)) /\ Cardinality(AtMost(w, y)) \in Nat
  BY FS_Subset, FS_CardinalityType DEF Below, AtMost
<1> HIDE DEF x, y
<1>6. SUFFICES ASSUME \A j \in T : ~(w[j] <= y /\ v[pi[j]] >= x) PROVE FALSE
  BY DEF x, y
<1> DEFINE f == [j \in AtMost(w, y) |-> pi[j]]
<1>7. pi \in [T -> S] /\ \A i, j \in T : pi[i] = pi[j] => i = j
  BY DEF Injection, IsInjective
<1>8. ASSUME NEW j \in AtMost(w, y) PROVE j \in T /\ pi[j] \in Below(v, x)
  <2>1. j \in T /\ w[j] <= y
    BY DEF AtMost
  <2>2. pi[j] \in S /\ v[pi[j]] \in Int /\ ~(v[pi[j]] >= x)
    BY <1>6, <1>7, <2>1
  <2>3. QED
    BY <1>3, <2>1, <2>2 DEF Below
<1>9. f \in Injection(AtMost(w, y), Below(v, x))
  BY <1>7, <1>8 DEF Injection, IsInjective
<1>10. Cardinality(AtMost(w, y)) <= Cardinality(Below(v, x))
  BY <1>5, <1>9, FS_Injection
<1>11. QED
  BY <1>2, <1>3, <1>4, <1>5, <1>10

\* The ranks of the two middle values.
LEMMA Ranks ==
  ASSUME NEW n \in Nat \ {0}
  PROVE  (n + 1) \div 2 \in 1..n /\ (n + 2) \div 2 \in 1..n /\ (n + 1) \div 2 <= (n + 2) \div 2
OBVIOUS

LEMMA MedianOf ==
  ASSUME NEW S, IsFiniteSet(S), S # {}, NEW v \in [S -> Int]
  PROVE  \E k, l \in 1..Cardinality(S) :
           /\ k = (Cardinality(S) + 1) \div 2 /\ l = (Cardinality(S) + 2) \div 2
           /\ TwiceMedian(v) = Smallest(v, k) + Smallest(v, l)
<1>1. Cardinality(S) \in Nat /\ Cardinality(S) # 0
  BY FS_CardinalityType, FS_EmptySet
<1>2. DOMAIN v = S
  OBVIOUS
<1>3. QED
  BY <1>1, <1>2, Ranks DEF TwiceMedian

\* No values have no median.
LEMMA MedianOfNone ==
  ASSUME NEW v, DOMAIN v = {}
  PROVE  TwiceMedian(v) = None
BY FS_EmptySet DEF TwiceMedian

\* The doubled median is the sum of two of the values.
LEMMA MedianAttained ==
  ASSUME NEW S, IsFiniteSet(S), S # {}, NEW v \in [S -> Int]
  PROVE  \E i, j \in S : TwiceMedian(v) = v[i] + v[j]
<1>1. PICK k, l \in 1..Cardinality(S) : TwiceMedian(v) = Smallest(v, k) + Smallest(v, l)
  BY MedianOf
<1>2. Smallest(v, k) \in Range(v) /\ Smallest(v, l) \in Range(v)
  BY SmallestIs
<1>3. QED
  BY <1>1, <1>2 DEF Range

\* Two functions on the same set: in some two places the one is at most, and the
\* other at least, its own median.
LEMMA MedianWitness ==
  ASSUME NEW S, IsFiniteSet(S), S # {}, NEW v \in [S -> Int], NEW w \in [S -> Int]
  PROVE  \E i, j \in S : w[i] + w[j] <= TwiceMedian(w) /\ v[i] + v[j] >= TwiceMedian(v)
<1> DEFINE same == [i \in S |-> i]
<1>1. same \in Injection(S, S)
  BY DEF Injection, IsInjective
<1>2. PICK k, l \in 1..Cardinality(S) :
        /\ k = (Cardinality(S) + 1) \div 2 /\ l = (Cardinality(S) + 2) \div 2
        /\ TwiceMedian(v) = Smallest(v, k) + Smallest(v, l)
  BY MedianOf
<1>3. TwiceMedian(w) = Smallest(w, k) + Smallest(w, l)
  BY <1>2, MedianOf
<1>4. Cardinality(S) \in Nat /\ k <= Cardinality(S) /\ l <= Cardinality(S)
  BY FS_CardinalityType
<1>5. PICK i \in S : w[i] <= Smallest(w, k) /\ v[same[i]] >= Smallest(v, k)
  BY <1>1, <1>4, SmallestWitness
<1>6. PICK j \in S : w[j] <= Smallest(w, l) /\ v[same[j]] >= Smallest(v, l)
  BY <1>1, <1>4, SmallestWitness
<1>7. /\ Smallest(w, k) \in Int /\ Smallest(v, k) \in Int
      /\ Smallest(w, l) \in Int /\ Smallest(v, l) \in Int
  BY SmallestIs
<1>8. /\ w[i] \in Int /\ w[j] \in Int /\ v[i] \in Int /\ v[j] \in Int
      /\ same[i] = i /\ same[j] = j
  OBVIOUS
<1>9. w[i] + w[j] <= TwiceMedian(w) /\ v[i] + v[j] >= TwiceMedian(v)
  BY <1>2, <1>3, <1>5, <1>6, <1>7, <1>8
<1>10. QED
  BY <1>9

\* A median does not depend on where the values are.
LEMMA MedianReindexed ==
  ASSUME NEW S, IsFiniteSet(S), NEW v \in [S -> Int],
         NEW T, NEW pi \in Bijection(T, S)
  PROVE  TwiceMedian([j \in T |-> v[pi[j]]]) = TwiceMedian(v)
<1> DEFINE u == [j \in T |-> v[pi[j]]]
           back == [i \in S |-> CHOOSE j \in T : pi[j] = i]
<1>1. /\ pi \in [T -> S] /\ \A i, j \in T : pi[i] = pi[j] => i = j
      /\ \A i \in S : \E j \in T : pi[j] = i
      /\ pi \in Injection(T, S)
  BY DEF Bijection, Injection, Surjection, IsInjective
<1>2. IsFiniteSet(T) /\ Cardinality(T) <= Cardinality(S)
  BY <1>1, FS_Injection
<1>3. \A i \in S : back[i] \in T /\ pi[back[i]] = i
  BY <1>1
<1>4. back \in Injection(S, T)
  BY <1>3 DEF Injection, IsInjective
<1>5. Cardinality(S) <= Cardinality(T)
  BY <1>2, <1>4, FS_Injection
<1>6. Cardinality(S) \in Nat /\ Cardinality(T) = Cardinality(S)
  BY <1>2, <1>5, FS_CardinalityType
<1>7. u \in [T -> Int]
  BY <1>1
<1>8. ASSUME NEW k \in 1..Cardinality(S) PROVE Smallest(u, k) = Smallest(v, k)
  <2>1. k \in Nat /\ k <= Cardinality(S) /\ k <= Cardinality(T) /\ k \in 1..Cardinality(T)
    BY <1>6
  <2>2. Smallest(u, k) \in Int /\ Smallest(v, k) \in Int
    BY <1>2, <1>7, <2>1, SmallestIs
  <2> HIDE DEF u, back
  <2>3. PICK j \in T : u[j] <= Smallest(u, k) /\ v[pi[j]] >= Smallest(v, k)
    BY <1>1, <1>2, <1>7, <2>1, SmallestWitness
  <2>4. PICK i \in S : v[i] <= Smallest(v, k) /\ u[back[i]] >= Smallest(u, k)
    BY <1>2, <1>4, <1>7, <2>1, SmallestWitness
  <2>5. u[j] = v[pi[j]] /\ u[back[i]] = v[i] /\ u[j] \in Int /\ v[i] \in Int
    BY <1>3, <1>7 DEF u
  <2>6. QED
    BY <2>2, <2>3, <2>4, <2>5
<1>9. CASE S = {}
  <2>1. T = {}
    BY <1>1, <1>9
  <2>2. DOMAIN u = {} /\ DOMAIN v = {}
    BY <1>9, <2>1
  <2>3. QED
    BY <2>2, MedianOfNone
<1>10. CASE S # {}
  <2>1. T # {}
    BY <1>1, <1>10
  <2> HIDE DEF u
  <2>2. PICK k, l \in 1..Cardinality(S) :
          /\ k = (Cardinality(S) + 1) \div 2 /\ l = (Cardinality(S) + 2) \div 2
          /\ TwiceMedian(v) = Smallest(v, k) + Smallest(v, l)
    BY <1>10, MedianOf
  <2>3. TwiceMedian(u) = Smallest(u, k) + Smallest(u, l)
    BY <1>2, <1>6, <1>7, <2>1, <2>2, MedianOf
  <2>4. QED
    BY <1>8, <2>2, <2>3 DEF u
<1>11. QED
  BY <1>9, <1>10

\* At least half of the values reach the upper of the two middle ones.
LEMMA UpperHalf ==
  ASSUME NEW S, IsFiniteSet(S), S # {}, NEW v \in [S -> Int]
  PROVE  \E x \in Int : /\ 2 * x >= TwiceMedian(v)
                        /\ 2 * Cardinality({i \in S : v[i] >= x}) >= Cardinality(S)
<1>1. PICK k, l \in 1..Cardinality(S) :
        /\ k = (Cardinality(S) + 1) \div 2 /\ l = (Cardinality(S) + 2) \div 2
        /\ TwiceMedian(v) = Smallest(v, k) + Smallest(v, l)
  BY MedianOf
<1> DEFINE x == Smallest(v, l)
           low == Below(v, x)
           high == {i \in S : v[i] >= x}
<1>2. x \in Int /\ Cardinality(low) < l /\ Cardinality(AtMost(v, x)) >= l
  BY SmallestIs
<1>3. Smallest(v, k) \in Int /\ Cardinality(Below(v, Smallest(v, k))) < k
  BY SmallestIs
<1>4. Cardinality(S) \in Nat /\ k <= l
  BY <1>1, FS_CardinalityType
<1>5. Smallest(v, k) <= x
  <2> HIDE DEF x
  <2>1. SUFFICES ASSUME Smallest(v, k) > x PROVE FALSE
    BY <1>2, <1>3
  <2>2. AtMost(v, x) \in SUBSET Below(v, Smallest(v, k))
    BY <1>2, <1>3, <2>1 DEF AtMost, Below
  <2>3. /\ IsFiniteSet(Below(v, Smallest(v, k)))
        /\ Cardinality(Below(v, Smallest(v, k))) \in Nat
        /\ Cardinality(AtMost(v, x)) \in Nat
    BY FS_Subset, FS_CardinalityType DEF Below, AtMost
  <2>4. Cardinality(AtMost(v, x)) <= Cardinality(Below(v, Smallest(v, k)))
    BY <2>2, <2>3, FS_Subset
  <2>5. QED
    BY <1>2, <1>3, <1>4, <2>3, <2>4
<1> HIDE DEF x
<1>6. IsFiniteSet(low) /\ IsFiniteSet(high) /\ S = low \cup high
  <2>1. low \in SUBSET S /\ high \in SUBSET S
    BY DEF Below
  <2>2. S \subseteq low \cup high
    BY <1>2 DEF Below
  <2>3. QED
    BY <2>1, <2>2, FS_Subset
<1>7. low \cap high = {}
  BY <1>2 DEF Below
<1> HIDE DEF low, high
<1>8. Cardinality(S) = Cardinality(low) + Cardinality(high) - Cardinality(low \cap high)
  BY <1>6, FS_Union
<1>9. Cardinality(low) \in Nat /\ Cardinality(high) \in Nat /\ Cardinality(low \cap high) = 0
  BY <1>6, <1>7, FS_CardinalityType, FS_EmptySet
<1>10. 2 * Cardinality(high) >= Cardinality(S)
  BY <1>1, <1>2, <1>4, <1>8, <1>9
<1>11. 2 * x >= TwiceMedian(v)
  BY <1>1, <1>2, <1>3, <1>5 DEF x
<1>12. QED
  BY <1>2, <1>10, <1>11 DEF high

-------------------------------------------------------------------------------
(* What is read out of one row.                                             *)

Names == {"tps", "hit"} \cup DOMAIN TwiceEvidence

LEMMA EvidenceNames == DOMAIN TwiceEvidence = {"free", "compressor", "swap", "pressure", "native"}
BY DEF TwiceEvidence

LEMMA Memory ==
  ASSUME NEW r \in Row
  PROVE  LET memory == r.seen.memory
         IN /\ r.seen \in Observations
            /\ IsFiniteSet(DOMAIN memory) /\ memory \in [DOMAIN memory -> Snapshots]
            /\ 1 \in DOMAIN memory /\ Len(memory) \in DOMAIN memory
            /\ r.seen.tps \in Maybe /\ r.seen.hit \in Maybe /\ r.seen.native \in {0, 1}
            /\ r.seen.tps > 0 => Scale % r.seen.tps = 0
<1> DEFINE memory == r.seen.memory
<1>1. r.seen \in Observations
  BY DEF Row
<1>2. memory \in Seq(Snapshots) /\ Len(memory) >= 2
  BY <1>1, ObservationsAssumption
<1>3. /\ r.seen.tps \in Maybe /\ r.seen.hit \in Maybe /\ r.seen.native \in {0, 1}
      /\ r.seen.tps > 0 => Scale % r.seen.tps = 0
  BY <1>1, ObservationsAssumption
<1> HIDE DEF memory
<1>4. DOMAIN memory = 1..Len(memory) /\ Len(memory) \in Nat
  BY <1>2
<1>5. IsFiniteSet(DOMAIN memory)
  BY <1>4, FS_Interval
<1>6. memory \in [DOMAIN memory -> Snapshots]
  BY <1>2
<1>7. 1 \in DOMAIN memory /\ Len(memory) \in DOMAIN memory
  BY <1>2, <1>4
<1>8. QED
  BY <1>1, <1>3, <1>5, <1>6, <1>7 DEF memory

\* Peaks are never below the start.
LEMMA PeakType ==
  ASSUME NEW r \in Row, NEW field \in {"compressor", "swap"}
  PROVE  /\ PeakGrowth(r, field) \in Nat
         /\ \A i \in DOMAIN r.seen.memory :
              PeakGrowth(r, field) >= r.seen.memory[i][field] - r.seen.memory[1][field]
         /\ \E i \in DOMAIN r.seen.memory :
              PeakGrowth(r, field) = r.seen.memory[i][field] - r.seen.memory[1][field]
<1> DEFINE memory == r.seen.memory
           value == [i \in DOMAIN memory |-> memory[i][field]]
           V == {m[field] : m \in Range(memory)}
<1>1. IsFiniteSet(DOMAIN memory) /\ memory \in [DOMAIN memory -> Snapshots] /\ 1 \in DOMAIN memory
  BY Memory
<1>2. \A i \in DOMAIN memory : memory[i][field] \in Nat
  BY <1>1 DEF Snapshots
<1>3. value \in [DOMAIN memory -> Nat]
  BY <1>2
<1>4. Range(value) = V
  BY DEF Range
<1>5. IsFiniteSet(V) /\ V \subseteq Nat /\ \A i \in DOMAIN memory : memory[i][field] \in V
  <2>1. \A i \in DOMAIN memory : value[i] = memory[i][field]
    OBVIOUS
  <2> HIDE DEF memory, value, V
  <2>2. QED
    BY <1>1, <1>3, <1>4, <2>1, FiniteRange
<1> HIDE DEF V
<1>6. Max(V) \in V /\ \A y \in V : Max(V) >= y
  BY <1>1, <1>5, MaxOf
<1>7. PeakGrowth(r, field) = Max(V) - memory[1][field]
  BY DEF PeakGrowth, V
<1>8. \E i \in DOMAIN memory : Max(V) = memory[i][field]
  BY <1>6 DEF V, Range
<1>9. Max(V) \in Nat /\ memory[1][field] \in Nat
  BY <1>1, <1>2, <1>8
<1> HIDE DEF memory
<1>10. /\ PeakGrowth(r, field) \in Nat
       /\ \A i \in DOMAIN memory : PeakGrowth(r, field) >= memory[i][field] - memory[1][field]
       /\ \E i \in DOMAIN memory : PeakGrowth(r, field) = memory[i][field] - memory[1][field]
  BY <1>1, <1>2, <1>5, <1>6, <1>7, <1>8, <1>9
<1>11. QED
  BY <1>10 DEF memory

LEMMA MinimumFreeType ==
  ASSUME NEW r \in Row
  PROVE  /\ MinimumFree(r) \in Maybe
         /\ (\E i \in DOMAIN r.seen.memory : r.seen.memory[i].free # None) => MinimumFree(r) # None
<1> DEFINE memory == r.seen.memory
           value == [i \in DOMAIN memory |-> memory[i].free]
           free == {m.free : m \in Range(memory)} \ {None}
<1>1. IsFiniteSet(DOMAIN memory) /\ memory \in [DOMAIN memory -> Snapshots]
  BY Memory
<1>2. value \in [DOMAIN memory -> Maybe]
  BY <1>1 DEF Snapshots
<1>3. IsFiniteSet(Range(value)) /\ Range(value) \subseteq Maybe
  <2> HIDE DEF memory, value
  <2>1. QED
    BY <1>1, <1>2, FiniteRange
<1>4. free = Range(value) \ {None}
  BY DEF Range
<1>5. IsFiniteSet(free) /\ free \subseteq Nat
  BY <1>3, <1>4, FS_Subset DEF Maybe
<1>6. (\E i \in DOMAIN memory : memory[i].free # None) => free # {}
  BY <1>4 DEF Range
<1>7. MinimumFree(r) = IF free = {} THEN None ELSE Min(free)
  BY DEF MinimumFree
<1> HIDE DEF free
<1>8. free # {} => Min(free) \in Nat
  <2>1. free \in SUBSET Int
    BY <1>5
  <2>2. QED
    BY <1>5, <2>1, MinOf
<1> HIDE DEF memory
<1>9. /\ MinimumFree(r) \in Maybe
      /\ (\E i \in DOMAIN memory : memory[i].free # None) => MinimumFree(r) # None
  BY <1>6, <1>7, <1>8 DEF Maybe, None
<1>10. QED
  BY <1>9 DEF memory

LEMMA MeasureIs ==
  ASSUME NEW r
  PROVE  /\ Measure(r, "tps") = r.seen.tps /\ Measure(r, "hit") = r.seen.hit
         /\ Measure(r, "native") = r.seen.native /\ Measure(r, "free") = MinimumFree(r)
         /\ Measure(r, "pressure") = PressureScore(r)
         /\ Measure(r, "swap") = PeakGrowth(r, "swap")
         /\ Measure(r, "compressor") = PeakGrowth(r, "compressor")
BY DEF Measure

LEMMA MeasureType ==
  ASSUME NEW r \in Row, NEW name \in Names
  PROVE  Measure(r, name) \in Maybe
<1>1. PressureScore(r) \in Maybe
  BY MinimumFreeType DEF PressureScore, PressureLevel, Maybe, None
<1>2. PeakGrowth(r, "swap") \in Nat /\ PeakGrowth(r, "compressor") \in Nat
  BY PeakType
<1>3. QED
  BY <1>1, <1>2, Memory, MinimumFreeType, MeasureIs, EvidenceNames DEF Names, Maybe

\* Admission covers the throughput and all evidence of pressure.
LEMMA AdmittedMeasures ==
  ASSUME NEW r \in Row, Admissible(r)
  PROVE  /\ r.seen.tps \in Nat \ {0}
         /\ \A name \in Names \ {"hit"} : Measure(r, name) \in Nat
<1> DEFINE memory == r.seen.memory
           free == {i \in DOMAIN memory : memory[i].free # None}
<1>1. r.seen.tps \in Nat \ {0}
  BY Memory DEF Admissible, Maybe, None
<1>2. \E i \in DOMAIN memory : memory[i].free # None
  <2>1. Cardinality(free) >= 2
    BY DEF Admissible
  <2>2. free # {}
    BY <2>1, FS_EmptySet
  <2>3. QED
    BY <2>2
<1>3. MinimumFree(r) # None /\ MinimumFree(r) \in Nat
  BY <1>2, MinimumFreeType DEF Maybe
<1>4. PressureScore(r) \in Nat
  BY <1>3 DEF PressureScore, PressureLevel
<1>5. PeakGrowth(r, "swap") \in Nat /\ PeakGrowth(r, "compressor") \in Nat
  BY PeakType
<1>6. r.seen.native \in Nat
  BY Memory
<1>7. QED
  BY <1>1, <1>3, <1>4, <1>5, <1>6, MeasureIs, EvidenceNames DEF Names

-------------------------------------------------------------------------------
(* The rows of a whole experiment, by arm and repetition.                   *)

At(recs, arm, n) == {i \in DOMAIN recs : recs[i].arm = arm /\ recs[i].repetition = n}

\* Admitted rows, one of each arm in each repetition.
Whole(recs) ==
  /\ recs \in Seq(Row)
  /\ \A i \in DOMAIN recs : recs[i].repetition \in Repetitions /\ Admissible(recs[i])
  /\ \A arm \in ArmsOf(recs), n \in Repetitions : \E i \in DOMAIN recs : At(recs, arm, n) = {i}

RowAt(recs, arm, n) == recs[CHOOSE i \in DOMAIN recs : i \in At(recs, arm, n)]

LEMMA RepetitionsAre ==
  ASSUME spec \in Specs
  PROVE  /\ Repetitions \subseteq Nat /\ IsFiniteSet(Repetitions) /\ 0 \in Repetitions
         /\ spec.repetitions \in Nat \ {0} /\ Cardinality(Repetitions) = spec.repetitions
<1>1. spec.repetitions \in Nat \ {0}
  BY SpecsAssumption DEF ValidSpec
<1>2. QED
  BY <1>1, FS_Interval DEF Repetitions

LEMMA RowAtIs ==
  ASSUME NEW recs, Whole(recs), NEW arm \in ArmsOf(recs), NEW n \in Repetitions
  PROVE  /\ \E i \in DOMAIN recs :
              At(recs, arm, n) = {i} /\ recs[i] = RowAt(recs, arm, n)
         /\ \A i \in At(recs, arm, n) : i \in DOMAIN recs /\ recs[i] = RowAt(recs, arm, n)
         /\ RowAt(recs, arm, n) \in Row /\ Admissible(RowAt(recs, arm, n))
         /\ RowAt(recs, arm, n).arm = arm /\ RowAt(recs, arm, n).repetition = n
<1>1. PICK i \in DOMAIN recs : At(recs, arm, n) = {i}
  BY DEF Whole
<1>2. (CHOOSE j \in DOMAIN recs : j \in At(recs, arm, n)) = i
  BY <1>1
<1>3. RowAt(recs, arm, n) = recs[i]
  BY <1>2 DEF RowAt
<1>4. recs[i] \in Row /\ Admissible(recs[i])
  <2>1. recs \in Seq(Row) /\ Admissible(recs[i])
    BY DEF Whole
  <2>2. QED
    BY <2>1
<1>5. recs[i].arm = arm /\ recs[i].repetition = n
  BY <1>1 DEF At
<1>6. QED
  BY <1>1, <1>3, <1>4, <1>5

\* A row is the row of its arm in its repetition.
LEMMA RowIsAt ==
  ASSUME NEW recs, Whole(recs), NEW i \in DOMAIN recs
  PROVE  /\ recs[i].arm \in ArmsOf(recs) /\ recs[i].repetition \in Repetitions
         /\ recs[i] = RowAt(recs, recs[i].arm, recs[i].repetition)
<1>1. recs[i].arm \in ArmsOf(recs) /\ recs[i].repetition \in Repetitions
  BY DEF ArmsOf, Whole, Range
<1>2. i \in At(recs, recs[i].arm, recs[i].repetition)
  BY DEF At
<1>3. QED
  BY <1>1, <1>2, RowAtIs

\* The repetitions in which an arm reported a number, and the number.
Reported(recs, arm, name) ==
  {n \in Repetitions : Measure(RowAt(recs, arm, n), name) # None}
Numbers(recs, arm, name) ==
  [n \in Reported(recs, arm, name) |-> Measure(RowAt(recs, arm, n), name)]

LEMMA NumbersType ==
  ASSUME spec \in Specs, NEW recs, Whole(recs), NEW arm \in ArmsOf(recs), NEW name \in Names
  PROVE  /\ Reported(recs, arm, name) \in SUBSET Repetitions
         /\ IsFiniteSet(Reported(recs, arm, name))
         /\ Numbers(recs, arm, name) \in [Reported(recs, arm, name) -> Nat]
         /\ name # "hit" => Reported(recs, arm, name) = Repetitions
<1>1. \A n \in Repetitions : RowAt(recs, arm, n) \in Row /\ Admissible(RowAt(recs, arm, n))
  BY RowAtIs
<1>2. \A n \in Repetitions : Measure(RowAt(recs, arm, n), name) \in Maybe
  BY <1>1, MeasureType
<1>3. Reported(recs, arm, name) \in SUBSET Repetitions
  BY DEF Reported
<1>4. IsFiniteSet(Reported(recs, arm, name))
  BY <1>3, RepetitionsAre, FS_Subset
<1>5. Numbers(recs, arm, name) \in [Reported(recs, arm, name) -> Nat]
  BY <1>2 DEF Numbers, Reported, Maybe
<1>6. ASSUME name # "hit" PROVE Reported(recs, arm, name) = Repetitions
  <2>1. \A n \in Repetitions : Measure(RowAt(recs, arm, n), name) \in Nat
    BY <1>1, <1>6, AdmittedMeasures
  <2>2. QED
    BY <2>1 DEF Reported, None
<1>7. QED
  BY <1>3, <1>4, <1>5, <1>6

\* A summary is the median over the repetitions, in whatever order the rows are.
LEMMA SummaryIs ==
  ASSUME spec \in Specs, NEW recs, Whole(recs), NEW arm \in ArmsOf(recs), NEW name \in Names
  PROVE  Summary(recs, arm, name) = TwiceMedian(Numbers(recs, arm, name))
<1> DEFINE S == Reported(recs, arm, name)
           v == Numbers(recs, arm, name)
           T == {i \in DOMAIN recs : recs[i].arm = arm /\ Measure(recs[i], name) # None}
           pi == [i \in T |-> recs[i].repetition]
<1>1. ASSUME NEW i \in T
      PROVE  /\ recs[i].repetition \in S
             /\ Measure(recs[i], name) = v[recs[i].repetition]
             /\ At(recs, arm, recs[i].repetition) = {i}
  <2>1. i \in DOMAIN recs /\ recs[i].arm = arm /\ Measure(recs[i], name) # None
    OBVIOUS
  <2>2. recs[i].repetition \in Repetitions /\ recs[i] = RowAt(recs, arm, recs[i].repetition)
    BY <2>1, RowIsAt
  <2>3. recs[i].repetition \in S
    BY <2>1, <2>2 DEF Reported
  <2>4. Measure(recs[i], name) = v[recs[i].repetition]
    BY <2>2, <2>3 DEF Numbers
  <2>5. i \in At(recs, arm, recs[i].repetition)
    BY <2>1 DEF At
  <2>6. At(recs, arm, recs[i].repetition) = {i}
    BY <2>2, <2>5 DEF Whole
  <2>7. QED
    BY <2>3, <2>4, <2>6
<1>2. ASSUME NEW n \in S PROVE \E i \in T : recs[i].repetition = n
  <2>1. n \in Repetitions /\ Measure(RowAt(recs, arm, n), name) # None
    BY DEF Reported
  <2>2. PICK i \in DOMAIN recs : At(recs, arm, n) = {i} /\ recs[i] = RowAt(recs, arm, n)
    BY <2>1, RowAtIs
  <2>3. recs[i].arm = arm /\ recs[i].repetition = n
    BY <2>2 DEF At
  <2>4. QED
    BY <2>1, <2>2, <2>3
<1>3. \A i, j \in T : recs[i].repetition = recs[j].repetition => i = j
  <2>1. SUFFICES ASSUME NEW i \in T, NEW j \in T, recs[i].repetition = recs[j].repetition
                 PROVE  i = j
    OBVIOUS
  <2>2. At(recs, arm, recs[i].repetition) = {i} /\ At(recs, arm, recs[j].repetition) = {j}
    BY <1>1
  <2>3. {i} = {j}
    BY <2>1, <2>2
  <2>4. QED
    BY <2>3
<1>4. [i \in T |-> Measure(recs[i], name)] = [i \in T |-> v[pi[i]]]
  BY <1>1
<1>5. pi \in Bijection(T, S)
  <2> HIDE DEF T, S
  <2>1. pi \in [T -> S]
    BY <1>1
  <2>2. \A i, j \in T : pi[i] = pi[j] => i = j
    BY <1>3
  <2>3. \A n \in S : \E i \in T : pi[i] = n
    BY <1>2
  <2>4. QED
    BY <2>1, <2>2, <2>3 DEF Bijection, Injection, Surjection, IsInjective
<1>6. IsFiniteSet(S) /\ v \in [S -> Int]
  BY NumbersType
<1>7. Summary(recs, arm, name) = TwiceMedian([i \in T |-> Measure(recs[i], name)])
  BY DEF Summary
<1> HIDE DEF S, v, T, pi
<1>8. TwiceMedian([i \in T |-> v[pi[i]]]) = TwiceMedian(v)
  BY <1>5, <1>6, MedianReindexed
<1>9. QED
  BY <1>4, <1>7, <1>8 DEF v

LEMMA ThroughputIs ==
  ASSUME spec \in Specs, NEW recs, Whole(recs), NEW arm \in ArmsOf(recs)
  PROVE  Throughput(recs, arm) = [n \in Repetitions |-> RowAt(recs, arm, n).seen.tps]
<1> DEFINE reported == {i \in DOMAIN recs : recs[i].arm = arm /\ recs[i].seen.tps > 0}
           of(n) == {i \in reported : recs[i].repetition = n}
<1>1. ASSUME NEW n \in Repetitions
      PROVE  \E i \in reported : /\ of(n) = {i} /\ recs[i] = RowAt(recs, arm, n)
                                 /\ recs[i].repetition = n
  <2>1. PICK i \in DOMAIN recs : At(recs, arm, n) = {i} /\ recs[i] = RowAt(recs, arm, n)
    BY RowAtIs
  <2>2. recs[i].arm = arm /\ recs[i].repetition = n /\ recs[i].seen.tps > 0
    BY <2>1, RowAtIs, AdmittedMeasures
  <2>3. of(n) \subseteq At(recs, arm, n) /\ i \in of(n)
    BY <2>2 DEF At
  <2>4. QED
    BY <2>1, <2>2, <2>3
<1>2. {recs[i].repetition : i \in reported} = Repetitions
  <2>1. \A i \in reported : recs[i].repetition \in Repetitions
    BY DEF Whole
  <2>2. QED
    BY <1>1, <2>1
<1>3. ASSUME NEW n \in Repetitions
      PROVE  recs[Max(of(n))].seen.tps = RowAt(recs, arm, n).seen.tps
  <2>1. PICK i \in reported : of(n) = {i} /\ recs[i] = RowAt(recs, arm, n)
    BY <1>1
  <2>2. recs \in Seq(Row)
    BY DEF Whole
  <2>3. i \in Int
    BY <2>2
  <2>4. Max({i}) = i
    BY <2>3 DEF Max
  <2>5. QED
    BY <2>1, <2>4
<1>4. QED
  BY <1>2, <1>3 DEF Throughput

-------------------------------------------------------------------------------
(* Paired gaps.                                                             *)

LEMMA DividedScale ==
  ASSUME NEW t \in Nat \ {0}, Scale % t = 0
  PROVE  Scale \div t \in Nat \ {0} /\ t * (Scale \div t) = Scale
<1>1. Scale \in Nat \ {0}
  BY BoundsAssumption
<1>2. Scale = t * (Scale \div t) + (Scale % t) /\ Scale \div t \in Int
  BY <1>1
<1>3. t * (Scale \div t) = Scale
  BY <1>2
<1> DEFINE q == Scale \div t
<1> HIDE DEF q
<1>4. q \in Int /\ t * q = Scale
  BY <1>2, <1>3 DEF q
<1>5. q \in Nat \ {0}
  BY <1>1, <1>4
<1>6. QED
  BY <1>3, <1>5 DEF q

LEMMA Products ==
  ASSUME NEW x \in Int, NEW y \in Int, NEW q \in Nat \ {0}
  PROVE  /\ x * q \in Int
         /\ x > y => x * q > y * q
         /\ x >= y => x * q >= y * q
OBVIOUS

\* A gap has the sign of the difference, and passes the threshold with it.
LEMMA GapSign ==
  ASSUME NEW t \in Nat \ {0}, NEW u \in Nat, Scale % t = 0
  PROVE  LET gap == (t - u) * (Scale \div t)
         IN /\ gap \in Int /\ (gap > 0 <=> t > u) /\ (gap < 0 <=> t < u)
            /\ 100 * gap >= GapPercent * Scale <=> 100 * (t - u) >= GapPercent * t
<1> DEFINE q == Scale \div t
           gap == (t - u) * q
<1>1. q \in Nat \ {0} /\ t * q = Scale
  BY DividedScale
<1>2. GapPercent \in Nat
  BY BoundsAssumption
<1> HIDE DEF q
<1>3. gap \in Int /\ 0 * q = 0
  BY <1>1
<1>4. (t - u > 0 => gap > 0) /\ (t - u < 0 => gap < 0) /\ (t = u => gap = 0)
  BY <1>1, <1>3, Products
<1>5. (gap > 0 <=> t > u) /\ (gap < 0 <=> t < u)
  BY <1>3, <1>4
<1>6. 100 * gap = (100 * (t - u)) * q /\ GapPercent * Scale = (GapPercent * t) * q
  BY <1>1, <1>2
<1>7. 100 * (t - u) \in Int /\ GapPercent * t \in Int
  BY <1>2
<1>8. 100 * gap >= GapPercent * Scale <=> 100 * (t - u) >= GapPercent * t
  <2> DEFINE x == 100 * (t - u)
             y == GapPercent * t
  <2>1. x \in Int /\ y \in Int
    BY <1>7
  <2> HIDE DEF x, y
  <2>2. (x >= y => x * q >= y * q) /\ (y > x => y * q > x * q) /\ x * q \in Int /\ y * q \in Int
    BY <1>1, <2>1, Products
  <2>3. x * q >= y * q <=> x >= y
    BY <2>1, <2>2
  <2>4. QED
    BY <1>6, <2>3 DEF x, y
<1>9. QED
  BY <1>3, <1>5, <1>8 DEF q

GapAt(recs, small, large, n) ==
  LET t == RowAt(recs, small, n).seen.tps
      u == RowAt(recs, large, n).seen.tps
  IN (t - u) * (Scale \div t)

\* What admission makes sure of in every repetition.
LEMMA TpsAt ==
  ASSUME NEW recs, Whole(recs), NEW arm \in ArmsOf(recs), NEW n \in Repetitions
  PROVE  /\ RowAt(recs, arm, n).seen.tps \in Nat \ {0}
         /\ Scale % RowAt(recs, arm, n).seen.tps = 0
<1>1. RowAt(recs, arm, n) \in Row /\ Admissible(RowAt(recs, arm, n))
  BY RowAtIs
<1>2. RowAt(recs, arm, n).seen.tps \in Nat \ {0}
  BY <1>1, AdmittedMeasures
<1>3. QED
  BY <1>1, <1>2, Memory

LEMMA GapsAre ==
  ASSUME spec \in Specs, NEW recs, Whole(recs),
         NEW small \in ArmsOf(recs), NEW large \in ArmsOf(recs)
  PROVE  /\ PairedGaps(recs, small, large) = [n \in Repetitions |-> GapAt(recs, small, large, n)]
         /\ PairedGaps(recs, small, large) \in [Repetitions -> Int]
<1> DEFINE t == Throughput(recs, small)
           u == Throughput(recs, large)
<1>1. /\ t = [n \in Repetitions |-> RowAt(recs, small, n).seen.tps]
      /\ u = [n \in Repetitions |-> RowAt(recs, large, n).seen.tps]
  BY ThroughputIs
<1>2. PairedGaps(recs, small, large) =
        [n \in DOMAIN t \cap DOMAIN u |-> (t[n] - u[n]) * (Scale \div t[n])]
  BY DEF PairedGaps
<1>3. DOMAIN t \cap DOMAIN u = Repetitions
  BY <1>1
<1>4. PairedGaps(recs, small, large) = [n \in Repetitions |-> GapAt(recs, small, large, n)]
  BY <1>1, <1>2, <1>3 DEF GapAt
<1>5. \A n \in Repetitions : GapAt(recs, small, large, n) \in Int
  BY TpsAt, GapSign DEF GapAt
<1>6. QED
  BY <1>4, <1>5

-------------------------------------------------------------------------------
(* The balanced order.                                                      *)

LEMMA Division ==
  ASSUME NEW a \in Nat, NEW b \in Nat \ {0}
  PROVE  a \div b \in Nat /\ a % b \in 0..(b - 1) /\ a = b * (a \div b) + (a % b)
OBVIOUS

LEMMA DivisionIsUnique ==
  ASSUME NEW b \in Nat \ {0}, NEW n \in Nat, NEW m \in Nat,
         NEW k \in 0..(b - 1), NEW l \in 0..(b - 1), b * n + k = b * m + l
  PROVE  n = m /\ k = l
<1>1. b * n \in Int /\ b * m \in Int
  OBVIOUS
<1>2. ASSUME NEW x \in Nat, NEW y \in Nat, x < y PROVE b * x + b <= b * y
  <2>1. (x + 1) * b <= y * b
    <3>1. y >= x + 1
      BY <1>2
    <3>2. QED
      BY <3>1, Products
  <2>2. (x + 1) * b = b * x + b /\ y * b = b * y
    OBVIOUS
  <2>3. QED
    BY <2>1, <2>2
<1>3. ~(n < m)
  <2>1. SUFFICES ASSUME n < m PROVE FALSE
    OBVIOUS
  <2>2. b * n + b <= b * m
    BY <1>2, <2>1
  <2>3. QED
    BY <1>1, <2>2
<1>4. ~(m < n)
  <2>1. SUFFICES ASSUME m < n PROVE FALSE
    OBVIOUS
  <2>2. b * m + b <= b * n
    BY <1>2, <2>1
  <2>3. QED
    BY <1>1, <2>2
<1>5. n = m
  BY <1>3, <1>4
<1>6. QED
  BY <1>1, <1>5

LEMMA SpecIs ==
  ASSUME spec \in Specs
  PROVE  /\ Len(spec.arms) \in Nat \ {0} /\ spec.repetitions \in Nat \ {0}
         /\ \A p \in 1..Len(spec.arms) : spec.arms[p] \in Arms
         /\ \A p, q \in 1..Len(spec.arms) : spec.arms[p] = spec.arms[q] => p = q
         /\ NumRows = Len(spec.arms) * spec.repetitions /\ NumRows \in Nat \ {0}
<1> DEFINE arms == spec.arms
           R == spec.repetitions
<1>1. ValidSpec(spec)
  BY SpecsAssumption
<1>2. /\ arms \in Seq(Arms) /\ arms # <<>> /\ R \in Nat \ {0}
      /\ \A i, j \in DOMAIN arms : arms[i].name = arms[j].name => i = j
  BY <1>1 DEF ValidSpec
<1> HIDE DEF arms, R
<1>3. Len(arms) \in Nat \ {0} /\ DOMAIN arms = 1..Len(arms)
  BY <1>2
<1>4. Len(arms) * R \in Nat \ {0}
  BY <1>2, <1>3
<1>5. \A p \in 1..Len(arms) : arms[p] \in Arms
  BY <1>2, <1>3
<1>6. \A p, q \in 1..Len(arms) : arms[p] = arms[q] => p = q
  BY <1>2, <1>3
<1>7. NumRows = Len(arms) * R
  BY DEF NumRows, arms, R
<1>8. QED
  BY <1>2, <1>3, <1>4, <1>5, <1>6, <1>7 DEF arms, R

\* The place of the p-th arm in repetition n, and the row it has there.
Place(p, n) == IF n % 2 = 0 THEN p ELSE Len(spec.arms) + 1 - p
RowNumber(p, n) == Len(spec.arms) * n + Place(p, n)

LEMMA RowNumbers ==
  ASSUME spec \in Specs, NEW p \in 1..Len(spec.arms), NEW n \in Repetitions
  PROVE  /\ Place(p, n) \in 1..Len(spec.arms) /\ RowNumber(p, n) \in 1..NumRows
         /\ Scheduled(RowNumber(p, n)) = [arm |-> spec.arms[p], repetition |-> n]
<1> DEFINE N == Len(spec.arms)
           R == spec.repetitions
           i == RowNumber(p, n)
           k == Place(p, n) - 1
<1>1. N \in Nat \ {0} /\ R \in Nat \ {0} /\ NumRows = N * R /\ n \in 0..(R - 1) /\ p \in 1..N
  BY SpecIs DEF Repetitions
<1>2. k \in 0..(N - 1) /\ k = (IF n % 2 = 0 THEN p - 1 ELSE N - p) /\ Place(p, n) = k + 1
  BY <1>1 DEF Place
<1>3. i = N * n + k + 1
  <2>1. i = N * n + Place(p, n) /\ N * n \in Int
    BY <1>1 DEF RowNumber
  <2>2. QED
    BY <1>2, <2>1
<1> HIDE DEF N, R, i, k
<1>4. N * n \in Nat /\ i - 1 = N * n + k /\ i - 1 \in Nat
  BY <1>1, <1>2, <1>3
<1>5. i \in 1..NumRows
  <2>1. (n + 1) * N <= R * N
    <3>1. n + 1 \in Int /\ R >= n + 1
      BY <1>1
    <3>2. QED
      BY <1>1, <3>1, Products
  <2>2. (n + 1) * N = N * n + N /\ R * N = N * R
    BY <1>1
  <2>3. QED
    BY <1>1, <1>2, <1>3, <1>4, <2>1, <2>2
<1>6. (i - 1) \div N \in Nat /\ (i - 1) % N \in 0..(N - 1)
      /\ i - 1 = N * ((i - 1) \div N) + ((i - 1) % N)
  BY <1>1, <1>4, Division
<1>7. (i - 1) \div N = n /\ (i - 1) % N = k
  <2> DEFINE d == (i - 1) \div N
             r == (i - 1) % N
  <2>1. d \in Nat /\ r \in 0..(N - 1) /\ N * d + r = N * n + k /\ n \in Nat
    BY <1>1, <1>4, <1>6
  <2> HIDE DEF d, r
  <2>2. d = n /\ r = k
    BY <1>1, <1>2, <2>1, DivisionIsUnique
  <2>3. QED
    BY <2>2 DEF d, r
<1>8. (IF n % 2 = 0 THEN k + 1 ELSE N - k) = p
  BY <1>1, <1>2
<1>9. Scheduled(i) = [arm |-> spec.arms[p], repetition |-> n]
  BY <1>7, <1>8 DEF Scheduled, N
<1>10. Place(p, n) \in 1..N
  BY <1>1, <1>2
<1>11. QED
  BY <1>5, <1>9, <1>10 DEF N, i

LEMMA ScheduledIs ==
  ASSUME spec \in Specs, NEW i \in 1..NumRows
  PROVE  \E p \in 1..Len(spec.arms), n \in Repetitions : RowNumber(p, n) = i
<1> DEFINE N == Len(spec.arms)
           R == spec.repetitions
           n == (i - 1) \div N
           k == (i - 1) % N
           p == IF n % 2 = 0 THEN k + 1 ELSE N - k
<1>1. N \in Nat \ {0} /\ R \in Nat \ {0} /\ NumRows = N * R /\ NumRows \in Nat /\ i - 1 \in Nat
  BY SpecIs
<1>2. n \in Nat /\ k \in 0..(N - 1) /\ i - 1 = N * n + k
  BY <1>1, Division
<1> HIDE DEF N, R, n, k
<1>3. p \in 1..N
  BY <1>1, <1>2
<1>4. n < R
  <2>1. SUFFICES ASSUME n >= R PROVE FALSE
    BY <1>1, <1>2
  <2>2. n * N >= R * N /\ n * N \in Int
    BY <1>1, <1>2, <2>1, Products
  <2>3. n * N = N * n /\ R * N = N * R
    BY <1>1, <1>2
  <2>4. QED
    BY <1>1, <1>2, <2>2, <2>3
<1>5. N * n + (IF n % 2 = 0 THEN p ELSE N + 1 - p) = i
  BY <1>1, <1>2
<1>6. n \in Repetitions
  BY <1>1, <1>2, <1>4 DEF Repetitions, R
<1>7. RowNumber(p, n) = i
  BY <1>5 DEF RowNumber, Place, N
<1>8. QED
  BY <1>3, <1>6, <1>7 DEF N

\* Rows that were taken in the order of the schedule.
InOrder(recs) ==
  /\ recs \in Seq(Row)
  /\ \A i \in DOMAIN recs :
       recs[i].arm = Scheduled(i).arm /\ recs[i].repetition = Scheduled(i).repetition

LEMMA OneRowEach ==
  ASSUME spec \in Specs, NEW recs, InOrder(recs), Len(recs) = NumRows
  PROVE  /\ DOMAIN recs = 1..NumRows
         /\ \A i \in DOMAIN recs : recs[i].repetition \in Repetitions
         /\ ArmsOf(recs) = {spec.arms[p] : p \in 1..Len(spec.arms)}
         /\ \A p \in 1..Len(spec.arms), n \in Repetitions :
              At(recs, spec.arms[p], n) = {RowNumber(p, n)}
<1>1. DOMAIN recs = 1..NumRows
  BY DEF InOrder
<1>2. ASSUME NEW i \in DOMAIN recs
      PROVE  \E p \in 1..Len(spec.arms), n \in Repetitions :
               i = RowNumber(p, n) /\ recs[i].arm = spec.arms[p] /\ recs[i].repetition = n
  <2>1. PICK p \in 1..Len(spec.arms), n \in Repetitions : RowNumber(p, n) = i
    BY <1>1, ScheduledIs
  <2>2. Scheduled(i) = [arm |-> spec.arms[p], repetition |-> n]
    BY <2>1, RowNumbers
  <2>3. QED
    BY <2>1, <2>2 DEF InOrder
<1>3. ASSUME NEW p \in 1..Len(spec.arms), NEW n \in Repetitions
      PROVE  /\ RowNumber(p, n) \in DOMAIN recs
             /\ recs[RowNumber(p, n)].arm = spec.arms[p]
             /\ recs[RowNumber(p, n)].repetition = n
  BY <1>1, RowNumbers DEF InOrder
<1>4. ASSUME NEW p \in 1..Len(spec.arms), NEW n \in Repetitions
      PROVE  At(recs, spec.arms[p], n) = {RowNumber(p, n)}
  <2>1. ASSUME NEW i \in At(recs, spec.arms[p], n) PROVE i = RowNumber(p, n)
    <3>1. i \in DOMAIN recs /\ recs[i].arm = spec.arms[p] /\ recs[i].repetition = n
      BY DEF At
    <3>2. PICK q \in 1..Len(spec.arms), m \in Repetitions :
            i = RowNumber(q, m) /\ recs[i].arm = spec.arms[q] /\ recs[i].repetition = m
      BY <1>2, <3>1
    <3>3. p = q /\ m = n
      BY <3>1, <3>2, SpecIs
    <3>4. QED
      BY <3>2, <3>3
  <2>2. RowNumber(p, n) \in At(recs, spec.arms[p], n)
    BY <1>3 DEF At
  <2>3. QED
    BY <2>1, <2>2
<1>5. ArmsOf(recs) = {spec.arms[p] : p \in 1..Len(spec.arms)}
  <2>1. ArmsOf(recs) = {recs[i].arm : i \in DOMAIN recs}
    BY DEF ArmsOf, Range
  <2>2. \A i \in DOMAIN recs : \E p \in 1..Len(spec.arms) : recs[i].arm = spec.arms[p]
    BY <1>2
  <2>3. \A p \in 1..Len(spec.arms) : \E i \in DOMAIN recs : recs[i].arm = spec.arms[p]
    BY <1>3, RepetitionsAre
  <2>4. \A arm \in ArmsOf(recs) : arm \in {spec.arms[p] : p \in 1..Len(spec.arms)}
    BY <2>1, <2>2
  <2>5. \A arm \in {spec.arms[p] : p \in 1..Len(spec.arms)} : arm \in ArmsOf(recs)
    BY <2>1, <2>3
  <2>6. QED
    BY <2>4, <2>5
<1>6. \A i \in DOMAIN recs : recs[i].repetition \in Repetitions
  BY <1>2
<1>7. QED
  BY <1>1, <1>4, <1>5, <1>6

LEMMA AdmittedIsWhole ==
  ASSUME spec \in Specs, NEW recs, InOrder(recs), Len(recs) = NumRows,
         \A i \in DOMAIN recs : Admissible(recs[i])
  PROVE  Whole(recs)
<1>1. \A arm \in ArmsOf(recs), n \in Repetitions : \E i \in DOMAIN recs : At(recs, arm, n) = {i}
  <2>1. SUFFICES ASSUME NEW arm \in ArmsOf(recs), NEW n \in Repetitions
                 PROVE  \E i \in DOMAIN recs : At(recs, arm, n) = {i}
    OBVIOUS
  <2>2. PICK p \in 1..Len(spec.arms) : arm = spec.arms[p]
    BY OneRowEach
  <2>3. At(recs, arm, n) = {RowNumber(p, n)} /\ RowNumber(p, n) \in DOMAIN recs
    BY <2>2, OneRowEach, RowNumbers
  <2>4. QED
    BY <2>3
<1>2. QED
  BY <1>1, OneRowEach DEF Whole, InOrder

\* As many repetitions run forward as backward, or one more.
LEMMA EvensAndOdds ==
  ASSUME spec \in Specs
  PROVE  LET evens == {n \in Repetitions : n % 2 = 0}
             odds == {n \in Repetitions : ~(n % 2 = 0)}
         IN /\ Cardinality(evens) \in Nat /\ Cardinality(odds) \in Nat
            /\ Cardinality(evens) - Cardinality(odds) \in 0..1
<1> DEFINE evens == {n \in Repetitions : n % 2 = 0}
           odds == {n \in Repetitions : ~(n % 2 = 0)}
           later == evens \ {0}
<1>1. spec.repetitions \in Nat \ {0}
  BY SpecIs
<1>2. IsFiniteSet(evens) /\ IsFiniteSet(odds) /\ IsFiniteSet(later)
  BY RepetitionsAre, FS_Subset
<1>3. 0 \in evens
  BY RepetitionsAre
<1>4. Cardinality(evens) \in Nat /\ Cardinality(odds) \in Nat /\ Cardinality(later) \in Nat
  BY <1>2, FS_CardinalityType
<1>5. Cardinality(later) = Cardinality(evens) - 1
  <2> HIDE DEF evens
  <2>1. QED
    BY <1>2, <1>3, FS_RemoveElement
<1>6. [n \in odds |-> n - 1] \in Injection(odds, evens)
  <2>1. \A n \in odds : n - 1 \in evens
    BY <1>1 DEF Repetitions
  <2>2. \A n, m \in odds : n - 1 = m - 1 => n = m
    BY DEF Repetitions
  <2> HIDE DEF odds, evens
  <2>3. QED
    BY <2>1, <2>2 DEF Injection, IsInjective
<1>7. [n \in later |-> n - 1] \in Injection(later, odds)
  <2>1. \A n \in later : n - 1 \in odds
    BY <1>1 DEF Repetitions
  <2>2. \A n, m \in later : n - 1 = m - 1 => n = m
    BY DEF Repetitions
  <2> HIDE DEF odds, later
  <2>3. QED
    BY <2>1, <2>2 DEF Injection, IsInjective
<1> HIDE DEF evens, odds, later
<1>8. Cardinality(odds) <= Cardinality(evens) /\ Cardinality(later) <= Cardinality(odds)
  BY <1>2, <1>6, <1>7, FS_Injection
<1>9. QED
  BY <1>4, <1>5, <1>8 DEF evens, odds

-------------------------------------------------------------------------------
(* The invariant of a run and its analysis.                                 *)

\* Rows are measured in the order of the schedule until they are all there.
Measured ==
  /\ spec \in Specs /\ InOrder(records) /\ Len(records) <= NumRows
  /\ pc # "measure" => Len(records) = NumRows

\* A complete artifact holds all rows, and all were admitted.
Admitted ==
  /\ pc = "measure" => artifact = NoArtifact
  /\ artifact.complete => /\ artifact.records = records
                          /\ \A i \in DOMAIN records : Admissible(records[i])

\* What is written is about a complete artifact, and written in order.
Written ==
  /\ reports # {} \/ gains # {} \/ pc \in Writing \cup {"done"} => artifact.complete
  /\ verdict = IF Analysed THEN Candidates(artifact.records) ELSE {}
  /\ pc \in Writing \cup {"done"} => "analysis.json" \in reports
  /\ pc \in {"csv", "done"} => "summary.csv" \in reports
  /\ pc = "done" => "gate1.md" \in reports
  /\ pc # "failed"
  /\ \A g \in gains : \E b, c \in ArmsOf(artifact.records) : g = Comparison(b, c)

Inv == TypeOK /\ Measured /\ Admitted /\ Written

LEMMA ArtifactIsWhole ==
  ASSUME Measured, Admitted, artifact.complete
  PROVE  spec \in Specs /\ artifact.records = records /\ Whole(artifact.records)
BY AdmittedIsWhole DEF Measured, Admitted, NoArtifact

LEMMA ArmsType ==
  ASSUME NEW recs, Whole(recs)
  PROVE  ArmsOf(recs) \subseteq Arms
<1>1. recs \in Seq(Row)
  BY DEF Whole
<1>2. \A i \in DOMAIN recs : recs[i].arm \in Arms
  <2>1. \A i \in DOMAIN recs : recs[i] \in Row
    BY <1>1
  <2>2. QED
    BY <2>1 DEF Row
<1>3. QED
  BY <1>2 DEF ArmsOf, Range

\* No number but the hit rate can be missing.
LEMMA SummaryType ==
  ASSUME spec \in Specs, NEW recs, Whole(recs), NEW arm \in ArmsOf(recs), NEW name \in Names \ {"hit"}
  PROVE  Summary(recs, arm, name) \in Nat
<1> DEFINE v == Numbers(recs, arm, name)
<1>1. Summary(recs, arm, name) = TwiceMedian(v) /\ v \in [Repetitions -> Nat]
  BY SummaryIs, NumbersType
<1>2. IsFiniteSet(Repetitions) /\ Repetitions # {}
  BY RepetitionsAre
<1> HIDE DEF v
<1>3. v \in [Repetitions -> Int]
  BY <1>1
<1>4. PICK i, j \in Repetitions : TwiceMedian(v) = v[i] + v[j]
  BY <1>2, <1>3, MedianAttained
<1>5. QED
  BY <1>1, <1>4

LEMMA ComparisonType ==
  ASSUME spec \in Specs, Whole(artifact.records),
         NEW b \in ArmsOf(artifact.records), NEW c \in ArmsOf(artifact.records)
  PROVE  Comparison(b, c) \in [baseline : Arms, candidate : Arms, median : Int, aggregate : Int]
<1> DEFINE gaps == PairedGaps(artifact.records, b, c)
           losses == [n \in DOMAIN gaps |-> -gaps[n]]
<1>1. gaps \in [Repetitions -> Int]
  BY GapsAre
<1> HIDE DEF gaps
<1>2. losses \in [Repetitions -> Int]
  BY <1>1
<1>3. IsFiniteSet(Repetitions) /\ Repetitions # {}
  BY RepetitionsAre
<1> HIDE DEF losses
<1>4. PICK i, j \in Repetitions : TwiceMedian(losses) = losses[i] + losses[j]
  BY <1>2, <1>3, MedianAttained
<1>5. TwiceMedian(losses) \in Int
  BY <1>2, <1>4
<1>6. Summary(artifact.records, b, "tps") \in Nat /\ Summary(artifact.records, c, "tps") \in Nat
  BY SummaryType, EvidenceNames DEF Names
<1>7. b \in Arms /\ c \in Arms
  BY ArmsType
<1>8. QED
  BY <1>5, <1>6, <1>7 DEF Comparison, Slowdowns, losses, gaps

LEMMA CandidatesType ==
  ASSUME NEW recs, Whole(recs)
  PROVE  Candidates(recs) \subseteq Arms \X Arms
BY ArmsType DEF Candidates, Compared

\* Every pair that gate 1 compares has paired gaps.
LEMMA AlwaysReportable ==
  ASSUME spec \in Specs, Whole(artifact.records), NEW pair \in BestTradeoffs(artifact.records)
  PROVE  ~Unreportable(pair)
<1>1. pair[1] \in ArmsOf(artifact.records) /\ pair[2] \in ArmsOf(artifact.records)
  BY DEF BestTradeoffs, Compared
<1>2. DOMAIN PairedGaps(artifact.records, pair[1], pair[2]) = Repetitions
  BY <1>1, GapsAre
<1>3. QED
  BY <1>2, RepetitionsAre DEF Unreportable

-------------------------------------------------------------------------------
(* It is inductive.                                                         *)

LEMMA InitInv == Init => Inv
<1> SUFFICES ASSUME Init PROVE Inv
  OBVIOUS
<1> USE DEF Init, NoArtifact
<1>1. spec \in Specs /\ NumRows \in Nat /\ Len(spec.arms) * spec.repetitions = NumRows
  BY SpecIs
<1>2. records \in Seq(Row) /\ Len(records) = 0 /\ DOMAIN records = {} /\ DOMAIN artifact.records = {}
  OBVIOUS
<1>3. artifact.records = Restrict(records, DOMAIN artifact.records)
  BY DEF Restrict
<1>4. TypeOK
  BY <1>1, <1>2, <1>3 DEF TypeOK
<1>5. Measured
  BY <1>1, <1>2 DEF Measured, InOrder
<1>6. Admitted
  BY DEF Admitted
<1>7. Written
  BY DEF Written, Analysed, Writing
<1>8. QED
  BY <1>4, <1>5, <1>6, <1>7 DEF Inv

LEMMA MeasureRowInv == Inv /\ MeasureRow => Inv'
<1> SUFFICES ASSUME Inv, MeasureRow PROVE Inv'
  OBVIOUS
<1> USE DEF Inv
<1> DEFINE i == Len(records) + 1
           due == Scheduled(i)
<1>1. PICK seen \in Observations :
        records' = Append(records, [arm |-> due.arm, repetition |-> due.repetition, seen |-> seen])
  BY DEF MeasureRow
<1>2. /\ pc = "measure" /\ Len(records) < NumRows
      /\ UNCHANGED <<spec, artifact, pc, reports, verdict, gains>>
  BY DEF MeasureRow
<1>3. spec \in Specs /\ NumRows \in Nat /\ records \in Seq(Row) /\ Len(records) \in Nat
  BY SpecIs DEF Measured, InOrder
<1>4. i \in 1..NumRows
  BY <1>2, <1>3
<1>5. due.arm \in Arms /\ due.repetition \in Nat
  <2>1. PICK p \in 1..Len(spec.arms), n \in Repetitions : RowNumber(p, n) = i
    BY <1>3, <1>4, ScheduledIs
  <2>2. due = [arm |-> spec.arms[p], repetition |-> n]
    BY <1>3, <2>1, RowNumbers
  <2>3. QED
    BY <1>3, <2>2, SpecIs, RepetitionsAre
<1> DEFINE row == [arm |-> due.arm, repetition |-> due.repetition, seen |-> seen]
<1>6. row \in Row /\ row.arm = due.arm /\ row.repetition = due.repetition
  BY <1>5 DEF Row
<1> HIDE DEF row, due
<1>7. /\ records' = Append(records, row) /\ records' \in Seq(Row) /\ Len(records') = i
      /\ DOMAIN records' = 1..i /\ DOMAIN records = 1..Len(records)
      /\ \A j \in DOMAIN records : records'[j] = records[j]
      /\ records'[i] = row
  BY <1>1, <1>3, <1>6 DEF row
<1>8. \A j : Scheduled(j)' = Scheduled(j)
  BY <1>2 DEF Scheduled
<1>9. InOrder(records)'
  <2>1. SUFFICES ASSUME NEW j \in DOMAIN records'
                 PROVE  /\ records'[j].arm = Scheduled(j).arm
                        /\ records'[j].repetition = Scheduled(j).repetition
    BY <1>7, <1>8 DEF InOrder
  <2>2. CASE j = i
    BY <1>6, <1>7, <2>2 DEF due
  <2>3. CASE j # i
    <3>1. j \in DOMAIN records
      BY <1>3, <1>7, <2>3
    <3>2. QED
      BY <1>7, <3>1 DEF Measured, InOrder
  <2>4. QED
    BY <2>2, <2>3
<1>10. NumRows' = NumRows /\ Len(records') <= NumRows'
  BY <1>2, <1>4, <1>7 DEF NumRows
<1>11. Measured'
  BY <1>2, <1>3, <1>9, <1>10 DEF Measured
<1>12. artifact = NoArtifact /\ DOMAIN artifact.records = {}
  BY <1>2 DEF Admitted, NoArtifact
<1>13. artifact'.records = Restrict(records', DOMAIN artifact'.records)
  BY <1>2, <1>12 DEF Restrict, NoArtifact
<1>14. TypeOK'
  BY <1>2, <1>7, <1>10, <1>12, <1>13 DEF TypeOK, NumRows, NoArtifact
<1>15. Admitted'
  BY <1>2, <1>12 DEF Admitted, NoArtifact
<1>16. Written'
  BY <1>2 DEF Written, Analysed, Comparison, Slowdowns
<1>17. QED
  BY <1>11, <1>14, <1>15, <1>16

LEMMA AdmitInv == Inv /\ Admit => Inv'
<1> SUFFICES ASSUME Inv, Admit PROVE Inv'
  OBVIOUS
<1> USE DEF Inv
<1> DEFINE admitted == {i \in DOMAIN records : Admissible(records[i])}
<1>1. /\ pc = "measure" /\ Len(records) = NumRows /\ pc' = "admitted"
      /\ artifact' = [complete |-> Cardinality(admitted) = NumRows,
                      records |-> Restrict(records, admitted)]
      /\ UNCHANGED <<spec, records, reports, verdict, gains>>
  BY DEF Admit
<1>2. spec \in Specs /\ records \in Seq(Row) /\ NumRows \in Nat
  BY SpecIs DEF Measured, InOrder
<1>3. DOMAIN records = 1..NumRows /\ IsFiniteSet(DOMAIN records) /\ Cardinality(DOMAIN records) = NumRows
  <2>1. DOMAIN records = 1..NumRows
    BY <1>1, <1>2
  <2>2. IsFiniteSet(1..NumRows) /\ Cardinality(1..NumRows) = NumRows
    BY <1>2, FS_Interval
  <2>3. QED
    BY <2>1, <2>2
<1>4. admitted \in SUBSET DOMAIN records
  OBVIOUS
<1>5. artifact'.records = Restrict(records, admitted) /\ artifact'.complete = (Cardinality(admitted) = NumRows)
  BY <1>1
<1>6. DOMAIN artifact'.records = admitted
  BY <1>5 DEF Restrict
<1>7. artifact'.complete => admitted = DOMAIN records
  <2>1. Cardinality(admitted) = NumRows => admitted = DOMAIN records
    <3> HIDE DEF admitted
    <3>1. QED
      BY <1>3, <1>4, FS_Subset
  <2>2. QED
    BY <1>5, <2>1
<1>8. Restrict(records, DOMAIN records) = records
  BY <1>2 DEF Restrict
<1>9. Measured'
  BY <1>1 DEF Measured, InOrder, Scheduled, NumRows
<1>10. Admitted'
  <2>1. ASSUME artifact'.complete
        PROVE  artifact'.records = records' /\ (\A i \in DOMAIN records : Admissible(records[i]))'
    <3>1. admitted = DOMAIN records
      BY <1>7, <2>1
    <3>2. artifact'.records = records'
      BY <1>1, <1>5, <1>8, <3>1
    <3>3. \A i \in DOMAIN records : Admissible(records[i])
      BY <3>1
    <3>4. (\A i \in DOMAIN records : Admissible(records[i]))'
      BY <1>1, <3>3 DEF Admissible
    <3>5. QED
      BY <3>2, <3>4
  <2> HIDE DEF admitted
  <2>2. QED
    BY <1>1, <2>1 DEF Admitted
<1>11. artifact = NoArtifact /\ reports = {} /\ gains = {} /\ verdict = {}
  BY <1>1 DEF Admitted, Written, NoArtifact, Analysed
<1>12. Written'
  BY <1>1, <1>11 DEF Written, Analysed, Writing
<1>13. TypeOK'
  BY <1>1, <1>4, <1>5, <1>6 DEF TypeOK
<1>14. QED
  BY <1>9, <1>10, <1>12, <1>13

\* What is measured and admitted stays.
LEMMA RowsStay ==
  ASSUME Inv, UNCHANGED <<spec, records, artifact>>, pc # "measure", pc' # "measure"
  PROVE  /\ Measured' /\ Admitted'
         /\ \A b, c : Comparison(b, c)' = Comparison(b, c)
         /\ Candidates(artifact.records)' = Candidates(artifact.records)
<1>1. Measured'
  BY DEF Inv, Measured, InOrder, Scheduled, NumRows
<1>2. Admitted'
  BY DEF Inv, Admitted, Admissible
<1>3. \A b, c : Comparison(b, c)' = Comparison(b, c)
  BY DEF Comparison, Slowdowns
<1>4. Candidates(artifact.records)' = Candidates(artifact.records)
  OBVIOUS
<1>5. QED
  BY <1>1, <1>2, <1>3, <1>4

LEMMA AnalysisInv ==
  Inv /\ (Refuse \/ WriteAnalysis \/ WriteSummary \/ WriteReport \/ Interrupted \/ ComparePurgeable)
    => Inv'
<1> SUFFICES ASSUME Inv, Refuse \/ WriteAnalysis \/ WriteSummary \/ WriteReport
                         \/ Interrupted \/ ComparePurgeable
             PROVE  Inv'
  OBVIOUS
<1> USE DEF Inv
<1>1. UNCHANGED <<spec, records, artifact>> /\ pc # "measure" /\ pc' # "measure"
  BY DEF Refuse, WriteAnalysis, WriteSummary, WriteReport, Interrupted, ComparePurgeable, Writing
<1>2. /\ Measured' /\ Admitted' /\ \A b, c : Comparison(b, c)' = Comparison(b, c)
      /\ Candidates(artifact.records)' = Candidates(artifact.records)
  BY <1>1, RowsStay
<1>3. artifact.complete => spec \in Specs /\ Whole(artifact.records)
  BY ArtifactIsWhole
<1>4. CASE Refuse
  <2>1. TypeOK'
    BY <1>1, <1>4 DEF Refuse, TypeOK
  <2>2. Written'
    BY <1>1, <1>2, <1>4 DEF Refuse, Written, Analysed, Writing
  <2>3. QED
    BY <1>2, <2>1, <2>2
<1>5. CASE WriteAnalysis
  <2>1. artifact.complete /\ verdict' = Candidates(artifact.records)
    BY <1>5 DEF WriteAnalysis, Analysable
  <2>2. verdict' \subseteq Arms \X Arms
    BY <1>3, <2>1, CandidatesType
  <2>3. TypeOK'
    BY <1>1, <1>5, <2>2 DEF WriteAnalysis, TypeOK, Writing, GateFiles
  <2>4. Written'
    BY <1>1, <1>2, <1>5, <2>1 DEF WriteAnalysis, Written, Analysed, Writing
  <2>5. QED
    BY <1>2, <2>3, <2>4
<1>6. CASE WriteSummary
  <2>1. TypeOK'
    BY <1>1, <1>6 DEF WriteSummary, TypeOK, Writing, GateFiles
  <2>2. Written'
    BY <1>1, <1>2, <1>6 DEF WriteSummary, Written, Analysed, Writing
  <2>3. QED
    BY <1>2, <2>1, <2>2
<1>7. CASE WriteReport
  <2>1. pc = "csv" /\ artifact.complete
    BY <1>7 DEF WriteReport, Written, Writing
  <2>2. ~\E pair \in BestTradeoffs(artifact.records) : Unreportable(pair)
    BY <1>3, <2>1, AlwaysReportable
  <2>3. reports' = reports \cup {"gate1.md"} /\ pc' = "done" /\ UNCHANGED <<verdict, gains>>
    BY <1>7, <2>2 DEF WriteReport
  <2>4. TypeOK'
    BY <1>1, <2>3 DEF TypeOK, GateFiles
  <2>5. Written'
    BY <1>1, <1>2, <2>1, <2>3 DEF Written, Analysed, Writing
  <2>6. QED
    BY <1>2, <2>4, <2>5
<1>8. CASE Interrupted
  <2>1. TypeOK'
    BY <1>1, <1>8 DEF Interrupted, TypeOK
  <2>2. Written'
    BY <1>1, <1>2, <1>8 DEF Interrupted, Written, Analysed, Writing
  <2>3. QED
    BY <1>2, <2>1, <2>2
<1>9. CASE ComparePurgeable
  <2>1. artifact.complete /\ reports' = reports \cup {"purgeable.json"} /\ UNCHANGED <<pc, verdict>>
    BY <1>9 DEF ComparePurgeable, Analysable
  <2>2. PICK c \in ArmsOf(artifact.records), b \in ArmsOf(artifact.records) :
          gains' = {Comparison(b, c)}
    BY <1>9 DEF ComparePurgeable
  <2>3. Comparison(b, c) \in [baseline : Arms, candidate : Arms, median : Int, aggregate : Int]
    BY <1>3, <2>1, ComparisonType
  <2>4. TypeOK'
    BY <1>1, <2>1, <2>2, <2>3 DEF TypeOK
  <2>5. Written'
    BY <1>1, <1>2, <2>1, <2>2 DEF Written, Analysed, Writing
  <2>6. QED
    BY <1>2, <2>4, <2>5
<1>10. QED
  BY <1>4, <1>5, <1>6, <1>7, <1>8, <1>9

\* All rows are measured in order and admitted before anything is written.
THEOREM InvariantHolds == Spec => []Inv
<1>1. Inv /\ UNCHANGED vars => Inv'
  <2> SUFFICES ASSUME Inv, UNCHANGED vars PROVE Inv'
    OBVIOUS
  <2> USE DEF Inv, vars
  <2>1. Measured'
    BY DEF Measured, InOrder, Scheduled, NumRows
  <2>2. Admitted'
    BY DEF Admitted, Admissible
  <2>3. Written'
    BY DEF Written, Analysed, Comparison, Slowdowns
  <2>4. TypeOK'
    BY DEF TypeOK
  <2>5. QED
    BY <2>1, <2>2, <2>3, <2>4
<1>2. Inv /\ [Next]_vars => Inv'
  BY <1>1, MeasureRowInv, AdmitInv, AnalysisInv DEF Next
<1>3. QED
  BY <1>2, InitInv, PTL DEF Spec

\* Type correctness.
THEOREM TypeCorrect == Spec => []TypeOK
<1>1. Inv => TypeOK
  BY DEF Inv
<1>2. QED
  BY <1>1, InvariantHolds, PTL

\* Whatever was measured, an analysis that began to write can write its report:
\* only an interruption leaves the verdict without it.
THEOREM ReportsAreComplete == Spec => []ReportsComplete
<1>1. Inv => ReportsComplete
  BY DEF Inv, Written, ReportsComplete, GateFiles
<1>2. QED
  BY <1>1, InvariantHolds, PTL

\* What was analysed.
LEMMA AnalysedIsWhole ==
  ASSUME Inv
  PROVE  /\ Analysed \/ verdict # {} \/ gains # {} =>
              spec \in Specs /\ Whole(artifact.records)
         /\ verdict # {} => Analysed
         /\ Analysed => verdict = Candidates(artifact.records)
<1>1. Analysed \/ verdict # {} \/ gains # {} => artifact.complete
  BY DEF Inv, Written, Analysed
<1>2. QED
  BY <1>1, ArtifactIsWhole DEF Inv, Written

\* Gate 1 never replaces a number by zero: every summary of an analysed artifact
\* has all its evidence of pressure.
THEOREM EvidenceIsAlwaysMeasured == Spec => []EvidenceIsMeasured
<1>1. Inv => EvidenceIsMeasured
  <2>1. SUFFICES ASSUME Inv, Analysed,
                        NEW arm \in ArmsOf(artifact.records), NEW name \in DOMAIN TwiceEvidence
                 PROVE  Summary(artifact.records, arm, name) # None
    BY DEF EvidenceIsMeasured
  <2>2. spec \in Specs /\ Whole(artifact.records)
    BY <2>1, AnalysedIsWhole
  <2>3. name \in Names \ {"hit"}
    BY EvidenceNames DEF Names
  <2>4. Summary(artifact.records, arm, name) \in Nat
    BY <2>2, <2>3, SummaryType
  <2>5. QED
    BY <2>4 DEF None
<1>2. QED
  BY <1>1, InvariantHolds, PTL

\* Of two arms, the one listed first runs first in the even repetitions, and last
\* in the others.
LEMMA WhoRunsFirst ==
  ASSUME spec \in Specs, NEW p \in 1..Len(spec.arms), NEW q \in 1..Len(spec.arms), p < q,
         NEW n \in Repetitions
  PROVE  /\ RowNumber(p, n) < RowNumber(q, n) <=> n % 2 = 0
         /\ RowNumber(q, n) < RowNumber(p, n) <=> ~(n % 2 = 0)
         /\ Min({RowNumber(p, n)}) = RowNumber(p, n) /\ Min({RowNumber(q, n)}) = RowNumber(q, n)
<1> DEFINE N == Len(spec.arms)
<1>1. N \in Nat \ {0} /\ n \in Nat
  BY SpecIs, RepetitionsAre
<1>2. N * n \in Int /\ Place(p, n) \in Int /\ Place(q, n) \in Int
  <2>1. Place(p, n) \in 1..N /\ Place(q, n) \in 1..N
    BY RowNumbers
  <2> HIDE DEF N
  <2>2. QED
    BY <1>1, <2>1
<1>3. RowNumber(p, n) = N * n + Place(p, n) /\ RowNumber(q, n) = N * n + Place(q, n)
  BY DEF RowNumber
<1>4. /\ Place(p, n) < Place(q, n) <=> n % 2 = 0
      /\ Place(q, n) < Place(p, n) <=> ~(n % 2 = 0)
  BY <1>1 DEF Place
<1> HIDE DEF N
<1>5. RowNumber(p, n) \in Int /\ RowNumber(q, n) \in Int
  BY <1>2, <1>3
<1>6. Min({RowNumber(p, n)}) = RowNumber(p, n) /\ Min({RowNumber(q, n)}) = RowNumber(q, n)
  BY <1>5 DEF Min
<1>7. QED
  BY <1>2, <1>3, <1>4, <1>6

\* The order favours no arm: every arm has one row in each repetition, and none
\* runs before another more than one time oftener.
THEOREM OrderIsAlwaysBalanced == Spec => []OrderIsBalanced
<1>1. ASSUME Inv, pc = "admitted"
      PROVE  /\ spec \in Specs /\ ArmsOf(records) = {spec.arms[p] : p \in 1..Len(spec.arms)}
             /\ \A p \in 1..Len(spec.arms), n \in Repetitions :
                  At(records, spec.arms[p], n) = {RowNumber(p, n)}
  BY <1>1, OneRowEach DEF Inv, Measured
<1> DEFINE firsts(a, b) ==
             Cardinality({n \in Repetitions : Min(At(records, a, n)) < Min(At(records, b, n))})
<1>2. ASSUME Inv, pc = "admitted",
             NEW p \in 1..Len(spec.arms), NEW q \in 1..Len(spec.arms), p < q
      PROVE  /\ firsts(spec.arms[p], spec.arms[q]) - firsts(spec.arms[q], spec.arms[p]) \in -1..1
             /\ firsts(spec.arms[q], spec.arms[p]) - firsts(spec.arms[p], spec.arms[q]) \in -1..1
  <2> DEFINE a == spec.arms[p]
             b == spec.arms[q]
             evens == {n \in Repetitions : n % 2 = 0}
             odds == {n \in Repetitions : ~(n % 2 = 0)}
  <2>1. \A n \in Repetitions :
          /\ Min(At(records, a, n)) < Min(At(records, b, n)) <=> n % 2 = 0
          /\ Min(At(records, b, n)) < Min(At(records, a, n)) <=> ~(n % 2 = 0)
    <3>1. SUFFICES ASSUME NEW n \in Repetitions
                   PROVE  /\ Min(At(records, a, n)) < Min(At(records, b, n)) <=> n % 2 = 0
                          /\ Min(At(records, b, n)) < Min(At(records, a, n)) <=> ~(n % 2 = 0)
      OBVIOUS
    <3>2. At(records, a, n) = {RowNumber(p, n)} /\ At(records, b, n) = {RowNumber(q, n)}
      BY <1>1, <1>2, <3>1
    <3>3. /\ RowNumber(p, n) < RowNumber(q, n) <=> n % 2 = 0
          /\ RowNumber(q, n) < RowNumber(p, n) <=> ~(n % 2 = 0)
          /\ Min({RowNumber(p, n)}) = RowNumber(p, n)
          /\ Min({RowNumber(q, n)}) = RowNumber(q, n)
      <4>1. spec \in Specs
        BY <1>1, <1>2
      <4> HIDE DEF a, b
      <4>2. QED
        BY <1>2, <3>1, <4>1, WhoRunsFirst
    <3> HIDE DEF a, b
    <3>4. QED
      BY <3>2, <3>3
  <2>2. /\ {n \in Repetitions : Min(At(records, a, n)) < Min(At(records, b, n))} = evens
        /\ {n \in Repetitions : Min(At(records, b, n)) < Min(At(records, a, n))} = odds
    BY <2>1
  <2>3. /\ Cardinality(evens) \in Nat /\ Cardinality(odds) \in Nat
        /\ Cardinality(evens) - Cardinality(odds) \in 0..1
    BY <1>1, <1>2, EvensAndOdds
  <2> HIDE DEF a, b, evens, odds
  <2>4. firsts(a, b) = Cardinality(evens) /\ firsts(b, a) = Cardinality(odds)
    BY <2>2
  <2>5. firsts(a, b) - firsts(b, a) \in -1..1 /\ firsts(b, a) - firsts(a, b) \in -1..1
    BY <2>3, <2>4
  <2>6. QED
    BY <2>5 DEF a, b
<1>3. Inv => OrderIsBalanced
  <2>1. SUFFICES ASSUME Inv, pc = "admitted"
                 PROVE  /\ \A a \in ArmsOf(records), n \in Repetitions :
                             Cardinality(At(records, a, n)) = 1
                        /\ \A a, b \in ArmsOf(records) :
                             a # b => firsts(a, b) - firsts(b, a) \in -1..1
    BY DEF OrderIsBalanced, At
  <2>2. ASSUME NEW a \in ArmsOf(records), NEW n \in Repetitions
        PROVE  Cardinality(At(records, a, n)) = 1
    <3>1. PICK p \in 1..Len(spec.arms) : a = spec.arms[p]
      BY <1>1, <2>1
    <3>2. At(records, a, n) = {RowNumber(p, n)}
      BY <1>1, <2>1, <3>1
    <3>3. QED
      BY <3>2, FS_Singleton
  <2>3. ASSUME NEW a \in ArmsOf(records), NEW b \in ArmsOf(records), a # b
        PROVE  firsts(a, b) - firsts(b, a) \in -1..1
    <3>1. PICK p \in 1..Len(spec.arms) : a = spec.arms[p]
      BY <1>1, <2>1
    <3>2. PICK q \in 1..Len(spec.arms) : b = spec.arms[q]
      BY <1>1, <2>1
    <3>3. p \in Int /\ q \in Int /\ p # q
      BY <2>3, <3>1, <3>2
    <3> HIDE DEF firsts
    <3>4. CASE p < q
      BY <1>2, <2>1, <3>1, <3>2, <3>4
    <3>5. CASE q < p
      BY <1>2, <2>1, <3>1, <3>2, <3>5
    <3>6. QED
      BY <3>3, <3>4, <3>5
  <2>4. QED
    BY <2>2, <2>3
<1>4. QED
  BY <1>3, InvariantHolds, PTL

-------------------------------------------------------------------------------
(* The verdicts.                                                            *)

LEMMA SeenIs ==
  ASSUME Whole(artifact.records), NEW arm \in ArmsOf(artifact.records), NEW n \in Repetitions
  PROVE  Seen(arm, n) = RowAt(artifact.records, arm, n).seen
<1> DEFINE recs == artifact.records
           row == RowAt(recs, arm, n)
           Mine(r) == r.arm = arm /\ r.repetition = n
<1>1. PICK i \in DOMAIN recs : At(recs, arm, n) = {i} /\ recs[i] = row
  BY RowAtIs
<1>2. row \in Range(recs) /\ Mine(row)
  BY <1>1, RowAtIs DEF Range
<1>3. ASSUME NEW r \in Range(recs), Mine(r) PROVE r = row
  <2>1. PICK j \in DOMAIN recs : r = recs[j]
    BY DEF Range
  <2>2. j \in At(recs, arm, n)
    BY <1>3, <2>1 DEF At
  <2>3. QED
    BY <1>1, <2>1, <2>2
<1>4. (CHOOSE r \in Range(recs) : Mine(r)) = row
  <2> HIDE DEF recs, row, Mine
  <2>1. QED
    BY <1>2, <1>3
<1>5. QED
  BY <1>4 DEF Seen

\* The numbers of an arm are those of its rows.
LEMMA NumberIs ==
  ASSUME spec \in Specs, NEW recs, Whole(recs), NEW arm \in ArmsOf(recs), NEW n \in Repetitions
  PROVE  /\ Numbers(recs, arm, "tps")[n] = RowAt(recs, arm, n).seen.tps
         /\ Numbers(recs, arm, "swap")[n] = PeakGrowth(RowAt(recs, arm, n), "swap")
         /\ n \in Reported(recs, arm, "hit") =>
              Numbers(recs, arm, "hit")[n] = RowAt(recs, arm, n).seen.hit
<1>1. Reported(recs, arm, "tps") = Repetitions /\ Reported(recs, arm, "swap") = Repetitions
  BY NumbersType, EvidenceNames DEF Names
<1>2. QED
  BY <1>1, MeasureIs DEF Numbers

\* What the numbers of two arms in each repetition say of their summaries.
LEMMA SummariesFollow ==
  ASSUME spec \in Specs, NEW recs, Whole(recs),
         NEW a \in ArmsOf(recs), NEW b \in ArmsOf(recs), NEW name \in Names,
         Reported(recs, a, name) = Repetitions, Reported(recs, b, name) = Repetitions
  PROVE  /\ Summary(recs, a, name) \in Nat /\ Summary(recs, b, name) \in Nat
         /\ \E n, m \in Repetitions :
              /\ Numbers(recs, a, name)[n] + Numbers(recs, a, name)[m] >= Summary(recs, a, name)
              /\ Numbers(recs, b, name)[n] + Numbers(recs, b, name)[m] <= Summary(recs, b, name)
<1> DEFINE v == Numbers(recs, a, name)
           w == Numbers(recs, b, name)
<1>1. v \in [Repetitions -> Nat] /\ w \in [Repetitions -> Nat]
  BY NumbersType
<1>2. Summary(recs, a, name) = TwiceMedian(v) /\ Summary(recs, b, name) = TwiceMedian(w)
  BY SummaryIs
<1>3. IsFiniteSet(Repetitions) /\ Repetitions # {}
  BY RepetitionsAre
<1> HIDE DEF v, w
<1>4. v \in [Repetitions -> Int] /\ w \in [Repetitions -> Int]
  BY <1>1
<1>5. PICK n, m \in Repetitions : w[n] + w[m] <= TwiceMedian(w) /\ v[n] + v[m] >= TwiceMedian(v)
  BY <1>3, <1>4, MedianWitness
<1>6. PICK i, j \in Repetitions : TwiceMedian(v) = v[i] + v[j]
  BY <1>3, <1>4, MedianAttained
<1>7. PICK k, l \in Repetitions : TwiceMedian(w) = w[k] + w[l]
  BY <1>3, <1>4, MedianAttained
<1>8. Summary(recs, a, name) \in Nat /\ Summary(recs, b, name) \in Nat
  BY <1>1, <1>2, <1>6, <1>7
<1>9. QED
  BY <1>2, <1>5, <1>8 DEF v, w

\* The median of numbers that are all below, or all above, zero.
LEMMA MedianSign ==
  ASSUME spec \in Specs, NEW v \in [Repetitions -> Int]
  PROVE  /\ (\A n \in Repetitions : v[n] > 0) => TwiceMedian(v) > 0
         /\ (\A n \in Repetitions : v[n] < 0) => TwiceMedian(v) < 0
<1>1. PICK n, m \in Repetitions : TwiceMedian(v) = v[n] + v[m]
  BY RepetitionsAre, MedianAttained
<1>2. QED
  BY <1>1

LEMMA FasterArm ==
  ASSUME spec \in Specs, NEW recs, Whole(recs), NEW a \in ArmsOf(recs), NEW b \in ArmsOf(recs),
         \A n \in Repetitions : RowAt(recs, a, n).seen.tps > RowAt(recs, b, n).seen.tps
  PROVE  Summary(recs, a, "tps") - Summary(recs, b, "tps") > 0
<1> DEFINE v == Numbers(recs, a, "tps")
           w == Numbers(recs, b, "tps")
<1>1. /\ "tps" \in Names
      /\ Reported(recs, a, "tps") = Repetitions /\ Reported(recs, b, "tps") = Repetitions
      /\ v \in [Repetitions -> Nat] /\ w \in [Repetitions -> Nat]
  BY NumbersType DEF Names
<1>2. \A n \in Repetitions : v[n] > w[n]
  BY NumberIs
<1>3. PICK n, m \in Repetitions : /\ w[n] + w[m] >= Summary(recs, b, "tps")
                                  /\ v[n] + v[m] <= Summary(recs, a, "tps")
  BY <1>1, SummariesFollow
<1>4. Summary(recs, a, "tps") \in Nat /\ Summary(recs, b, "tps") \in Nat
  BY <1>1, SummariesFollow
<1> HIDE DEF v, w
<1>5. QED
  BY <1>1, <1>2, <1>3, <1>4

\* A purgeable candidate that wins, or loses, every repetition is reported so by
\* the paired median and by the aggregate.
THEOREM UnanimousWinIsAlwaysReported == Spec => []UnanimousWinIsReported
<1> DEFINE wins(a, b) == \A n \in Repetitions : Seen(a, n).tps > Seen(b, n).tps
<1>1. ASSUME Inv, NEW g \in gains
      PROVE  /\ wins(g.candidate, g.baseline) => g.median > 0 /\ g.aggregate > 0
             /\ wins(g.baseline, g.candidate) => g.median < 0 /\ g.aggregate < 0
  <2> DEFINE recs == artifact.records
  <2>1. spec \in Specs /\ Whole(recs)
    BY <1>1, AnalysedIsWhole
  <2>2. PICK b \in ArmsOf(recs), c \in ArmsOf(recs) : g = Comparison(b, c)
    BY <1>1 DEF Inv, Written
  <2> DEFINE gaps == PairedGaps(recs, b, c)
             losses == [n \in DOMAIN gaps |-> -gaps[n]]
  <2>3. /\ g.baseline = b /\ g.candidate = c /\ g.median = TwiceMedian(losses)
        /\ g.aggregate = Summary(recs, c, "tps") - Summary(recs, b, "tps")
    BY <2>2 DEF Comparison, Slowdowns
  <2>4. \A n \in Repetitions : /\ Seen(b, n) = RowAt(recs, b, n).seen
                               /\ Seen(c, n) = RowAt(recs, c, n).seen
    BY <2>1, SeenIs
  <2>5. /\ gaps \in [Repetitions -> Int]
        /\ \A n \in Repetitions : gaps[n] = GapAt(recs, b, c, n)
    BY <2>1, GapsAre
  <2>6. \A n \in Repetitions : /\ gaps[n] > 0 <=> Seen(b, n).tps > Seen(c, n).tps
                               /\ gaps[n] < 0 <=> Seen(c, n).tps > Seen(b, n).tps
    <3>1. SUFFICES ASSUME NEW n \in Repetitions
                   PROVE  /\ gaps[n] > 0 <=> Seen(b, n).tps > Seen(c, n).tps
                          /\ gaps[n] < 0 <=> Seen(c, n).tps > Seen(b, n).tps
      OBVIOUS
    <3> DEFINE t == RowAt(recs, b, n).seen.tps
               u == RowAt(recs, c, n).seen.tps
    <3>2. t \in Nat \ {0} /\ u \in Nat \ {0} /\ Scale % t = 0
      BY <2>1, <3>1, TpsAt
    <3>3. gaps[n] = (t - u) * (Scale \div t) /\ Seen(b, n).tps = t /\ Seen(c, n).tps = u
      BY <2>4, <2>5, <3>1 DEF GapAt
    <3> HIDE DEF t, u, gaps
    <3> DEFINE gap == (t - u) * (Scale \div t)
    <3>4. u \in Nat
      BY <3>2
    <3>5. (gap > 0 <=> t > u) /\ (gap < 0 <=> t < u)
      BY <3>2, <3>4, GapSign
    <3>6. gaps[n] = gap
      BY <3>3
    <3> HIDE DEF gap
    <3>7. QED
      BY <3>2, <3>3, <3>5, <3>6
  <2>7. losses \in [Repetitions -> Int] /\ \A n \in Repetitions : losses[n] = -gaps[n]
    BY <2>5
  <2> HIDE DEF losses, gaps
  <2>8. ASSUME wins(c, b) PROVE g.median > 0 /\ g.aggregate > 0
    <3>1. \A n \in Repetitions : losses[n] > 0
      BY <2>5, <2>6, <2>7, <2>8
    <3>2. \A n \in Repetitions : RowAt(recs, c, n).seen.tps > RowAt(recs, b, n).seen.tps
      BY <2>4, <2>8
    <3> HIDE DEF recs
    <3>3. QED
      BY <2>1, <2>2, <2>3, <2>7, <3>1, <3>2, MedianSign, FasterArm
  <2>9. ASSUME wins(b, c) PROVE g.median < 0 /\ g.aggregate < 0
    <3>1. \A n \in Repetitions : losses[n] < 0
      BY <2>5, <2>6, <2>7, <2>9
    <3>2. \A n \in Repetitions : RowAt(recs, b, n).seen.tps > RowAt(recs, c, n).seen.tps
      BY <2>4, <2>9
    <3> HIDE DEF recs
    <3>3. Summary(recs, b, "tps") - Summary(recs, c, "tps") > 0
      BY <2>1, <2>2, <3>2, FasterArm
    <3>4. Summary(recs, b, "tps") \in Nat /\ Summary(recs, c, "tps") \in Nat
      BY <2>1, <2>2, SummaryType, EvidenceNames DEF Names
    <3>5. QED
      BY <2>1, <2>3, <2>7, <3>1, <3>3, <3>4, MedianSign
  <2>10. QED
    BY <2>3, <2>8, <2>9
<1>2. Inv => UnanimousWinIsReported
  BY <1>1 DEF UnanimousWinIsReported
<1>3. QED
  BY <1>2, InvariantHolds, PTL

\* Gate 1 finds a pair in which every repetition shows the gap, more hits and
\* more swap.
LEMMA UnanimousPair ==
  ASSUME spec \in Specs, NEW recs, Whole(recs), spec.repetitions >= MinimumRepetitions,
         NEW a \in ArmsOf(recs), NEW b \in ArmsOf(recs),
         a.pressure = b.pressure, a.cache < b.cache,
         \A n \in Repetitions :
           LET r == RowAt(recs, a, n)
               s == RowAt(recs, b, n)
           IN /\ 100 * (r.seen.tps - s.seen.tps) >= GapPercent * r.seen.tps
              /\ r.seen.hit # None /\ s.seen.hit > r.seen.hit
              /\ PeakGrowth(s, "swap") > PeakGrowth(r, "swap")
  PROVE  <<a, b>> \in Candidates(recs)
<1> DEFINE pair == <<a, b>>
           t(n) == RowAt(recs, a, n).seen.tps
           u(n) == RowAt(recs, b, n).seen.tps
<1>1. /\ IsFiniteSet(Repetitions) /\ Repetitions # {}
      /\ Cardinality(Repetitions) = spec.repetitions /\ spec.repetitions \in Nat
  BY RepetitionsAre
<1>2. /\ GapPercent \in Nat \ {0} /\ Scale \in Nat \ {0}
      /\ MinimumRepetitions \in Nat /\ MinimumSupport \in Nat
      /\ MinimumSupport <= MinimumRepetitions
  BY BoundsAssumption
<1>3. {"tps", "hit", "swap"} \subseteq Names /\ "swap" \in DOMAIN TwiceEvidence
  BY EvidenceNames DEF Names
<1>4. \A arm \in {a, b} : \A name \in {"tps", "hit", "swap"} :
        Reported(recs, arm, name) = Repetitions
  <2>1. \A arm \in {a, b} : \A name \in {"tps", "swap"} : Reported(recs, arm, name) = Repetitions
    BY <1>3, NumbersType
  <2>2. ASSUME NEW arm \in {a, b}, NEW n \in Repetitions
        PROVE  Measure(RowAt(recs, arm, n), "hit") # None
    <3>1. RowAt(recs, a, n) \in Row /\ RowAt(recs, b, n) \in Row
      BY RowAtIs
    <3>2. RowAt(recs, a, n).seen.hit \in Maybe /\ RowAt(recs, b, n).seen.hit \in Maybe
      BY <3>1, Memory
    <3>3. /\ RowAt(recs, a, n).seen.hit # None
          /\ RowAt(recs, b, n).seen.hit > RowAt(recs, a, n).seen.hit
      OBVIOUS
    <3>4. RowAt(recs, b, n).seen.hit # None
      BY <3>2, <3>3 DEF Maybe, None
    <3>5. QED
      BY <3>3, <3>4, MeasureIs
  <2>3. \A arm \in {a, b} : Reported(recs, arm, "hit") = Repetitions
    BY <2>2 DEF Reported
  <2>4. QED
    BY <2>1, <2>3
<1>5. \A arm \in {a, b} : \A name \in {"tps", "hit", "swap"} :
        Summary(recs, arm, name) \in Nat /\ Numbers(recs, arm, name) \in [Repetitions -> Nat]
  BY <1>3, <1>4, SummariesFollow, NumbersType
<1>6. ASSUME NEW n \in Repetitions
      PROVE  /\ Numbers(recs, a, "tps")[n] = t(n) /\ Numbers(recs, b, "tps")[n] = u(n)
             /\ t(n) \in Nat \ {0} /\ u(n) \in Nat \ {0} /\ Scale % t(n) = 0
             /\ 100 * (t(n) - u(n)) >= GapPercent * t(n)
             /\ Numbers(recs, b, "hit")[n] > Numbers(recs, a, "hit")[n]
             /\ Numbers(recs, b, "swap")[n] > Numbers(recs, a, "swap")[n]
  BY <1>4, TpsAt, NumberIs
<1> HIDE DEF t, u
<1>7. Summary(recs, a, "tps") # 0
  <2> DEFINE v == Numbers(recs, a, "tps")
  <2>1. v \in [Repetitions -> Int] /\ Summary(recs, a, "tps") = TwiceMedian(v)
    BY <1>3, <1>4, <1>5, SummaryIs
  <2>2. \A n \in Repetitions : v[n] > 0
    BY <1>6
  <2> HIDE DEF v
  <2>3. QED
    BY <2>1, <2>2, MedianSign
<1>8. Summary(recs, b, "hit") > Summary(recs, a, "hit")
  <2> DEFINE v == Numbers(recs, a, "hit")
             w == Numbers(recs, b, "hit")
  <2>1. PICK n, m \in Repetitions : /\ v[n] + v[m] >= Summary(recs, a, "hit")
                                    /\ w[n] + w[m] <= Summary(recs, b, "hit")
    BY <1>3, <1>4, SummariesFollow
  <2>2. /\ v[n] \in Nat /\ v[m] \in Nat /\ w[n] \in Nat /\ w[m] \in Nat
        /\ w[n] > v[n] /\ w[m] > v[m]
        /\ Summary(recs, a, "hit") \in Nat /\ Summary(recs, b, "hit") \in Nat
    BY <1>5, <1>6
  <2> HIDE DEF v, w
  <2>3. QED
    BY <2>1, <2>2
<1>9. Summary(recs, b, "swap") - Summary(recs, a, "swap") >= 1
  <2> DEFINE v == Numbers(recs, a, "swap")
             w == Numbers(recs, b, "swap")
  <2>1. PICK n, m \in Repetitions : /\ v[n] + v[m] >= Summary(recs, a, "swap")
                                    /\ w[n] + w[m] <= Summary(recs, b, "swap")
    BY <1>3, <1>4, SummariesFollow
  <2>2. /\ v[n] \in Nat /\ v[m] \in Nat /\ w[n] \in Nat /\ w[m] \in Nat
        /\ w[n] > v[n] /\ w[m] > v[m]
        /\ Summary(recs, a, "swap") \in Nat /\ Summary(recs, b, "swap") \in Nat
    BY <1>5, <1>6
  <2> HIDE DEF v, w
  <2>3. QED
    BY <2>1, <2>2
<1>10. pair[1] = a /\ pair[2] = b /\ pair \in ArmsOf(recs) \X ArmsOf(recs)
  OBVIOUS
<1> HIDE DEF pair
<1>11. pair \in Compared(recs)
  <2>1. \A i \in {1, 2} : Summary(recs, pair[i], "tps") # None /\ Summary(recs, pair[i], "hit") # None
    BY <1>5, <1>10 DEF None
  <2>2. QED
    BY <1>7, <1>10, <2>1 DEF Compared, Smaller
<1>12. IsTradeoff(recs, pair)
  <2>1. OrZero(Summary(recs, a, "swap")) = Summary(recs, a, "swap")
        /\ OrZero(Summary(recs, b, "swap")) = Summary(recs, b, "swap")
    BY <1>5 DEF OrZero, None
  <2>2. Growth(recs, pair, "swap") = Summary(recs, b, "swap") - Summary(recs, a, "swap")
    BY <1>10, <2>1 DEF Growth
  <2>3. TwiceEvidence["swap"] = 1
    BY DEF TwiceEvidence
  <2>4. Growth(recs, pair, "swap") >= TwiceEvidence["swap"]
    BY <1>9, <2>2, <2>3
  <2>5. QED
    BY <1>3, <1>8, <1>10, <2>4 DEF IsTradeoff
<1>13. ShowsGap(recs, pair)
  <2> DEFINE x == Summary(recs, a, "tps")
             y == Summary(recs, b, "tps")
  <2>1. PICK n, m \in Repetitions :
          /\ Numbers(recs, b, "tps")[n] + Numbers(recs, b, "tps")[m] >= y
          /\ Numbers(recs, a, "tps")[n] + Numbers(recs, a, "tps")[m] <= x
    BY <1>3, <1>4, SummariesFollow
  <2>2. u(n) + u(m) >= y /\ t(n) + t(m) <= x /\ x \in Nat /\ y \in Nat
    BY <1>5, <1>6, <2>1
  <2> HIDE DEF x, y
  <2> DEFINE rest == 100 - GapPercent
  <2>3. rest * t(n) >= 100 * u(n) /\ rest * t(m) >= 100 * u(m)
    BY <1>2, <1>6
  <2>4. rest \in Nat \ {0}
    <3>1. SUFFICES ASSUME ~(rest > 0) PROVE FALSE
      BY <1>2
    <3>2. t(n) \in Nat /\ u(n) \in Nat /\ u(n) > 0 /\ rest \in Int
      BY <1>2, <1>6
    <3>3. rest * t(n) <= 0
      BY <3>1, <3>2
    <3>4. QED
      BY <2>3, <3>2, <3>3
  <2> HIDE DEF rest
  <2>5. x * rest >= (t(n) + t(m)) * rest
    <3>1. t(n) + t(m) \in Int
      BY <1>6
    <3>2. QED
      BY <2>2, <2>4, <3>1, Products
  <2>6. (t(n) + t(m)) * rest = rest * t(n) + rest * t(m)
    BY <1>6, <2>4
  <2>7. x * rest \in Int /\ rest * t(n) \in Int /\ rest * t(m) \in Int
    BY <1>6, <2>2, <2>4
  <2>8. x * rest >= 100 * y
    BY <1>6, <2>2, <2>3, <2>5, <2>6, <2>7
  <2>9. x * rest = 100 * x - GapPercent * x
    BY <1>2, <2>2 DEF rest
  <2>10. 100 * (x - y) >= GapPercent * x
    <3>1. GapPercent * x \in Int
      BY <1>2, <2>2
    <3>2. QED
      BY <2>2, <2>8, <2>9, <3>1
  <2>11. QED
    BY <1>10, <2>10 DEF ShowsGap, x, y
<1>14. IsRepeated(recs, pair)
  <2> DEFINE gaps == PairedGaps(recs, a, b)
  <2>1. gaps \in [Repetitions -> Int] /\ \A n \in Repetitions : gaps[n] = GapAt(recs, a, b, n)
    BY GapsAre
  <2> HIDE DEF gaps
  <2>2. DOMAIN gaps = Repetitions
    BY <2>1
  <2>3. ASSUME NEW n \in Repetitions
        PROVE  gaps[n] > 0 /\ 100 * gaps[n] >= GapPercent * Scale
    <3>1. gaps[n] = (t(n) - u(n)) * (Scale \div t(n))
      BY <2>1 DEF GapAt, t, u
    <3>2. t(n) > u(n)
      <4>1. t(n) \in Nat \ {0} /\ u(n) \in Nat /\ 100 * (t(n) - u(n)) >= GapPercent * t(n)
        BY <1>6
      <4> DEFINE least == GapPercent * t(n)
      <4>2. least \in Int /\ least > 0
        BY <1>2, <4>1
      <4>3. 100 * (t(n) - u(n)) >= least
        BY <4>1
      <4> HIDE DEF least
      <4>4. QED
        BY <4>1, <4>2, <4>3
    <3> DEFINE gap == (t(n) - u(n)) * (Scale \div t(n))
    <3>3. gap > 0 /\ 100 * gap >= GapPercent * Scale
      <4>1. t(n) \in Nat \ {0} /\ u(n) \in Nat /\ Scale % t(n) = 0
        BY <1>6
      <4>2. QED
        BY <1>6, <3>2, <4>1, GapSign
    <3>4. QED
      BY <3>1, <3>3
  <2>4. {n \in DOMAIN gaps : gaps[n] > 0} = Repetitions
    BY <2>2, <2>3
  <2>5. 100 * TwiceMedian(gaps) >= 2 * GapPercent * Scale
    <3>1. PICK n, m \in Repetitions : TwiceMedian(gaps) = gaps[n] + gaps[m]
      BY <1>1, <2>1, MedianAttained
    <3>2. 100 * gaps[n] >= GapPercent * Scale /\ 100 * gaps[m] >= GapPercent * Scale
      BY <2>3
    <3>3. GapPercent * Scale \in Nat /\ 2 * GapPercent * Scale = 2 * (GapPercent * Scale)
      BY <1>2
    <3>4. QED
      BY <2>1, <3>1, <3>2, <3>3
  <2>6. /\ Cardinality(DOMAIN gaps) >= MinimumRepetitions
        /\ Cardinality({n \in DOMAIN gaps : gaps[n] > 0}) >= MinimumSupport
    <3>1. Cardinality(DOMAIN gaps) = Cardinality(Repetitions)
      BY <2>2, Zenon
    <3>2. Cardinality({n \in DOMAIN gaps : gaps[n] > 0}) = Cardinality(Repetitions)
      BY <2>4, Zenon
    <3>3. spec.repetitions \in Nat /\ spec.repetitions >= MinimumRepetitions
      BY <1>1
    <3>4. QED
      BY <1>1, <1>2, <3>1, <3>2, <3>3
  <2>7. QED
    BY <1>10, <2>5, <2>6 DEF IsRepeated, gaps
<1>15. QED
  BY <1>11, <1>12, <1>13, <1>14 DEF Candidates, pair

\* Gate 1 misses nothing unanimous, for every number of repetitions, all
\* thresholds and whatever else the experiment compares.
THEOREM UnanimousGapIsFound == Spec => []UnanimousGapPasses
<1>1. ASSUME Inv, Analysed, spec.repetitions >= MinimumRepetitions,
             NEW small \in ArmsOf(artifact.records), NEW large \in ArmsOf(artifact.records),
             small.pressure = large.pressure, small.cache < large.cache,
             \A n \in Repetitions : GapIn(n, small, large) /\ SwapForHitsIn(n, small, large)
      PROVE  <<small, large>> \in verdict
  <2> DEFINE recs == artifact.records
  <2>1. spec \in Specs /\ Whole(recs) /\ verdict = Candidates(recs)
    BY <1>1, AnalysedIsWhole
  <2>2. ASSUME NEW n \in Repetitions
        PROVE  LET r == RowAt(recs, small, n)
                   s == RowAt(recs, large, n)
               IN /\ 100 * (r.seen.tps - s.seen.tps) >= GapPercent * r.seen.tps
                  /\ r.seen.hit # None /\ s.seen.hit > r.seen.hit
                  /\ PeakGrowth(s, "swap") > PeakGrowth(r, "swap")
    <3> DEFINE r == RowAt(recs, small, n)
               s == RowAt(recs, large, n)
               swapped(row) ==
                 {m.swap - row.seen.memory[1].swap : m \in Range(row.seen.memory)}
    <3>1. Seen(small, n) = r.seen /\ Seen(large, n) = s.seen
      BY <2>1, SeenIs
    <3>2. r \in Row /\ s \in Row
      BY <2>1, RowAtIs
    <3>3. GapIn(n, small, large) /\ SwapForHitsIn(n, small, large)
      BY <1>1
    <3>4. /\ 100 * (r.seen.tps - s.seen.tps) >= GapPercent * r.seen.tps
          /\ r.seen.hit # None /\ s.seen.hit > r.seen.hit
          /\ \E x \in swapped(s) : \A y \in swapped(r) : x > y
      BY <3>1, <3>3 DEF GapIn, SwapForHitsIn
    <3> HIDE DEF r, s
    <3>5. PICK i \in DOMAIN s.seen.memory :
            \A y \in swapped(r) : s.seen.memory[i].swap - s.seen.memory[1].swap > y
      BY <3>4 DEF Range
    <3>6. PICK j \in DOMAIN r.seen.memory :
            PeakGrowth(r, "swap") = r.seen.memory[j].swap - r.seen.memory[1].swap
      BY <3>2, PeakType
    <3>7. PeakGrowth(r, "swap") \in swapped(r)
      BY <3>6 DEF Range
    <3>8. s.seen.memory[i].swap \in Nat /\ s.seen.memory[1].swap \in Nat
      BY <3>2, Memory DEF Snapshots
    <3>9. /\ PeakGrowth(s, "swap") >= s.seen.memory[i].swap - s.seen.memory[1].swap
          /\ PeakGrowth(s, "swap") \in Nat /\ PeakGrowth(r, "swap") \in Nat
      BY <3>2, PeakType
    <3>10. PeakGrowth(s, "swap") > PeakGrowth(r, "swap")
      BY <3>5, <3>7, <3>8, <3>9
    <3>11. QED
      BY <3>4, <3>10 DEF r, s
  <2> HIDE DEF recs
  <2>3. small \in ArmsOf(recs) /\ large \in ArmsOf(recs)
    BY DEF recs
  <2>4. <<small, large>> \in Candidates(recs)
    BY <1>1, <2>1, <2>2, <2>3, UnanimousPair
  <2>5. QED
    BY <2>1, <2>4
<1>2. Inv => UnanimousGapPasses
  BY <1>1 DEF UnanimousGapPasses
<1>3. QED
  BY <1>2, InvariantHolds, PTL

\* A candidate has enough repetitions with the whole gap.
LEMMA HalfShowsGap ==
  ASSUME spec \in Specs, NEW recs, Whole(recs), NEW a \in ArmsOf(recs), NEW b \in ArmsOf(recs),
         IsRepeated(recs, <<a, b>>)
  PROVE  2 * Cardinality({n \in Repetitions :
                100 * (RowAt(recs, a, n).seen.tps - RowAt(recs, b, n).seen.tps)
                  >= GapPercent * RowAt(recs, a, n).seen.tps}) >= spec.repetitions
<1> DEFINE gaps == PairedGaps(recs, a, b)
           t(n) == RowAt(recs, a, n).seen.tps
           u(n) == RowAt(recs, b, n).seen.tps
           shows == {n \in Repetitions : 100 * (t(n) - u(n)) >= GapPercent * t(n)}
<1>1. gaps \in [Repetitions -> Int] /\ \A n \in Repetitions : gaps[n] = GapAt(recs, a, b, n)
  BY GapsAre
<1>2. 100 * TwiceMedian(gaps) >= 2 * GapPercent * Scale
  BY DEF IsRepeated
<1>3. /\ IsFiniteSet(Repetitions) /\ Repetitions # {}
      /\ Cardinality(Repetitions) = spec.repetitions /\ spec.repetitions \in Nat
  BY RepetitionsAre
<1> HIDE DEF gaps
<1>4. PICK x \in Int : /\ 2 * x >= TwiceMedian(gaps)
                       /\ 2 * Cardinality({n \in Repetitions : gaps[n] >= x})
                            >= Cardinality(Repetitions)
  BY <1>1, <1>3, UpperHalf
<1>5. 100 * x >= GapPercent * Scale
  <2>1. PICK i, j \in Repetitions : TwiceMedian(gaps) = gaps[i] + gaps[j]
    BY <1>1, <1>3, MedianAttained
  <2> DEFINE bound == GapPercent * Scale
  <2>2. bound \in Nat /\ 2 * GapPercent * Scale = 2 * bound
    BY BoundsAssumption
  <2>3. TwiceMedian(gaps) \in Int
    BY <1>1, <2>1
  <2>4. 100 * TwiceMedian(gaps) >= 2 * bound
    BY <1>2, <2>2
  <2> HIDE DEF bound
  <2>5. 100 * x >= bound
    BY <1>4, <2>2, <2>3, <2>4
  <2>6. QED
    BY <2>5 DEF bound
<1>6. {n \in Repetitions : gaps[n] >= x} \subseteq shows
  <2>1. SUFFICES ASSUME NEW n \in Repetitions, gaps[n] >= x
                 PROVE  100 * (t(n) - u(n)) >= GapPercent * t(n)
    OBVIOUS
  <2>2. t(n) \in Nat \ {0} /\ u(n) \in Nat /\ Scale % t(n) = 0
    BY TpsAt
  <2>3. gaps[n] = (t(n) - u(n)) * (Scale \div t(n)) /\ gaps[n] \in Int
    BY <1>1 DEF GapAt
  <2> HIDE DEF t, u
  <2>4. 100 * gaps[n] >= GapPercent * Scale
    <3>1. GapPercent * Scale \in Int
      BY BoundsAssumption
    <3>2. 100 * gaps[n] >= 100 * x
      BY <2>1, <2>3
    <3>3. QED
      BY <1>5, <2>3, <3>1, <3>2
  <2>5. QED
    BY <2>2, <2>3, <2>4, GapSign
<1>7. IsFiniteSet(shows)
  <2>1. shows \subseteq Repetitions
    OBVIOUS
  <2> HIDE DEF shows
  <2>2. QED
    BY <1>3, <2>1, FS_Subset
<1> HIDE DEF shows
<1>8. /\ Cardinality({n \in Repetitions : gaps[n] >= x}) <= Cardinality(shows)
      /\ Cardinality({n \in Repetitions : gaps[n] >= x}) \in Nat /\ Cardinality(shows) \in Nat
  BY <1>6, <1>7, FS_Subset, FS_CardinalityType
<1>9. 2 * Cardinality(shows) >= spec.repetitions
  BY <1>3, <1>4, <1>8
<1>10. QED
  BY <1>9 DEF shows, t, u

\* A candidate's larger arm had more hits somewhere.
LEMMA SomewhereMoreHits ==
  ASSUME spec \in Specs, NEW recs, Whole(recs), NEW a \in ArmsOf(recs), NEW b \in ArmsOf(recs),
         Summary(recs, a, "hit") # None, Summary(recs, b, "hit") # None,
         Summary(recs, b, "hit") > Summary(recs, a, "hit")
  PROVE  \E n, m \in Repetitions : RowAt(recs, b, n).seen.hit > RowAt(recs, a, m).seen.hit
<1>1. ASSUME NEW arm \in ArmsOf(recs), Summary(recs, arm, "hit") # None
      PROVE  \E n, m \in Repetitions :
               /\ Summary(recs, arm, "hit") = RowAt(recs, arm, n).seen.hit + RowAt(recs, arm, m).seen.hit
               /\ RowAt(recs, arm, n).seen.hit \in Nat /\ RowAt(recs, arm, m).seen.hit \in Nat
  <2> DEFINE S == Reported(recs, arm, "hit")
             v == Numbers(recs, arm, "hit")
  <2>1. /\ S \in SUBSET Repetitions /\ IsFiniteSet(S) /\ v \in [S -> Nat]
        /\ Summary(recs, arm, "hit") = TwiceMedian(v)
    BY NumbersType, SummaryIs DEF Names
  <2>2. \A n \in S : v[n] = RowAt(recs, arm, n).seen.hit
    BY <2>1, NumberIs
  <2> HIDE DEF S, v
  <2>3. S # {}
    BY <1>1, <2>1, MedianOfNone
  <2>4. v \in [S -> Int] /\ \A n \in S : v[n] \in Nat
    BY <2>1
  <2>5. PICK n, m \in S : TwiceMedian(v) = v[n] + v[m]
    BY <2>1, <2>3, <2>4, MedianAttained
  <2>6. QED
    BY <2>1, <2>2, <2>4, <2>5
<1>2. PICK i, j \in Repetitions :
        /\ Summary(recs, a, "hit") = RowAt(recs, a, i).seen.hit + RowAt(recs, a, j).seen.hit
        /\ RowAt(recs, a, i).seen.hit \in Nat /\ RowAt(recs, a, j).seen.hit \in Nat
  BY <1>1
<1>3. PICK k, l \in Repetitions :
        /\ Summary(recs, b, "hit") = RowAt(recs, b, k).seen.hit + RowAt(recs, b, l).seen.hit
        /\ RowAt(recs, b, k).seen.hit \in Nat /\ RowAt(recs, b, l).seen.hit \in Nat
  BY <1>1
<1>4. \/ RowAt(recs, b, k).seen.hit > RowAt(recs, a, i).seen.hit
      \/ RowAt(recs, b, l).seen.hit > RowAt(recs, a, j).seen.hit
  BY <1>2, <1>3
<1>5. QED
  BY <1>4

\* Gate 1 finds nothing in a minority: at least half of the repetitions of every
\* candidate show the whole gap by themselves, and its larger cache had more
\* hits in some repetition, whatever the medians are of.
THEOREM PassAlwaysNeedsHalf == Spec => []PassNeedsHalf
<1>1. ASSUME Inv, NEW pair \in verdict
      PROVE  /\ 2 * Cardinality({n \in Repetitions : GapIn(n, pair[1], pair[2])})
                  >= spec.repetitions
             /\ \E n, m \in Repetitions : Seen(pair[2], n).hit > Seen(pair[1], m).hit
  <2> DEFINE recs == artifact.records
  <2>1. spec \in Specs /\ Whole(recs) /\ pair \in Candidates(recs)
    BY <1>1, AnalysedIsWhole
  <2>2. pair \in Compared(recs) /\ IsTradeoff(recs, pair) /\ IsRepeated(recs, pair)
    BY <2>1 DEF Candidates
  <2>3. PICK a \in ArmsOf(recs), b \in ArmsOf(recs) : pair = <<a, b>>
    BY <2>2 DEF Compared
  <2>4. pair[1] = a /\ pair[2] = b
    BY <2>3
  <2>5. /\ Summary(recs, a, "hit") # None /\ Summary(recs, b, "hit") # None
        /\ Summary(recs, b, "hit") > Summary(recs, a, "hit")
    BY <2>2, <2>4 DEF Compared, IsTradeoff
  <2>6. \A n \in Repetitions : /\ Seen(a, n) = RowAt(recs, a, n).seen
                               /\ Seen(b, n) = RowAt(recs, b, n).seen
    BY <2>1, SeenIs
  <2>7. {n \in Repetitions : GapIn(n, a, b)}
          = {n \in Repetitions :
               100 * (RowAt(recs, a, n).seen.tps - RowAt(recs, b, n).seen.tps)
                 >= GapPercent * RowAt(recs, a, n).seen.tps}
    BY <2>6 DEF GapIn
  <2> HIDE DEF recs
  <2>8. IsRepeated(recs, <<a, b>>)
    BY <2>2, <2>3
  <2>9. 2 * Cardinality({n \in Repetitions : GapIn(n, a, b)}) >= spec.repetitions
    BY <2>1, <2>7, <2>8, HalfShowsGap
  <2>10. \E n, m \in Repetitions : RowAt(recs, b, n).seen.hit > RowAt(recs, a, m).seen.hit
    BY <2>1, <2>5, SomewhereMoreHits
  <2>11. QED
    BY <2>4, <2>6, <2>9, <2>10
<1>2. Inv => PassNeedsHalf
  BY <1>1 DEF PassNeedsHalf
<1>3. QED
  BY <1>2, InvariantHolds, PTL

-------------------------------------------------------------------------------
(* The order of the rows.                                                   *)

\* The same rows, last first.
LEMMA ReversedRows ==
  ASSUME NEW recs \in Seq(Row)
  PROVE  LET back == Reverse(recs)
             mirror(i) == Len(recs) + 1 - i
         IN /\ back \in Seq(Row) /\ DOMAIN back = DOMAIN recs
            /\ \A i \in DOMAIN recs : /\ mirror(i) \in DOMAIN recs /\ mirror(mirror(i)) = i
                                      /\ back[i] = recs[mirror(i)] /\ recs[i] = back[mirror(i)]
            /\ ArmsOf(back) = ArmsOf(recs)
<1> DEFINE back == Reverse(recs)
           len == Len(recs)
           mirror(i) == len + 1 - i
<1>1. len \in Nat /\ DOMAIN recs = 1..len /\ recs \in [1..len -> Row]
  OBVIOUS
<1>2. back = [i \in 1..len |-> recs[(len - i) + 1]]
  BY DEF Reverse
<1> HIDE DEF back, len
<1>3. \A i \in 1..len : mirror(i) \in 1..len /\ mirror(mirror(i)) = i /\ (len - i) + 1 = mirror(i)
  BY <1>1
<1> HIDE DEF mirror
<1>4. \A i \in 1..len : back[i] = recs[mirror(i)] /\ recs[i] = back[mirror(i)]
  BY <1>2, <1>3
<1>5. back \in [1..len -> Row]
  BY <1>1, <1>2, <1>3
<1>6. back \in Seq(Row) /\ DOMAIN back = DOMAIN recs
  BY <1>1, <1>5
<1>7. ArmsOf(back) = ArmsOf(recs)
  <2>1. ArmsOf(back) = {back[i].arm : i \in 1..len} /\ ArmsOf(recs) = {recs[i].arm : i \in 1..len}
    BY <1>1, <1>5 DEF ArmsOf, Range
  <2>2. QED
    BY <1>3, <1>4, <2>1
<1>8. QED
  BY <1>1, <1>3, <1>4, <1>6, <1>7 DEF back, mirror, len

LEMMA ReversedIsWhole ==
  ASSUME NEW recs, Whole(recs)
  PROVE  /\ Whole(Reverse(recs)) /\ ArmsOf(Reverse(recs)) = ArmsOf(recs)
         /\ \A arm \in ArmsOf(recs), n \in Repetitions :
              RowAt(Reverse(recs), arm, n) = RowAt(recs, arm, n)
<1> DEFINE back == Reverse(recs)
           mirror(i) == Len(recs) + 1 - i
<1>1. recs \in Seq(Row)
  BY DEF Whole
<1>2. /\ back \in Seq(Row) /\ DOMAIN back = DOMAIN recs /\ ArmsOf(back) = ArmsOf(recs)
      /\ \A i \in DOMAIN recs : /\ mirror(i) \in DOMAIN recs /\ mirror(mirror(i)) = i
                                /\ back[i] = recs[mirror(i)] /\ recs[i] = back[mirror(i)]
  BY <1>1, ReversedRows
<1> HIDE DEF back, mirror
<1>3. ASSUME NEW arm \in ArmsOf(recs), NEW n \in Repetitions
      PROVE  \E j \in DOMAIN back : At(back, arm, n) = {j} /\ back[j] = RowAt(recs, arm, n)
  <2>1. PICK i \in DOMAIN recs : At(recs, arm, n) = {i} /\ recs[i] = RowAt(recs, arm, n)
    BY RowAtIs
  <2>2. mirror(i) \in DOMAIN back /\ back[mirror(i)] = recs[i]
    BY <1>2
  <2>3. ASSUME NEW k \in At(back, arm, n) PROVE k = mirror(i)
    <3>1. k \in DOMAIN recs /\ recs[mirror(k)] = back[k] /\ mirror(k) \in DOMAIN recs
      BY <1>2 DEF At
    <3>2. mirror(k) \in At(recs, arm, n)
      BY <3>1 DEF At
    <3>3. mirror(k) = i
      BY <2>1, <3>2
    <3>4. QED
      BY <1>2, <3>1, <3>3
  <2>4. i \in At(recs, arm, n)
    BY <2>1
  <2>5. mirror(i) \in At(back, arm, n)
    BY <2>2, <2>4 DEF At
  <2>6. At(back, arm, n) = {mirror(i)}
    BY <2>3, <2>5
  <2>7. QED
    BY <2>1, <2>2, <2>6
<1>4. \A i \in DOMAIN back : back[i].repetition \in Repetitions /\ Admissible(back[i])
  BY <1>2 DEF Whole
<1>5. Whole(back)
  BY <1>2, <1>3, <1>4 DEF Whole
<1>6. ASSUME NEW arm \in ArmsOf(recs), NEW n \in Repetitions
      PROVE  RowAt(back, arm, n) = RowAt(recs, arm, n)
  <2>1. PICK j \in DOMAIN back : At(back, arm, n) = {j} /\ back[j] = RowAt(recs, arm, n)
    BY <1>3
  <2>2. j \in At(back, arm, n)
    BY <2>1
  <2>3. back[j] = RowAt(back, arm, n)
    BY <1>2, <1>5, <2>2, RowAtIs
  <2>4. QED
    BY <2>1, <2>3
<1>7. QED
  BY <1>2, <1>5, <1>6 DEF back

\* What is computed of an arm, or of two, is computed of its rows in the
\* repetitions, wherever these stand.
LEMMA SameRowsSameNumbers ==
  ASSUME spec \in Specs, NEW recs, Whole(recs), NEW back, Whole(back),
         ArmsOf(back) = ArmsOf(recs),
         \A arm \in ArmsOf(recs), n \in Repetitions : RowAt(back, arm, n) = RowAt(recs, arm, n)
  PROVE  /\ \A arm \in ArmsOf(recs), name \in Names :
              Summary(back, arm, name) = Summary(recs, arm, name)
         /\ \A a, b \in ArmsOf(recs) : PairedGaps(back, a, b) = PairedGaps(recs, a, b)
<1>1. ASSUME NEW arm \in ArmsOf(recs), NEW name \in Names
      PROVE  Summary(back, arm, name) = Summary(recs, arm, name)
  <2>1. Reported(back, arm, name) = Reported(recs, arm, name)
    BY DEF Reported
  <2>2. \A n \in Reported(recs, arm, name) : RowAt(back, arm, n) = RowAt(recs, arm, n)
    BY DEF Reported
  <2>3. Numbers(back, arm, name) = Numbers(recs, arm, name)
    BY <2>1, <2>2 DEF Numbers
  <2>4. /\ Summary(back, arm, name) = TwiceMedian(Numbers(back, arm, name))
        /\ Summary(recs, arm, name) = TwiceMedian(Numbers(recs, arm, name))
    BY SummaryIs
  <2>5. QED
    BY <2>3, <2>4
<1>2. ASSUME NEW a \in ArmsOf(recs), NEW b \in ArmsOf(recs)
      PROVE  PairedGaps(back, a, b) = PairedGaps(recs, a, b)
  <2>1. /\ PairedGaps(recs, a, b) = [n \in Repetitions |-> GapAt(recs, a, b, n)]
        /\ PairedGaps(back, a, b) = [n \in Repetitions |-> GapAt(back, a, b, n)]
    BY GapsAre
  <2>2. \A n \in Repetitions : GapAt(back, a, b, n) = GapAt(recs, a, b, n)
    BY DEF GapAt
  <2>3. QED
    BY <2>1, <2>2
<1>3. QED
  BY <1>1, <1>2

\* Of arms with different caches the smaller is the one with the smaller cache.
LEMMA SmallerByCache ==
  ASSUME NEW recs, Whole(recs),
         \A a, b \in ArmsOf(recs) : a.cache = b.cache => a = b,
         NEW a \in ArmsOf(recs), NEW b \in ArmsOf(recs)
  PROVE  Smaller(recs, a, b) <=> a.cache < b.cache
<1>1. FirstRow(recs, a) \in Int
  <2> DEFINE rows == {i \in DOMAIN recs : recs[i].arm = a}
  <2>1. recs \in Seq(Row)
    BY DEF Whole
  <2>2. Len(recs) \in Nat /\ DOMAIN recs = 1..Len(recs)
    BY <2>1
  <2>3. IsFiniteSet(DOMAIN recs)
    BY <2>2, FS_Interval
  <2>4. rows \subseteq DOMAIN recs /\ rows \in SUBSET Int
    BY <2>2
  <2>5. rows # {}
    BY DEF ArmsOf, Range
  <2> HIDE DEF rows
  <2>6. IsFiniteSet(rows)
    BY <2>3, <2>4, FS_Subset
  <2>7. Min(rows) \in rows
    BY <2>4, <2>5, <2>6, MinOf
  <2>8. QED
    BY <2>4, <2>7 DEF FirstRow, rows
<1>2. CASE a.cache = b.cache
  <2>1. a = b
    BY <1>2
  <2>2. ~(FirstRow(recs, a) < FirstRow(recs, b))
    BY <1>1, <2>1
  <2>3. a.cache \in Nat
    <3>1. PICK i \in DOMAIN recs : recs[i].arm = a
      BY DEF ArmsOf, Range
    <3>2. recs \in Seq(Row)
      BY DEF Whole
    <3>3. recs[i] \in Row
      BY <3>1, <3>2
    <3>4. QED
      BY <3>1, <3>3 DEF Row, Arms
  <2>4. QED
    BY <1>2, <2>2, <2>3 DEF Smaller
<1>3. CASE a.cache # b.cache
  BY <1>3 DEF Smaller
<1>4. QED
  BY <1>2, <1>3

\* Every test of gate 1 has the same outcome on both.
LEMMA SameCandidates ==
  ASSUME spec \in Specs, NEW recs, Whole(recs), NEW back, Whole(back),
         ArmsOf(back) = ArmsOf(recs),
         \A arm \in ArmsOf(recs), n \in Repetitions : RowAt(back, arm, n) = RowAt(recs, arm, n),
         \A a, b \in ArmsOf(recs) : a.cache = b.cache => a = b
  PROVE  Candidates(back) = Candidates(recs)
<1>1. /\ \A arm \in ArmsOf(recs), name \in Names :
           Summary(back, arm, name) = Summary(recs, arm, name)
      /\ \A a, b \in ArmsOf(recs) : PairedGaps(back, a, b) = PairedGaps(recs, a, b)
  BY SameRowsSameNumbers
<1>2. \A a, b \in ArmsOf(recs) : Smaller(back, a, b) <=> Smaller(recs, a, b)
  <2>1. SUFFICES ASSUME NEW a \in ArmsOf(recs), NEW b \in ArmsOf(recs)
                 PROVE  Smaller(back, a, b) <=> Smaller(recs, a, b)
    OBVIOUS
  <2>2. Smaller(recs, a, b) <=> a.cache < b.cache
    BY SmallerByCache
  <2>3. Smaller(back, a, b) <=> a.cache < b.cache
    BY SmallerByCache
  <2>4. QED
    BY <2>2, <2>3
<1>3. ASSUME NEW pair \in ArmsOf(recs) \X ArmsOf(recs)
      PROVE  pair \in Candidates(back) <=> pair \in Candidates(recs)
  <2>1. pair[1] \in ArmsOf(recs) /\ pair[2] \in ArmsOf(recs)
    OBVIOUS
  <2>2. \A i \in {1, 2}, name \in Names : Summary(back, pair[i], name) = Summary(recs, pair[i], name)
    BY <1>1, <2>1
  <2>3. {"tps", "hit"} \subseteq Names /\ DOMAIN TwiceEvidence \subseteq Names
    BY DEF Names
  <2>4. pair \in Compared(back) <=> pair \in Compared(recs)
    BY <1>2, <2>1, <2>2, <2>3 DEF Compared
  <2>5. ShowsGap(recs, pair) <=> ShowsGap(back, pair)
    <3>1. /\ Summary(back, pair[1], "tps") = Summary(recs, pair[1], "tps")
          /\ Summary(back, pair[2], "tps") = Summary(recs, pair[2], "tps")
      BY <2>2, <2>3
    <3>2. QED
      BY <3>1 DEF ShowsGap
  <2>6. IsTradeoff(recs, pair) <=> IsTradeoff(back, pair)
    <3>1. \A name \in DOMAIN TwiceEvidence : Growth(back, pair, name) = Growth(recs, pair, name)
      BY <2>2, <2>3 DEF Growth
    <3>2. QED
      BY <2>2, <2>3, <3>1 DEF IsTradeoff
  <2>7. IsRepeated(recs, pair) <=> IsRepeated(back, pair)
    <3>1. PairedGaps(back, pair[1], pair[2]) = PairedGaps(recs, pair[1], pair[2])
      BY <1>1, <2>1
    <3>2. QED
      BY <3>1 DEF IsRepeated
  <2>8. QED
    BY <2>4, <2>5, <2>6, <2>7 DEF Candidates
<1>4. /\ Candidates(back) \subseteq ArmsOf(recs) \X ArmsOf(recs)
      /\ Candidates(recs) \subseteq ArmsOf(recs) \X ArmsOf(recs)
  BY DEF Candidates, Compared
<1>5. QED
  BY <1>3, <1>4

\* The verdict of gate 1 is the same for the rows in the reverse order, if no two
\* arms have the same cache.
THEOREM VerdictAlwaysIgnoresOrder == Spec => []VerdictIgnoresOrder
<1>1. ASSUME Inv, Analysed,
             \A a, b \in ArmsOf(artifact.records) : a.cache = b.cache => a = b
      PROVE  verdict = Candidates(Reverse(artifact.records))
  <2> DEFINE recs == artifact.records
  <2>1. spec \in Specs /\ Whole(recs) /\ verdict = Candidates(recs)
    BY <1>1, AnalysedIsWhole
  <2>2. \A a, b \in ArmsOf(recs) : a.cache = b.cache => a = b
    BY <1>1
  <2> HIDE DEF recs
  <2>3. Candidates(Reverse(recs)) = Candidates(recs)
    BY <2>1, <2>2, ReversedIsWhole, SameCandidates
  <2>4. QED
    BY <2>1, <2>3 DEF recs
<1>2. Inv => VerdictIgnoresOrder
  BY <1>1 DEF VerdictIgnoresOrder
<1>3. QED
  BY <1>2, InvariantHolds, PTL
===============================================================================
