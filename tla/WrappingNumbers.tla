-------------------------- MODULE WrappingNumbers --------------------------
(***************************************************************************)
(* What comparing numbers that wrap says of the numbers, and what a gap in *)
(* a set of numbers amounts to: the facts the proofs about packet and      *)
(* sequence numbers share.  And what the proofs that count have in place of*)
(* induction: the order of a finite set of numbers.                        *)
(***************************************************************************)
EXTENDS Integers, Sequences, FiniteSetsExt, Ranks, FiniteSetTheorems, TLAPS

-----------------------------------------------------------------------------
(* Comparing wrapping numbers.                                             *)

LEMMA ModIs ==
  ASSUME NEW n \in Nat \ {0}, NEW d \in Int, NEW r \in 0..(n - 1)
  PROVE  (n * d + r) % n = r
OBVIOUS

LEMMA ModDiv ==
  ASSUME NEW n \in Nat \ {0}, NEW a \in Nat
  PROVE  \E q \in Int : a = n * q + (a % n)
<1>1. a = n * (a \div n) + (a % n)
  OBVIOUS
<1>2. a \div n \in Int
  OBVIOUS
<1>. QED BY <1>1, <1>2

\* The difference of residues is that of the numbers, if those are near.
Delta(n, a, b) == ((a % n) - (b % n)) % n

LEMMA DeltaIs ==
  ASSUME NEW n \in Nat \ {0}, NEW a \in Nat, NEW b \in Nat,
         a - b < n, b - a < n
  PROVE  Delta(n, a, b) = IF a >= b THEN a - b ELSE a - b + n
<1>1. PICK q \in Int : a = n * q + (a % n)
  BY ModDiv
<1>2. PICK p \in Int : b = n * p + (b % n)
  BY ModDiv
<1>3. a % n \in Int /\ b % n \in Int
  OBVIOUS
<1>4. CASE a >= b
  <2>1. (a % n) - (b % n) = n * (p - q) + (a - b)
    <3>1. \A u, v, i, j \in Int : a = n * i + u /\ b = n * j + v
                => u - v = n * (j - i) + (a - b)
      OBVIOUS
    <3>. QED BY <1>1, <1>2, <1>3, <3>1
  <2>2. a - b \in 0..(n - 1) /\ p - q \in Int
    BY <1>4
  <2>. QED BY <1>4, <2>1, <2>2, ModIs DEF Delta
<1>5. CASE a < b
  <2>1. (a % n) - (b % n) = n * (p - q - 1) + (a - b + n)
    <3>1. \A u, v, i, j \in Int : a = n * i + u /\ b = n * j + v
                => u - v = n * (j - i - 1) + (a - b + n)
      OBVIOUS
    <3>. QED BY <1>1, <1>2, <1>3, <3>1
  <2>2. a - b + n \in 0..(n - 1) /\ p - q - 1 \in Int
    BY <1>5
  <2>. QED BY <1>5, <2>1, <2>2, ModIs DEF Delta
<1>. QED BY <1>4, <1>5

LEMMA MaxIs ==
  ASSUME NEW S \in SUBSET Int, NEW n \in S, \A i \in S : i <= n
  PROVE  Max(S) = n
<1>1. \E x \in S : \A y \in S : x >= y
  OBVIOUS
<1>2. Max(S) \in S /\ \A y \in S : Max(S) >= y
  BY <1>1, Zenon DEF Max
<1>3. Max(S) \in Int /\ n \in Int
  BY <1>2
<1>4. Max(S) >= n /\ n >= Max(S)
  BY <1>2, <1>3
<1>. QED BY <1>3, <1>4

-----------------------------------------------------------------------------
(* What a gap adds to the numbers that are missing, and a late one takes.  *)

Gaps(S, f, n) == Cardinality((f..n) \ S)

LEMMA GapsType ==
  ASSUME NEW S, NEW f \in Int, NEW n \in Int
  PROVE  IsFiniteSet((f..n) \ S) /\ Gaps(S, f, n) \in Nat
<1>1. IsFiniteSet(f..n)
  BY FS_Interval
<1>2. (f..n) \ S \in SUBSET (f..n)
  OBVIOUS
<1>3. IsFiniteSet((f..n) \ S)
  BY <1>1, <1>2, FS_Subset
<1>. QED BY <1>3, FS_CardinalityType DEF Gaps

LEMMA LateFills ==
  ASSUME NEW S, NEW f \in Int, NEW n \in Int, NEW x
  PROVE  /\ Gaps(S \cup {x}, f, n) <= Gaps(S, f, n)
         /\ Gaps(S, f, n) <= Gaps(S \cup {x}, f, n) + 1
<1>1. (f..n) \ (S \cup {x}) = ((f..n) \ S) \ {x}
  OBVIOUS
<1>2. IsFiniteSet((f..n) \ S) /\ Gaps(S, f, n) \in Nat
  BY GapsType
<1>3. Gaps(S \cup {x}, f, n) = IF x \in (f..n) \ S THEN Gaps(S, f, n) - 1 ELSE Gaps(S, f, n)
  BY <1>1, <1>2, FS_RemoveElement DEF Gaps
<1>. QED BY <1>2, <1>3

LEMMA NewerOpens ==
  ASSUME NEW S, NEW f \in Int, NEW n \in Int, NEW x \in Int,
         f <= n, n < x, \A i \in S : i <= n, S \subseteq Int
  PROVE  Gaps(S \cup {x}, f, x) = Gaps(S, f, n) + (x - n - 1)
<1>1. (f..x) \ (S \cup {x}) = ((f..n) \ S) \cup ((n + 1)..(x - 1))
  OBVIOUS
<1>2. ((f..n) \ S) \cap ((n + 1)..(x - 1)) = {}
  OBVIOUS
<1>3. IsFiniteSet((f..n) \ S) /\ Gaps(S, f, n) \in Nat
  BY GapsType
<1>4. /\ IsFiniteSet((n + 1)..(x - 1))
      /\ Cardinality((n + 1)..(x - 1)) = x - n - 1
  BY FS_Interval
<1>5. Cardinality(((f..n) \ S) \cup ((n + 1)..(x - 1)))
        = Cardinality((f..n) \ S) + Cardinality((n + 1)..(x - 1))
            - Cardinality(((f..n) \ S) \cap ((n + 1)..(x - 1)))
  BY <1>3, <1>4, FS_Union, Zenon
<1>6. Cardinality({}) = 0
  BY FS_EmptySet
<1>7. Cardinality((f..x) \ (S \cup {x}))
        = Cardinality((f..n) \ S) + (x - n - 1) - 0
  BY <1>1, <1>2, <1>4, <1>5, <1>6
<1>. QED BY <1>3, <1>7 DEF Gaps

-----------------------------------------------------------------------------
(* The order of a finite set of numbers.                                   *)

\* The rank of a member is a position in the set.
LEMMA RankIs ==
  ASSUME NEW set \in SUBSET Nat, IsFiniteSet(set), NEW d \in set
  PROVE  Rank(set, d) \in 1..Cardinality(set)
<1>. DEFINE T == {e \in set : e <= d}
<1>1. T \subseteq set /\ d \in T
  OBVIOUS
<1>2. IsFiniteSet(T) /\ Cardinality(T) <= Cardinality(set)
  BY <1>1, FS_Subset
<1>3. Cardinality(T) \in Nat /\ Cardinality(set) \in Nat
  BY <1>2, FS_CardinalityType
<1>4. Cardinality(T) # 0
  BY <1>1, <1>2, FS_EmptySet
<1>5. Rank(set, d) = Cardinality(T)
  BY DEF Rank
<1>. HIDE DEF T
<1>. QED BY <1>2, <1>3, <1>4, <1>5

\* No two numbers of a set are the i-th.
LEMMA RankOnce ==
  ASSUME NEW set \in SUBSET Nat, IsFiniteSet(set), NEW d \in set, NEW e \in set,
         Rank(set, d) = Rank(set, e)
  PROVE  d = e
<1>1. ASSUME NEW a \in set, NEW b \in set, a < b, Rank(set, a) = Rank(set, b)
      PROVE  FALSE
  <2>. DEFINE A == {x \in set : x <= a}
              B == {x \in set : x <= b}
  <2>1. A \subseteq B /\ B \subseteq set /\ b \in B /\ b \notin A
    <3>1. a \in Nat /\ b \in Nat /\ \A x \in set : x \in Nat
      OBVIOUS
    <3>2. \A x \in Nat : x <= a => x <= b
      BY <3>1, <1>1
    <3>3. ~(b <= a) /\ b <= b
      BY <3>1, <1>1
    <3>. QED BY <3>1, <3>2, <3>3
  <2>2. IsFiniteSet(B)
    BY <2>1, FS_Subset
  <2>3. Cardinality(A) = Cardinality(B)
    BY <1>1 DEF Rank
  <2>4. A = B
    BY <2>1, <2>2, <2>3, FS_Subset
  <2>. QED BY <2>1, <2>4
<1>2. d \in Nat /\ e \in Nat
  OBVIOUS
<1>. QED BY <1>1, <1>2

\* A set of at least i numbers has an i-th.
LEMMA NthIs ==
  ASSUME NEW set \in SUBSET Nat, IsFiniteSet(set), NEW i \in 1..Cardinality(set)
  PROVE  Nth(set, i) \in set /\ Rank(set, Nth(set, i)) = i
<1>. DEFINE N == Cardinality(set)
            f == [d \in set |-> Rank(set, d)]
<1>1. N \in Nat
  BY FS_CardinalityType
<1>2. IsFiniteSet(1..N) /\ Cardinality(1..N) = N
  BY <1>1, FS_Interval
<1>3. f \in [set -> 1..N]
  BY RankIs
<1>4. \A d, e \in set : f[d] = f[e] => d = e
  BY RankOnce
<1>5. f \in Injection(set, 1..N)
  BY <1>3, <1>4 DEF Injection, IsInjective
<1>6. f \in Surjection(set, 1..N)
  BY <1>2, <1>5, FS_Injection
<1>7. \E d \in set : Rank(set, d) = i
  BY <1>6 DEF Surjection
<1>. QED BY <1>7 DEF Nth

\* A finite set of numbers has a least and a largest.
LEMMA LeastLargest ==
  ASSUME NEW set \in SUBSET Nat, IsFiniteSet(set), set # {}
  PROVE  /\ \E d \in set : \A e \in set : d <= e
         /\ \E d \in set : \A e \in set : e <= d
<1>. DEFINE N == Cardinality(set)
<1>1. N \in Nat /\ N # 0
  BY FS_CardinalityType, FS_EmptySet
<1>. HIDE DEF N
<1>r. \A i \in 1..N : \E d \in set : Rank(set, d) = i
  BY NthIs DEF N
<1>2. PICK a \in set : Rank(set, a) = 1
  BY <1>1, <1>r
<1>3. PICK z \in set : Rank(set, z) = N
  BY <1>1, <1>r
<1>. USE DEF N
<1>4. ASSUME NEW e \in set, ~(a <= e) PROVE FALSE
  <2>. DEFINE E == {x \in set : x <= e}
              A == {x \in set : x <= a}
  <2>1. E \subseteq A /\ A \subseteq set /\ a \in A /\ a \notin E /\ e \in E
    <3>1. a \in Nat /\ e \in Nat /\ \A x \in set : x \in Nat
      OBVIOUS
    <3>2. \A x \in Nat : x <= e => x <= a
      BY <3>1, <1>4
    <3>3. a <= a /\ e <= e
      BY <3>1
    <3>. QED BY <3>1, <3>2, <3>3, <1>4
  <2>2. IsFiniteSet(A) /\ Cardinality(A) = 1
    BY <2>1, <1>2, FS_Subset DEF Rank
  <2>3. IsFiniteSet(E) /\ Cardinality(E) <= 1 /\ Cardinality(E) # 1
    BY <2>1, <2>2, FS_Subset
  <2>4. Cardinality(E) = 0
    <3>1. Cardinality(E) \in Nat
      BY <2>3, FS_CardinalityType
    <3>. HIDE DEF E
    <3>. QED BY <3>1, <2>3
  <2>. QED BY <2>1, <2>3, <2>4, FS_EmptySet
<1>5. ASSUME NEW e \in set PROVE e <= z
  <2>. DEFINE Z == {x \in set : x <= z}
  <2>1. Z \subseteq set /\ Cardinality(Z) = Cardinality(set)
    BY <1>3 DEF Rank
  <2>2. Z = set
    BY <2>1, FS_Subset
  <2>. QED BY <2>2
<1>. QED BY <1>2, <1>3, <1>4, <1>5

\* Induction on the naturals, over a set.
LEMMA SetInduction ==
  ASSUME NEW S, 0 \in S, \A n \in Nat : n \in S => n + 1 \in S
  PROVE  Nat \subseteq S
<1>1. SUFFICES ASSUME NEW n \in Nat, n \notin S PROVE FALSE
  OBVIOUS
<1>. DEFINE T == {k \in 0..n : k \notin S}
<1>2. IsFiniteSet(0..n)
  BY FS_Interval
<1>3. T \in SUBSET Nat /\ T \subseteq 0..n /\ n \in T
  BY <1>1
<1>4. IsFiniteSet(T)
  BY <1>2, <1>3, FS_Subset
<1>5. PICK k \in T : \A e \in T : k <= e
  BY <1>3, <1>4, LeastLargest
<1>6. k \in 0..n /\ k \notin S /\ k # 0
  OBVIOUS
<1>7. k - 1 \in 0..n /\ k - 1 \in Nat /\ ~(k <= k - 1) /\ (k - 1) + 1 = k
  BY <1>6
<1>8. k - 1 \in S
  BY <1>5, <1>7
<1>. QED BY <1>6, <1>7, <1>8

\* The i-th numbers of a set grow with i.
LEMMA NthGrows ==
  ASSUME NEW set \in SUBSET Nat, IsFiniteSet(set),
         NEW i \in 1..Cardinality(set), NEW j \in 1..Cardinality(set), i < j
  PROVE  Nth(set, i) < Nth(set, j)
<1>. DEFINE a == Nth(set, i)
            b == Nth(set, j)
<1>1. /\ a \in set /\ Rank(set, a) = i
      /\ b \in set /\ Rank(set, b) = j
  BY NthIs
<1>. HIDE DEF a, b
<1>2. SUFFICES ASSUME ~(a < b) PROVE FALSE
  BY DEF a, b
<1>3. {x \in set : x <= b} \in SUBSET {x \in set : x <= a}
  <2>1. a \in Nat /\ b \in Nat
    BY <1>1
  <2>2. \A x \in Nat : x <= b => x <= a
    BY <1>2, <2>1
  <2>. QED BY <2>2
<1>4. IsFiniteSet({x \in set : x <= a})
  <2>1. {x \in set : x <= a} \in SUBSET set
    OBVIOUS
  <2>. QED BY <2>1, FS_Subset
<1>5. Rank(set, b) <= Rank(set, a)
  BY <1>3, <1>4, FS_Subset DEF Rank
<1>6. i \in Nat /\ j \in Nat
  BY FS_CardinalityType
<1>. QED BY <1>1, <1>5, <1>6

\* What passes a filter is some of the list, in its order.
LEMMA SublistIs ==
  ASSUME NEW V, NEW s \in Seq(V), NEW places \in SUBSET DOMAIN s
  PROVE  /\ Sublist(s, places) \in Seq(V) /\ Len(Sublist(s, places)) = Cardinality(places)
         /\ IsFiniteSet(places) /\ Cardinality(places) \in Nat
         /\ \A i \in 1..Cardinality(places) :
              Nth(places, i) \in places /\ Sublist(s, places)[i] = s[Nth(places, i)]
         /\ \A i, j \in 1..Cardinality(places) : i < j => Nth(places, i) < Nth(places, j)
<1>1. DOMAIN s = 1..Len(s) /\ Len(s) \in Nat
  OBVIOUS
<1>2. IsFiniteSet(DOMAIN s)
  BY <1>1, FS_Interval
<1>3. IsFiniteSet(places) /\ places \in SUBSET Nat
  BY <1>1, <1>2, FS_Subset
<1>. DEFINE n == Cardinality(places)
<1>4. n \in Nat
  BY <1>3, FS_CardinalityType
<1>5. /\ \A i \in 1..n : Nth(places, i) \in places
      /\ \A i, j \in 1..n : i < j => Nth(places, i) < Nth(places, j)
  BY <1>3, NthIs, NthGrows
<1>6. Sublist(s, places) = [i \in 1..n |-> s[Nth(places, i)]]
  BY DEF Sublist
<1>. HIDE DEF n
<1>7. \A i \in 1..n : s[Nth(places, i)] \in V
  BY <1>1, <1>5
<1>8. Sublist(s, places) \in Seq(V) /\ Len(Sublist(s, places)) = n
  BY <1>4, <1>6, <1>7
<1>9. \A i \in 1..n : Sublist(s, places)[i] = s[Nth(places, i)]
  BY <1>6
<1>. QED BY <1>3, <1>4, <1>5, <1>8, <1>9 DEF n
=============================================================================
