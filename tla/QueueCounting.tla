--------------------------- MODULE QueueCounting ----------------------------
(***************************************************************************)
(* Facts about sets of positions in a FIFO, for counting the marked words  *)
(* in it: what one more word, or one word less at the head, does to the    *)
(* count, and how many marks a FIFO can hold when marks are never close    *)
(* together; and about counters that wrap, as the interface statistics do. *)
(***************************************************************************)
EXTENDS Integers, FiniteSets, FiniteSetTheorems, WellFoundedInduction, TLAPS

(* A set of positions is finite and has no more elements than there are    *)
(* positions.                                                              *)
LEMMA Positions ==
  ASSUME NEW n \in Nat, NEW A \in SUBSET (1 .. n)
  PROVE  /\ IsFiniteSet(A) /\ Cardinality(A) \in Nat
         /\ Cardinality(A) <= n
         /\ Cardinality(A) = 0 <=> A = {}
<1>1. /\ IsFiniteSet(1 .. n)
      /\ Cardinality(1 .. n) = n
  BY FS_Interval
<1>2. IsFiniteSet(A) /\ Cardinality(A) <= Cardinality(1 .. n)
  BY <1>1, FS_Subset
<1>3. QED
  BY <1>1, <1>2, FS_CardinalityType, FS_EmptySet

(* Appending a word adds its position when it is marked.                   *)
LEMMA Appended ==
  ASSUME NEW n \in Nat, NEW A \in SUBSET (1 .. n)
  PROVE  Cardinality(A \cup {n + 1}) = Cardinality(A) + 1
<1>1. IsFiniteSet(A) /\ n + 1 \notin A
  BY Positions
<1>2. QED
  BY <1>1, FS_AddElement

(* Taking the head away moves every other position down by one.            *)
LEMMA Shifted ==
  ASSUME NEW n \in Nat, NEW A \in SUBSET (2 .. n)
  PROVE  Cardinality({i \in 1 .. n - 1 : i + 1 \in A}) = Cardinality(A)
<1> DEFINE B == {i \in 1 .. n - 1 : i + 1 \in A}
<1> DEFINE f == [i \in A |-> i - 1]
<1>1. IsFiniteSet(A)
  BY Positions
<1>2. f \in Bijection(A, B)
  <2>1. f \in [A -> B]
    OBVIOUS
  <2>2. \A a, b \in A : f[a] = f[b] => a = b
    OBVIOUS
  <2>3. \A t \in B : \E i \in A : f[i] = t
    <3>1. TAKE t \in B
    <3>2. t + 1 \in A /\ f[t + 1] = t
      OBVIOUS
    <3>3. QED
      BY <3>2
  <2>4. f \in Injection(A, B)
    BY <2>1, <2>2 DEF Injection, IsInjective, IsInjective
  <2>5. f \in Surjection(A, B)
    BY <2>1, <2>3 DEF Surjection
  <2>6. QED
    BY <2>4, <2>5 DEF Bijection
<1>3. ExistsBijection(A, B)
  BY <1>2 DEF ExistsBijection
<1>4. IsFiniteSet(B) /\ Cardinality(B) = Cardinality(A)
  BY <1>1, <1>3, FS_Bijection
<1>5. QED
  BY <1>4

(* The same with a mark at the head, which is counted no more.             *)
LEMMA HeadGone ==
  ASSUME NEW n \in Nat, NEW A \in SUBSET (1 .. n)
  PROVE  /\ 1 \in A =>
              Cardinality({i \in 1 .. n - 1 : i + 1 \in A})
                = Cardinality(A) - 1
         /\ 1 \notin A =>
              Cardinality({i \in 1 .. n - 1 : i + 1 \in A}) = Cardinality(A)
<1>1. A \ {1} \in SUBSET (2 .. n)
  OBVIOUS
<1>2. {i \in 1 .. n - 1 : i + 1 \in A \ {1}} = {i \in 1 .. n - 1 : i + 1 \in A}
  OBVIOUS
<1>3. Cardinality({i \in 1 .. n - 1 : i + 1 \in A}) = Cardinality(A \ {1})
  BY <1>1, <1>2, Shifted
<1>4. 1 \in A => Cardinality(A \ {1}) = Cardinality(A) - 1
  BY Positions, FS_RemoveElement
<1>5. 1 \notin A => A \ {1} = A
  OBVIOUS
<1>6. QED
  BY <1>3, <1>4, <1>5

(* No two marks side by side: at most half of the positions, rounded up.   *)
LEMMA SpacedByOne ==
  ASSUME NEW n \in Nat, NEW A \in SUBSET (1 .. n),
         \A i \in A : i + 1 \notin A
  PROVE  2 * Cardinality(A) <= n + 1
<1> DEFINE B == {i \in 1 .. n - 1 : i + 1 \in A}
<1>1. CASE n = 0
  <2>1. Cardinality(A) \in Nat /\ Cardinality(A) <= n
    BY Positions
  <2>2. QED
    BY <1>1, <2>1
<1>2. CASE n # 0
  <2>1. /\ IsFiniteSet(A) /\ Cardinality(A) \in Nat
    BY Positions
  <2>2. B \in SUBSET (1 .. n)
    BY <1>2
  <2>3. IsFiniteSet(B) /\ Cardinality(B) \in Nat
    BY <2>2, Positions
  <2>4. Cardinality(B) >= Cardinality(A) - 1
    BY HeadGone, <2>1
  <2>5. A \cap B = {}
    OBVIOUS
  <2>6. Cardinality(A \cup B) = Cardinality(A) + Cardinality(B)
    <3>1. Cardinality(A \cap B) = 0
      BY <2>5, FS_EmptySet
    <3>2. Cardinality(A \cup B)
            = Cardinality(A) + Cardinality(B) - Cardinality(A \cap B)
      BY <2>1, <2>3, FS_Union
    <3>3. QED
      BY <3>1, <3>2, <2>1, <2>3
  <2>7. A \cup B \in SUBSET (1 .. n)
    BY <2>2
  <2>8. Cardinality(A \cup B) <= n
    BY <2>7, Positions
  <2>9. QED
    BY <2>1, <2>3, <2>4, <2>6, <2>8
<1>3. QED
  BY <1>1, <1>2

(* Positions k apart or more: there are I of them at most, one in each of  *)
(* the I stretches of k positions.                                         *)
LEMMA Spaced ==
  ASSUME NEW n \in Nat, NEW k \in Nat \ {0}, NEW I \in Nat, n <= k * I,
         NEW A \in SUBSET (1 .. n),
         \A i, j \in A : i < j => i + k <= j
  PROVE  Cardinality(A) <= I
<1> DEFINE f == [i \in A |-> (i - 1) \div k]
           T == 0 .. I - 1
<1>1. ASSUME NEW i \in A
      PROVE  /\ (i - 1) \div k \in Int
             /\ k * ((i - 1) \div k) <= i - 1
             /\ i - 1 < k * ((i - 1) \div k) + k
  <2>1. i - 1 \in Int
    OBVIOUS
  <2>2. /\ (i - 1) \div k \in Int
        /\ i - 1 = k * ((i - 1) \div k) + ((i - 1) % k)
        /\ (i - 1) % k \in 0 .. k - 1
    BY <2>1
  <2>3. QED
    BY <2>2
<1>2. ASSUME NEW i \in A PROVE (i - 1) \div k \in T
  <2> DEFINE q == (i - 1) \div k
  <2>1. /\ q \in Int /\ k * q <= i - 1 /\ i - 1 < k * q + k
        /\ i - 1 \in 0 .. n - 1
    BY <1>1
  <2> HIDE DEF q
  <2>2. q >= 0
    <3>1. SUFFICES ASSUME q <= -1 PROVE FALSE
      BY <2>1
    <3>2. k * (q + 1) <= 0
      BY <2>1, <3>1
    <3>3. k * (q + 1) = k * q + k
      BY <2>1
    <3>4. QED
      BY <2>1, <3>2, <3>3
  <2>3. q < I
    <3>1. SUFFICES ASSUME q >= I PROVE FALSE
      BY <2>1
    <3>2. k * (q - I) >= 0
      BY <2>1, <3>1
    <3>3. k * (q - I) = k * q - k * I
      BY <2>1
    <3>4. k * q \in Int /\ k * I \in Int
      BY <2>1
    <3>5. QED
      BY <2>1, <3>2, <3>3, <3>4
  <2>4. QED
    BY <2>1, <2>2, <2>3 DEF q
<1>3. ASSUME NEW i \in A, NEW j \in A, i < j
      PROVE  (i - 1) \div k # (j - 1) \div k
  <2> DEFINE q == (i - 1) \div k
             x == k * q
  <2>1. SUFFICES ASSUME q = (j - 1) \div k PROVE FALSE
    OBVIOUS
  <2>2. q \in Int /\ x <= i - 1 /\ i - 1 < x + k
    BY <1>1
  <2>3. x <= j - 1 /\ j - 1 < x + k
    <3>1. /\ k * ((j - 1) \div k) <= j - 1
          /\ j - 1 < k * ((j - 1) \div k) + k
      BY <1>1
    <3>2. QED
      BY Zenon, <2>1, <3>1
  <2>4. x \in Int /\ i + k <= j /\ i \in Int /\ j \in Int
    BY <1>3, <2>2
  <2> HIDE DEF x, q
  <2>5. QED
    BY <2>2, <2>3, <2>4
<1>4. f \in Injection(A, T)
  <2>1. f \in [A -> T]
    BY <1>2
  <2>2. ASSUME NEW i \in A, NEW j \in A, f[i] = f[j] PROVE i = j
    <3>1. f[i] = (i - 1) \div k /\ f[j] = (j - 1) \div k
      OBVIOUS
    <3>2. ~(i < j) /\ ~(j < i)
      BY Zenon, <1>3, <2>2, <3>1
    <3>3. i \in Int /\ j \in Int
      OBVIOUS
    <3>4. QED
      BY <3>2, <3>3
  <2> HIDE DEF f, T
  <2>3. QED
    BY Zenon, <2>1, <2>2 DEF Injection, IsInjective
<1>5. IsFiniteSet(T) /\ Cardinality(T) = I
  BY FS_Interval
<1> HIDE DEF f, T
<1>6. QED
  BY <1>4, <1>5, FS_Injection

-----------------------------------------------------------------------------
(* A set of numbers that has 0, and with each number up to m the next, has *)
(* all numbers up to m.                                                    *)
LEMMA Upwards ==
  ASSUME NEW m \in Nat, NEW S, 0 \in S,
         \A n \in 0 .. m - 1 : n \in S => n + 1 \in S
  PROVE  \A n \in 0 .. m : n \in S
<1> DEFINE T == {n \in 0 .. m : n \notin S}
           R == OpToRel(<, Nat)
<1>1. SUFFICES ASSUME T # {} PROVE FALSE
  OBVIOUS
<1>2. IsWellFoundedOn(R, Nat)
  BY NatLessThanWellFounded
<1>3. \A x, y \in Nat : x < y => <<x, y>> \in R
  BY DEF OpToRel
<1>4. T \subseteq Nat
  OBVIOUS
<1> HIDE DEF R, T
<1>5. PICK x \in T : \A y \in T : ~(<<y, x>> \in R)
  BY <1>1, <1>2, <1>4, WFMin
<1>6. x \in 0 .. m /\ x \notin S /\ x # 0
  BY <1>5 DEF T
<1>7. x - 1 \in 0 .. m - 1 /\ x - 1 \in T
  BY <1>6 DEF T
<1>8. x - 1 \in Nat /\ x \in Nat /\ x - 1 < x
  BY <1>6
<1>9. <<x - 1, x>> \in R
  BY <1>3, <1>8
<1>10. QED
  BY Zenon, <1>5, <1>7, <1>9

(* A set of numbers that has one has a least one.                          *)
LEMMA Least ==
  ASSUME NEW S \in SUBSET Nat, NEW n \in S
  PROVE  \E m \in S : \A i \in S : m <= i
<1> DEFINE R == OpToRel(<, Nat)
<1>1. IsWellFoundedOn(R, Nat)
  BY NatLessThanWellFounded
<1>2. \A x, y \in Nat : x < y => <<x, y>> \in R
  BY DEF OpToRel
<1> HIDE DEF R
<1>3. S # {}
  OBVIOUS
<1>4. PICK m \in S : \A i \in S : ~(<<i, m>> \in R)
  BY <1>1, <1>3, WFMin
<1>5. ASSUME NEW i \in S PROVE m <= i
  <2>1. ~(i < m) /\ i \in Nat /\ m \in Nat
    BY <1>2, <1>4
  <2>2. QED
    BY <2>1
<1>6. QED
  BY <1>5

-----------------------------------------------------------------------------
(* Remainders are unique.                                                  *)
LEMMA OneRemainder ==
  ASSUME NEW S \in Nat \ {0}, NEW q \in Int, NEW p \in Int,
         NEW r \in 0 .. S - 1, NEW t \in 0 .. S - 1,
         q * S + r = p * S + t
  PROVE  r = t
<1>1. (q - p) * S = t - r
  OBVIOUS
<1>2. CASE q - p >= 1
  <2>1. PICK d \in Nat : q - p = d + 1
    BY <1>2
  <2>2. (d + 1) * S = d * S + S /\ d * S >= 0
    OBVIOUS
  <2>3. QED
    BY <1>1, <2>1, <2>2
<1>3. CASE p - q >= 1
  <2>1. PICK d \in Nat : p - q = d + 1
    BY <1>3
  <2>2. (d + 1) * S = d * S + S /\ d * S >= 0
    OBVIOUS
  <2>3. (p - q) * S = r - t
    BY <1>1
  <2>4. QED
    BY <2>1, <2>2, <2>3
<1>4. CASE q = p
  BY <1>1, <1>4
<1>5. QED
  BY <1>2, <1>3, <1>4

(* Division with remainder.                                                *)
LEMMA Divided ==
  ASSUME NEW S \in Nat \ {0}, NEW a \in Int
  PROVE  /\ a % S \in 0 .. S - 1
         /\ \E q \in Int : a = q * S + (a % S)
<1>1. a \div S \in Int /\ a = (a \div S) * S + (a % S)
  OBVIOUS
<1>2. a % S \in 0 .. S - 1
  OBVIOUS
<1>3. QED
  BY <1>1, <1>2

(* How to recognise a remainder.                                           *)
LEMMA Wrapped ==
  ASSUME NEW S \in Nat \ {0}, NEW a \in Int, NEW q \in Int,
         NEW r \in 0 .. S - 1, a = q * S + r
  PROVE  a % S = r
BY Divided, OneRemainder

(* A counter that has not wrapped is its own remainder.                    *)
LEMMA Small ==
  ASSUME NEW S \in Nat \ {0}, NEW r \in 0 .. S - 1
  PROVE  r % S = r
<1>1. r \in Int /\ 0 \in Int /\ r = 0 * S + r
  OBVIOUS
<1>2. QED
  BY Zenon, <1>1, Wrapped

(* Counting the same on both sides keeps wrapping counters equal.          *)
LEMMA SameCount ==
  ASSUME NEW S \in Nat \ {0}, NEW a \in Int, NEW b \in Int, NEW c \in Int,
         a % S = b % S
  PROVE  (a + c) % S = (b + c) % S
<1>1. PICK q \in Int : a = q * S + (a % S)
  BY Divided
<1>2. PICK p \in Int : b = p * S + (b % S)
  BY Divided
<1>3. a + c \in Int /\ b + c \in Int
  OBVIOUS
<1>4. PICK u \in Int : a + c = u * S + ((a + c) % S)
  BY <1>3, Divided
<1>5. (a + c) % S \in 0 .. S - 1 /\ a % S \in 0 .. S - 1 /\ u - q + p \in Int
  BY <1>3, Divided
<1>6. b + c = (u - q + p) * S + ((a + c) % S)
  <2> DEFINE m == a % S
             t == (a + c) % S
             x == q * S
             y == p * S
             z == u * S
  <2>1. (u - q + p) * S = z - x + y
    OBVIOUS
  <2>2. a = x + m /\ b = y + m /\ a + c = z + t
    BY <1>1, <1>2, <1>4
  <2>3. x \in Int /\ y \in Int /\ z \in Int /\ m \in Int /\ t \in Int
    BY <1>5
  <2> HIDE DEF m, t, x, y, z
  <2>4. b + c = (z - x + y) + t
    BY <2>2, <2>3
  <2>5. QED
    BY <2>1, <2>4 DEF t
<1>7. QED
  BY Zenon, <1>3, <1>5, <1>6, Wrapped

(* A whole turn makes no difference.                                       *)
LEMMA WholeTurn ==
  ASSUME NEW S \in Nat \ {0}, NEW a \in Int
  PROVE  (S + a) % S = a % S
<1>1. 0 \in 0 .. S - 1 /\ S \in Int /\ 1 \in Int /\ S = 1 * S + 0
  OBVIOUS
<1>2. S % S = 0 /\ 0 % S = 0
  BY Zenon, <1>1, Wrapped, Small
<1>3. 0 \in Int /\ S % S = 0 % S
  BY <1>2
<1>4. (S + a) % S = (0 + a) % S
  BY Zenon, <1>1, <1>3, SameCount
<1>5. QED
  BY <1>4

(* It makes no difference when a counter is reduced.                       *)
LEMMA Counted ==
  ASSUME NEW S \in Nat \ {0}, NEW n \in 0 .. S - 1, NEW c \in Int
  PROVE  /\ (n + 1) % S \in 0 .. S - 1
         /\ (((n + 1) % S) + c) % S = (n + 1 + c) % S
<1>1. (n + 1) % S \in 0 .. S - 1
  BY Divided
<1>2. CASE n + 1 = S
  <2>1. 0 \in 0 .. S - 1 /\ S \in Int /\ 1 \in Int /\ S = 1 * S + 0
    OBVIOUS
  <2>2. (n + 1) % S = 0
    BY Zenon, <1>2, <2>1, Wrapped
  <2>3. (n + 1) + c = S + c
    BY <1>2
  <2>4. (0 + c) = c
    OBVIOUS
  <2>5. QED
    BY Zenon, <1>1, <2>2, <2>3, <2>4, WholeTurn
<1>3. CASE n + 1 # S
  <2>1. n + 1 \in 0 .. S - 1
    BY <1>3
  <2>2. (n + 1) % S = n + 1
    BY Zenon, <2>1, Small
  <2>3. QED
    BY Zenon, <1>1, <2>2
<1>4. QED
  BY <1>2, <1>3

(* The same for a counter that is set back by one.                         *)
LEMMA Uncounted ==
  ASSUME NEW S \in Nat \ {0}, NEW n \in 0 .. S - 1, NEW c \in Int
  PROVE  /\ (n + S - 1) % S \in 0 .. S - 1
         /\ (((n + S - 1) % S) + c) % S = (n - 1 + c) % S
<1>1. (n + S - 1) % S \in 0 .. S - 1
  BY Divided
<1>2. CASE n = 0
  <2>1. n + S - 1 \in 0 .. S - 1 /\ c - 1 \in Int
    BY <1>2
  <2>2. (n + S - 1) % S = n + S - 1
    BY Zenon, <2>1, Small
  <2>3. (n + S - 1) + c = S + (c - 1) /\ n - 1 + c = c - 1
    BY <1>2
  <2>4. (S + (c - 1)) % S = (c - 1) % S
    BY Zenon, <2>1, WholeTurn
  <2>5. QED
    BY Zenon, <1>1, <2>2, <2>3, <2>4
<1>3. CASE n # 0
  <2>1. /\ n - 1 \in 0 .. S - 1 /\ n - 1 \in Int
        /\ n + S - 1 = S + (n - 1)
    BY <1>3
  <2>2. (S + (n - 1)) % S = (n - 1) % S
    BY Zenon, <2>1, WholeTurn
  <2>3. (n - 1) % S = n - 1
    BY Zenon, <2>1, Small
  <2>4. QED
    BY Zenon, <1>1, <2>1, <2>2, <2>3
<1>4. QED
  BY <1>2, <1>3
=============================================================================
