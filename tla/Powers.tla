------------------------------- MODULE Powers -------------------------------
(***************************************************************************)
(* Facts about the powers of 2 and about division that the proofs about    *)
(* words of any width rest on.  No prover knows that 2^(n + 1) = 2 * 2^n   *)
(* for every n; but a set of n elements has 2^n subsets, which counts the  *)
(* subsets with and without one more element.  Induction over the natural  *)
(* numbers is that of a set of numbers: its complement has no least one.   *)
(***************************************************************************)
EXTENDS Integers, FiniteSetTheorems, FunctionTheorems, NaturalsInduction, WellFoundedInduction, TLAPS

\* A set of natural numbers that is not empty has a least one.
LEMMA LeastNumber ==
  ASSUME NEW T \in SUBSET Nat, T # {}
  PROVE  \E x \in T : \A y \in T : x <= y
  <1> DEFINE R == OpToRel(<, Nat)
  <1>1. IsWellFoundedOn(R, Nat)
      BY NatLessThanWellFounded
  <1>2. \E x \in T : \A y \in T : ~(<<y, x>> \in R)
    <2> HIDE DEF R
    <2> QED BY <1>1, WFMin
  <1>3. \A x, y \in Nat : y < x => <<y, x>> \in R
      BY DEF OpToRel
  <1>4. PICK x \in T : \A y \in T : ~(<<y, x>> \in R)
      BY <1>2
  <1>5. ASSUME NEW y \in T PROVE x <= y
    <2> x \in Nat /\ y \in Nat /\ ~(y < x)
        BY <1>3, <1>4
    <2> QED OBVIOUS
  <1> QED BY <1>5

\* A set with 0 and the successor of every number in it holds them all.
LEMMA Induction ==
  ASSUME NEW P, 0 \in P, \A n \in Nat : n \in P => n + 1 \in P
  PROVE  Nat \subseteq P
  <1> SUFFICES ASSUME {n \in Nat : n \notin P} # {} PROVE FALSE
      OBVIOUS
  <1>1. PICK x \in {n \in Nat : n \notin P} : \A y \in {n \in Nat : n \notin P} : x <= y
      BY LeastNumber
  <1>2. x - 1 \in Nat /\ x - 1 < x
      BY <1>1
  <1>3. x - 1 \in P
      BY <1>1, <1>2
  <1> QED BY <1>2, <1>3

----------------------------------------------------------------------------
(* Powers of 2.                                                            *)

LEMMA Subsets ==
  ASSUME NEW n \in Nat
  PROVE  /\ IsFiniteSet(SUBSET (1..n))
         /\ Cardinality(SUBSET (1..n)) = 2 ^ n
         /\ 2 ^ n \in Nat
  <1>1. IsFiniteSet(1..n) /\ Cardinality(1..n) = n
      BY FS_Interval
  <1>2. IsFiniteSet(SUBSET (1..n)) /\ Cardinality(SUBSET (1..n)) = 2 ^ n
      BY <1>1, FS_SUBSET
  <1> QED BY <1>2, FS_CardinalityType

\* The subsets of 1..n + 1 without n + 1, and as many with it.
LEMMA PowerStep == ASSUME NEW n \in Nat PROVE 2 ^ (n + 1) = 2 * 2 ^ n
  <1> DEFINE S == SUBSET (1..n)
             U == {X \in SUBSET (1..n + 1) : n + 1 \in X}
             f == [X \in S |-> X \cup {n + 1}]
  <1>1. f \in Bijection(S, U)
    <2>1. \A X \in S : f[X] \in U
        OBVIOUS
    <2>2. \A X, Y \in S : f[X] = f[Y] => X = Y
      <3> SUFFICES ASSUME NEW X \in S, NEW Y \in S, X \cup {n + 1} = Y \cup {n + 1} PROVE X = Y
          OBVIOUS
      <3> n + 1 \notin X /\ n + 1 \notin Y
          OBVIOUS
      <3> QED OBVIOUS
    <2>3. \A Y \in U : \E X \in S : f[X] = Y
      <3> SUFFICES ASSUME NEW Y \in U PROVE \E X \in S : f[X] = Y
          OBVIOUS
      <3>1. Y \ {n + 1} \in S
        <4> SUFFICES ASSUME NEW k \in Y, k # n + 1 PROVE k \in 1..n
            OBVIOUS
        <4> k \in 1..n + 1
            OBVIOUS
        <4> QED OBVIOUS
      <3>2. f[Y \ {n + 1}] = Y
          BY <3>1
      <3> QED BY <3>1, <3>2
    <2> QED BY <2>1, <2>2, <2>3, Fun_IsBij
  <1>2. SUBSET (1..n + 1) = S \cup U
    <2>1. \A X \in SUBSET (1..n + 1) : n + 1 \notin X => X \in S
      <3> SUFFICES ASSUME NEW X \in SUBSET (1..n + 1), n + 1 \notin X, NEW k \in X PROVE k \in 1..n
          OBVIOUS
      <3> k \in 1..n + 1 /\ k # n + 1
          OBVIOUS
      <3> QED OBVIOUS
    <2>2. S \subseteq SUBSET (1..n + 1)
      <3> 1..n \subseteq 1..n + 1
          OBVIOUS
      <3> QED OBVIOUS
    <2> QED BY <2>1, <2>2
  <1>3. S \cap U = {}
    <2> n + 1 \notin 1..n
        OBVIOUS
    <2> QED OBVIOUS
  <1>4. IsFiniteSet(S) /\ Cardinality(S) = 2 ^ n /\ 2 ^ n \in Nat
      BY Subsets
  <1>5. Cardinality(SUBSET (1..n + 1)) = 2 ^ (n + 1)
      BY Subsets
  <1> HIDE DEF S, U, f
  <1>6. IsFiniteSet(U) /\ Cardinality(U) = Cardinality(S)
      BY <1>1, <1>4, Fun_ExistsBij, FS_Bijection
  <1>7. Cardinality(S \cup U) = Cardinality(S) + Cardinality(U) - 0
      BY <1>3, <1>4, <1>6, FS_Union, FS_EmptySet
  <1>8. Cardinality(S \cup U) = 2 ^ (n + 1)
      BY <1>2, <1>5
  <1> DEFINE p == 2 ^ n
             q == 2 ^ (n + 1)
             c == Cardinality(S \cup U)
             d == Cardinality(U)
             e == Cardinality(S)
  <1>9. q = c /\ c = e + d - 0 /\ d = e /\ e = p /\ p \in Nat
      BY <1>4, <1>6, <1>7, <1>8
  <1>10. q = 2 * p
    <2> HIDE DEF p, q, c, d, e
    <2> QED BY <1>9
  <1> QED BY <1>10

LEMMA PowerZero == 2 ^ 0 = 1 /\ 2 ^ 1 = 2
  OBVIOUS

LEMMA PowerType == ASSUME NEW n \in Nat PROVE 2 ^ n \in Nat \ {0}
  <1> DEFINE P == {k \in Nat : 2 ^ k # 0}
  <1>1. 0 \in P
      BY PowerZero
  <1>2. \A k \in Nat : k \in P => k + 1 \in P
      BY PowerStep, Subsets
  <1>3. Nat \subseteq P
    <2> HIDE DEF P
    <2> QED BY <1>1, <1>2, Induction
  <1> QED BY <1>3, Subsets

LEMMA PowerSum == ASSUME NEW a \in Nat, NEW b \in Nat PROVE 2 ^ (a + b) = 2 ^ a * 2 ^ b
  <1> DEFINE P == {k \in Nat : 2 ^ (a + k) = 2 ^ a * 2 ^ k}
  <1>1. 0 \in P
      BY PowerZero, PowerType
  <1>2. ASSUME NEW k \in Nat, k \in P PROVE k + 1 \in P
    <2> DEFINE A == 2 ^ a
               K == 2 ^ k
               L == 2 ^ (a + k)
               M == 2 ^ (a + (k + 1))
               O == 2 ^ (k + 1)
    <2>1. A \in Nat /\ K \in Nat /\ L \in Nat
        BY PowerType
    <2>2. M = 2 * L
      <3> a + (k + 1) = (a + k) + 1
          OBVIOUS
      <3> QED BY PowerStep
    <2>3. O = 2 * K
        BY PowerStep
    <2>4. L = A * K
        BY <1>2
    <2>5. SUFFICES M = A * O
        OBVIOUS
    <2> HIDE DEF A, K, L, M, O
    <2>6. A * (2 * K) = 2 * (A * K)
        BY <2>1
    <2> QED BY <2>2, <2>3, <2>4, <2>6
  <1>3. Nat \subseteq P
    <2> HIDE DEF P
    <2> QED BY <1>1, <1>2, Induction
  <1> QED BY <1>3

LEMMA PowerGrows == ASSUME NEW a \in Nat, NEW b \in Nat, a <= b PROVE 2 ^ a <= 2 ^ b
  <1> DEFINE A == 2 ^ a
             B == 2 ^ b
             C == 2 ^ (b - a)
  <1>1. A \in Nat \ {0} /\ C \in Nat \ {0}
      BY PowerType
  <1>2. B = A * C
    <2> b - a \in Nat /\ b = a + (b - a)
        OBVIOUS
    <2> QED BY PowerSum
  <1> HIDE DEF A, B, C
  <1> A <= B
      BY <1>1, <1>2
  <1> QED BY DEF A, B
----------------------------------------------------------------------------
(* Division by a positive number.                                          *)

LEMMA DivMod ==
  ASSUME NEW n \in Int, NEW d \in Nat \ {0}
  PROVE  /\ n \div d \in Int /\ n % d \in 0 .. d - 1
         /\ n = d * (n \div d) + (n % d)
  OBVIOUS

LEMMA DivUnique ==
  ASSUME NEW d \in Nat \ {0}, NEW q \in Int, NEW r \in 0 .. d - 1
  PROVE  (d * q + r) \div d = q /\ (d * q + r) % d = r
  OBVIOUS

\* Multiples of d do not count modulo d.
LEMMA ModSum ==
  ASSUME NEW d \in Nat \ {0}, NEW n \in Int, NEW k \in Int
  PROVE  (n + d * k) % d = n % d /\ (n + d * k) \div d = n \div d + k
  <1> DEFINE q == n \div d
             r == n % d
  <1>1. q \in Int /\ r \in 0 .. d - 1 /\ n = d * q + r
      BY DivMod
  <1> HIDE DEF q, r
  <1>2. n + d * k = d * (q + k) + r
    <2> d * (q + k) = d * q + d * k
        BY <1>1
    <2> QED BY <1>1
  <1>3. (d * (q + k) + r) \div d = q + k /\ (d * (q + k) + r) % d = r
      BY <1>1, DivUnique
  <1> QED BY <1>2, <1>3 DEF q, r

\* A number modulo a multiple of d, modulo d.
LEMMA ModMod ==
  ASSUME NEW d \in Nat \ {0}, NEW e \in Nat \ {0}, NEW n \in Int
  PROVE  (n % (d * e)) % d = n % d
  <1> DEFINE m == d * e
             q == n \div m
             r == n % m
  <1>1. q \in Int /\ r \in Int /\ n = m * q + r
    <2> m \in Nat \ {0}
        OBVIOUS
    <2> HIDE DEF m
    <2> QED BY DivMod
  <1> HIDE DEF q, r
  <1>2. n = r + d * (e * q)
      BY <1>1
  <1>3. (r + d * (e * q)) % d = r % d
    <2> e * q \in Int
        BY <1>1
    <2> QED BY <1>1, ModSum
  <1> QED BY <1>2, <1>3 DEF r

\* Division in two steps.
LEMMA DivDiv ==
  ASSUME NEW d \in Nat \ {0}, NEW e \in Nat \ {0}, NEW n \in Int
  PROVE  (n \div d) \div e = n \div (d * e)
  OBVIOUS

LEMMA DivMod2 ==
  ASSUME NEW d \in Nat \ {0}, NEW e \in Nat \ {0}, NEW n \in Int
  PROVE  (n % (d * e)) \div d = (n \div d) % e
  OBVIOUS

----------------------------------------------------------------------------
(* Binary digits: bit k of a number, also of a negative one.               *)

Bit(n, k) == (n \div 2 ^ k) % 2

\* The bits below a power of 2 are those of the remainder.
LEMMA BitLow ==
  ASSUME NEW n \in Int, NEW w \in Nat, NEW k \in Nat, k < w
  PROVE  Bit(n % 2 ^ w, k) = Bit(n, k)
  <1> DEFINE A == 2 ^ k
             C == 2 ^ (w - k - 1)
             M == 2 ^ w
  <1>1. A \in Nat \ {0} /\ C \in Nat \ {0} /\ M = A * (2 * C)
    <2> DEFINE c == w - k - 1
    <2>1. c \in Nat /\ w = k + (c + 1)
        OBVIOUS
    <2> HIDE DEF c
    <2>2. 2 ^ (k + (c + 1)) = 2 ^ k * 2 ^ (c + 1) /\ 2 ^ (c + 1) = 2 * 2 ^ c
        BY <2>1, PowerSum, PowerStep
    <2>3. 2 ^ k \in Nat \ {0} /\ 2 ^ c \in Nat \ {0}
        BY <2>1, PowerType
    <2> QED BY <2>1, <2>2, <2>3 DEF c
  <1> HIDE DEF A, C, M
  <1> DEFINE B == 2 * C
             q == n \div A
  <1>2. B \in Nat \ {0} /\ q \in Int /\ M = A * B
      BY <1>1
  <1>3. (n % M) \div A = q % B
    <2> HIDE DEF B
    <2> QED BY <1>1, <1>2, DivMod2
  <1>4. (q % B) % 2 = q % 2
    <2> HIDE DEF q
    <2> 2 \in Nat \ {0}
        OBVIOUS
    <2> QED BY <1>1, <1>2, ModMod
  <1>5. (n % M) \div A % 2 = q % 2
    <2> HIDE DEF q, B
    <2> QED BY <1>3, <1>4
  <1> QED BY <1>5 DEF Bit, A, M

\* Dividing by a power of 2 moves the bits down.
LEMMA BitDown ==
  ASSUME NEW n \in Int, NEW s \in Nat, NEW k \in Nat
  PROVE  Bit(n \div 2 ^ s, k) = Bit(n, s + k)
  <1> DEFINE A == 2 ^ s
             B == 2 ^ k
             C == 2 ^ (s + k)
  <1>1. A \in Nat \ {0} /\ B \in Nat \ {0} /\ C = A * B
      BY PowerType, PowerSum
  <1> HIDE DEF A, B, C
  <1>2. (n \div A) \div B = n \div C
      BY <1>1, DivDiv
  <1>3. ((n \div A) \div B) % 2 = (n \div C) % 2
      BY <1>2
  <1> QED BY <1>3 DEF Bit, A, B, C

\* Multiplying by a power of 2 moves them up.
LEMMA BitUp ==
  ASSUME NEW n \in Int, NEW s \in Nat, NEW k \in Nat
  PROVE  Bit(n * 2 ^ s, k) = IF s <= k THEN Bit(n, k - s) ELSE 0
  <1> DEFINE S == 2 ^ s
             K == 2 ^ k
  <1>1. S \in Nat \ {0} /\ K \in Nat \ {0}
      BY PowerType
  <1>2. CASE s <= k
    <2> DEFINE D == 2 ^ (k - s)
    <2>1. D \in Nat \ {0} /\ K = S * D
      <3> DEFINE d == k - s
      <3>1. d \in Nat /\ k = s + d
          BY <1>2
      <3> HIDE DEF d
      <3> QED BY <3>1, PowerType, PowerSum DEF d
    <2> HIDE DEF S, K, D
    <2>2. n * S \in Int /\ (n * S) \div S = n
      <3>1. n * S = S * n + 0 /\ 0 \in 0 .. S - 1 /\ n * S \in Int
          BY <1>1
      <3> QED BY <1>1, <3>1, DivUnique
    <2>3. ((n * S) \div S) \div D = (n * S) \div K
      <3> DEFINE m == n * S
      <3>1. m \in Int
          BY <2>2
      <3> HIDE DEF m
      <3>2. (m \div S) \div D = m \div (S * D)
          BY <1>1, <2>1, <3>1, DivDiv
      <3> QED BY <2>1, <3>2 DEF m
    <2>4. (n \div D) % 2 = ((n * S) \div K) % 2
        BY <2>2, <2>3
    <2> QED BY <1>2, <2>4 DEF Bit, S, K, D
  <1>3. CASE ~ (s <= k)
    <2> DEFINE E == 2 ^ (s - k - 1)
    <2>1. E \in Nat \ {0} /\ S = K * (2 * E)
      <3> DEFINE d == s - k - 1
      <3>1. d \in Nat /\ s = k + (d + 1)
          BY <1>3
      <3> HIDE DEF d
      <3>2. 2 ^ (k + (d + 1)) = 2 ^ k * 2 ^ (d + 1) /\ 2 ^ (d + 1) = 2 * 2 ^ d
          BY <3>1, PowerSum, PowerStep
      <3> QED BY <3>1, <3>2, PowerType DEF d
    <2> HIDE DEF S, K, E
    <2> DEFINE m == n * E
    <2>2. m \in Int /\ n * S = K * (2 * m) + 0 /\ 0 \in 0 .. K - 1
        BY <1>1, <2>1
    <2> HIDE DEF m
    <2>3. (n * S) \div K = 2 * m
      <3> 2 * m \in Int
          BY <2>2
      <3> QED BY <1>1, <2>2, DivUnique
    <2>4. (2 * m) % 2 = 0
        BY <2>2
    <2> QED BY <1>3, <2>3, <2>4 DEF Bit, S, K
  <1> QED BY <1>2, <1>3

\* Every set of places is the places of the 1s of a number.
LEMMA BitsGiven ==
  ASSUME NEW n \in Nat, NEW S \in SUBSET (0 .. n - 1)
  PROVE  \E w \in 0 .. 2 ^ n - 1 : \A k \in 0 .. n - 1 : Bit(w, k) = 1 <=> k \in S
  <1> DEFINE Given(m, T, w) == \A k \in 0 .. m - 1 : Bit(w, k) = 1 <=> k \in T
             P == {m \in Nat : \A T \in SUBSET (0 .. m - 1) : \E w \in 0 .. 2 ^ m - 1 : Given(m, T, w)}
  <1>1. 0 \in P
    <2> 0 \in 0 .. 2 ^ 0 - 1
        BY PowerZero
    <2> QED OBVIOUS
  <1>2. ASSUME NEW m \in Nat, m \in P PROVE m + 1 \in P
    <2> DEFINE M == 2 ^ m
               O == 2 ^ (m + 1)
    <2>1. M \in Nat \ {0} /\ O = 2 * M
        BY PowerType, PowerStep
    <2> SUFFICES ASSUME NEW T \in SUBSET (0 .. (m + 1) - 1)
                 PROVE  \E w \in 0 .. O - 1 : Given(m + 1, T, w)
        OBVIOUS
    <2>2. T \ {m} \in SUBSET (0 .. m - 1)
      <3> SUFFICES ASSUME NEW k \in T, k # m PROVE k \in 0 .. m - 1
          OBVIOUS
      <3> k \in 0 .. (m + 1) - 1
          OBVIOUS
      <3> QED OBVIOUS
    <2>3. PICK v \in 0 .. M - 1 : Given(m, T \ {m}, v)
        BY <1>2, <2>2
    <2> DEFINE w == IF m \in T THEN v + M * 1 ELSE v
    <2>4. w \in 0 .. O - 1
      <3> HIDE DEF M, O
      <3> QED BY <2>1, <2>3
    <2>5. Bit(w, m) = 1 <=> m \in T
      <3>1. v \div M = 0 /\ (v + M * 1) \div M = 1
        <4> HIDE DEF M, O
        <4>1. v = M * 0 + v /\ v + M * 1 = M * 1 + v
            BY <2>1, <2>3
        <4> QED BY <2>1, <2>3, <4>1, DivUnique
      <3>2. Bit(v, m) = 0 /\ Bit(v + M * 1, m) = 1
          BY <3>1 DEF Bit
      <3> HIDE DEF M
      <3> QED BY <3>2
    <2>6. ASSUME NEW k \in 0 .. m - 1 PROVE Bit(w, k) = 1 <=> k \in T
      <3>1. Bit(v, k) = 1 <=> k \in T
        <4>1. k # m
            OBVIOUS
        <4> QED BY <2>3, <4>1
      <3>2. Bit(v + M * 1, k) = Bit(v, k)
        <4> DEFINE j == v + M * 1
        <4>1. j % M = v /\ v % M = v
          <5> HIDE DEF M
          <5>1. j = M * 1 + v /\ v = M * 0 + v /\ v \in Int
              BY <2>1
          <5> HIDE DEF j
          <5> QED BY <2>1, <5>1, DivUnique
        <4>2. j \in Int
            BY <2>1
        <4> HIDE DEF j
        <4>3. Bit(j % M, k) = Bit(j, k)
            BY <4>2, BitLow
        <4> HIDE DEF M
        <4> QED BY <4>1, <4>3 DEF j
      <3> HIDE DEF M
      <3> QED BY <3>1, <3>2
    <2>7. \A k \in 0 .. (m + 1) - 1 : k = m \/ k \in 0 .. m - 1
        OBVIOUS
    <2> HIDE DEF w, O
    <2> QED BY <2>4, <2>5, <2>6, <2>7
  <1>3. Nat \subseteq P
    <2> HIDE DEF P
    <2> QED BY <1>1, <1>2, Induction
  <1> QED BY <1>3
=============================================================================
