---------------------------- MODULE RvSimProofs ----------------------------
(***************************************************************************)
(* The simulator of project_2 runs the machine of RvIsa, for words, bytes, *)
(* registers and memories of any size, any programs without bltu and bgeu, *)
(* any data and any inputs.  The two describe the operations differently:  *)
(* RvSim has C's operators on unsigned numbers, RvIsa has signed numbers   *)
(* and sets of bits.  The first part is about the numbers, the second      *)
(* about a round of the loop.                                              *)
(***************************************************************************)
EXTENDS RvSim, Powers

----------------------------------------------------------------------------
(* Words.                                                                  *)

Half == 2 ^ (WordBits - 1)
Whole == 2 ^ WordBits

LEMMA Sizes == /\ WordBits \in Nat /\ WordBits >= 2
               /\ Half \in Nat /\ Whole \in Nat /\ Half >= 2 /\ Whole = 2 * Half
  <1>1. WordBits \in Nat /\ WordBits >= 2
      BY RvAssumption
  <1> DEFINE n == WordBits - 1
  <1>2. n \in Nat /\ n >= 1 /\ WordBits = n + 1
      BY <1>1
  <1>3. 2 ^ (n + 1) = 2 * 2 ^ n /\ 2 ^ n \in Nat /\ 2 ^ (n + 1) \in Nat
      BY <1>2, PowerStep, PowerType
  <1>4. 2 ^ 1 <= 2 ^ n
      BY <1>2, PowerGrows
  <1>5. 2 ^ n >= 2
      BY <1>3, <1>4, PowerZero
  <1> QED BY <1>1, <1>2, <1>3, <1>5 DEF Half, Whole

LEMMA WordIs == /\ Word = 0 .. (Whole - 1)
                /\ \A n \in Int : Wrap(n) = n % Whole
                /\ \A w \in Word : Signed(w) = IF w < Half THEN w ELSE w - Whole
  BY DEF Word, Wrap, Signed, Half, Whole

LEMMA WrapType == ASSUME NEW n \in Int PROVE Wrap(n) \in Word
  <1>1. Whole \in Nat \ {0}
      BY Sizes
  <1>2. n % Whole \in 0 .. Whole - 1
      BY <1>1, DivMod
  <1> QED BY <1>2, WordIs

LEMMA WrapWord == ASSUME NEW w \in Word PROVE Wrap(w) = w /\ w \in Nat
  <1>1. w \in Int /\ 0 <= w /\ w < Whole /\ Whole \in Nat
      BY Sizes, WordIs
  <1>2. w % Whole = w
      BY <1>1
  <1>3. Wrap(w) = w % Whole
      BY <1>1, WordIs
  <1> QED BY <1>1, <1>2, <1>3

\* Whatever differs by Whole is the same word.
LEMMA WrapSame ==
  ASSUME NEW n \in Int, NEW k \in Int
  PROVE  Wrap(n + Whole * k) = Wrap(n)
  <1>1. n + Whole * k \in Int /\ Whole \in Nat \ {0}
      BY Sizes
  <1> QED BY <1>1, WordIs, ModSum

LEMMA WrapIs ==
  ASSUME NEW n \in Int
  PROVE  \E k \in Int : Wrap(n) = n + Whole * k
  <1> DEFINE q == n \div Whole
             r == n % Whole
  <1>1. q \in Int /\ r \in Int /\ n = Whole * q + r
    <2> Whole \in Nat \ {0}
        BY Sizes
    <2> QED BY DivMod
  <1>2. Wrap(n) = r
      BY WordIs
  <1> HIDE DEF q, r
  <1>3. r = n + Whole * (-q) /\ -q \in Int
      BY <1>1, Sizes
  <1> QED BY <1>2, <1>3

LEMMA SignedIs ==
  ASSUME NEW w \in Word
  PROVE  /\ Signed(w) \in Int /\ -Half <= Signed(w) /\ Signed(w) < Half
         /\ \E k \in Int : Signed(w) = w + Whole * k
         /\ Wrap(Signed(w)) = w
  <1>1. w \in Int /\ 0 <= w /\ w < Whole
      BY Sizes, WordIs
  <1>2. Signed(w) = w + Whole * 0 \/ Signed(w) = w + Whole * (-1)
      BY <1>1, Sizes, WordIs
  <1>3. PICK k \in Int : Signed(w) = w + Whole * k
      BY <1>2
  <1>4. Wrap(Signed(w)) = w
      BY <1>1, <1>3, WrapSame, WrapWord
  <1>5. Signed(w) \in Int /\ -Half <= Signed(w) /\ Signed(w) < Half
    <2>1. Signed(w) = IF w < Half THEN w ELSE w - Whole
        BY WordIs
    <2> QED BY <1>1, <2>1, Sizes
  <1> QED BY <1>3, <1>4, <1>5

LEMMA SignedWrap ==
  ASSUME NEW n \in Int, -Half <= n, n < Half
  PROVE  Signed(Wrap(n)) = n
  <1>1. Wrap(n) \in Word
      BY WrapType
  <1>2. CASE n >= 0
    <2> n \in Word
        BY <1>2, Sizes, WordIs
    <2> QED BY WrapWord, WordIs
  <1>3. CASE n < 0
    <2>1. n + Whole * 1 = n + Whole /\ n + Whole \in Word
        BY <1>3, Sizes, WordIs
    <2>2. Wrap(n) = n + Whole
        BY <2>1, WrapSame, WrapWord
    <2> QED BY <1>3, <2>1, <2>2, Sizes, WordIs
  <1> QED BY <1>2, <1>3

\* Sums of words are the same as sums of their signed values.
LEMMA WrapSums ==
  ASSUME NEW a \in Word, NEW n \in Int
  PROVE  /\ Wrap(Signed(a) + n) = Wrap(a + n)
         /\ Wrap(n - Signed(a)) = Wrap(n - a)
  <1>1. PICK k \in Int : Signed(a) = a + Whole * k
      BY SignedIs
  <1>2. a \in Int
      BY WrapWord
  <1>3. Signed(a) + n = (a + n) + Whole * k /\ n - Signed(a) = (n - a) + Whole * (-k)
      BY <1>1, <1>2, Sizes
  <1>4. -k \in Int /\ a + n \in Int /\ n - a \in Int
      BY <1>2
  <1> QED BY <1>3, <1>4, WrapSame

----------------------------------------------------------------------------
(* The bits of words.  Each set of bits is that of one word: of one at     *)
(* least by BitsGiven, and of no two because there are as many sets as     *)
(* words.                                                                  *)

Places == 0 .. (WordBits - 1)

LEMMA BitsAre == \A w \in Word : Bits(w) = {k \in Places : Bit(w, k) = 1}
  BY DEF Bits, Places, Bit

LEMMA SomeWord ==
  ASSUME NEW S \in SUBSET Places
  PROVE  \E w \in Word : Bits(w) = S
  <1>1. PICK w \in 0 .. 2 ^ WordBits - 1 : \A k \in 0 .. WordBits - 1 : Bit(w, k) = 1 <=> k \in S
      BY Sizes, BitsGiven DEF Places
  <1>2. w \in Word
      BY DEF Word
  <1>3. Bits(w) = S
      BY <1>1, <1>2, BitsAre DEF Places
  <1> QED BY <1>2, <1>3

LEMMA OneWord ==
  ASSUME NEW v \in Word, NEW w \in Word, Bits(v) = Bits(w)
  PROVE  v = w
  <1> DEFINE T == SUBSET Places
             f == [u \in Word |-> Bits(u)]
  <1>1. f \in Surjection(Word, T)
    <2>1. \A u \in Word : f[u] \in T
        BY BitsAre
    <2>2. \A S \in T : \E u \in Word : f[u] = S
        BY SomeWord
    <2> QED BY <2>1, <2>2, Fun_IsSurj
  <1>2. IsFiniteSet(Word) /\ Cardinality(Word) = Whole
      BY FS_Interval, WordIs, Sizes
  <1>3. IsFiniteSet(Places) /\ Cardinality(Places) = WordBits
      BY FS_Interval, Sizes DEF Places
  <1>4. Cardinality(T) = Whole
      BY <1>3, FS_SUBSET DEF Whole
  <1>5. f \in Injection(Word, T)
    <2> HIDE DEF f, T
    <2> QED BY <1>1, <1>2, <1>4, FS_Surjection
  <1>6. f[v] = f[w]
      OBVIOUS
  <1> HIDE DEF f, T
  <1> QED BY <1>5, <1>6, Fun_InjectionProperties

LEMMA OfBitsIs ==
  ASSUME NEW S \in SUBSET Places
  PROVE  OfBits(S) \in Word /\ Bits(OfBits(S)) = S
  BY SomeWord DEF OfBits

\* A word is the word of its bits.
LEMMA WordOfBits ==
  ASSUME NEW w \in Word, NEW S \in SUBSET Places, \A k \in Places : Bit(w, k) = 1 <=> k \in S
  PROVE  OfBits(S) = w
  <1>1. Bits(w) = S
      BY BitsAre
  <1> QED BY <1>1, OfBitsIs, OneWord

LEMMA BitWrap ==
  ASSUME NEW n \in Int, NEW k \in Places
  PROVE  Bit(Wrap(n), k) = Bit(n, k)
  <1>1. k \in Nat /\ k < WordBits /\ WordBits \in Nat
      BY Sizes DEF Places
  <1> QED BY <1>1, BitLow DEF Wrap

LEMMA InBits == ASSUME NEW w \in Word, NEW k \in Places PROVE k \in Bits(w) <=> Bit(w, k) = 1
  BY BitsAre

----------------------------------------------------------------------------
(* Shifts.  b is masked, so that the amount n is a place.                  *)

LEMMA AmountType == ASSUME NEW b \in Word PROVE Amount(b) \in Places
  <1>1. WordBits \in Nat \ {0} /\ b \in Int
      BY Sizes, WrapWord
  <1> QED BY <1>1, DivMod DEF Amount, Places

\* sll: bit k comes from bit k - n.
LEMMA ShiftLeft ==
  ASSUME NEW a \in Word, NEW n \in Places
  PROVE  Wrap(a * 2 ^ n) = OfBits({k \in Places : k - n \in Bits(a)})
  <1> DEFINE m == a * 2 ^ n
             S == {k \in Places : k - n \in Bits(a)}
  <1>1. n \in Nat /\ a \in Int /\ m \in Int
    <2> n \in Nat /\ a \in Nat
        BY Sizes, WrapWord DEF Places
    <2> QED BY PowerType
  <1>2. ASSUME NEW k \in Places PROVE Bit(Wrap(m), k) = 1 <=> k \in S
    <2>1. k \in Nat /\ k < WordBits /\ n < WordBits
        BY Sizes DEF Places
    <2>2. Bit(Wrap(m), k) = IF n <= k THEN Bit(a, k - n) ELSE 0
      <3>1. Bit(Wrap(m), k) = Bit(m, k)
        <4> HIDE DEF m
        <4> QED BY <1>1, BitWrap
      <3>2. Bit(m, k) = IF n <= k THEN Bit(a, k - n) ELSE 0
          BY <1>1, <2>1, BitUp
      <3> QED BY <3>1, <3>2
    <2> HIDE DEF m
    <2>3. CASE n <= k
      <3> k - n \in Places
          BY <1>1, <2>1, <2>3, Sizes DEF Places
      <3> QED BY <2>2, <2>3, InBits
    <2>4. CASE ~ (n <= k)
      <3>1. k - n \notin Places
          BY <1>1, <2>1, <2>4 DEF Places
      <3>2. k - n \notin Bits(a)
          BY <3>1, BitsAre
      <3> QED BY <2>2, <2>4, <3>2
    <2> QED BY <2>3, <2>4
  <1>3. Wrap(m) \in Word
    <2> HIDE DEF m
    <2> QED BY <1>1, WrapType
  <1> HIDE DEF m
  <1>4. OfBits(S) = Wrap(m)
    <2> S \in SUBSET Places
        OBVIOUS
    <2> HIDE DEF S
    <2> QED BY <1>2, <1>3, WordOfBits
  <1> QED BY <1>4 DEF m

\* The bits behind the highest: 0 of a word, and the sign of a signed number.
LEMMA HighBits ==
  ASSUME NEW z \in Int, NEW j \in Nat, j >= WordBits, -Whole <= z, z < Whole
  PROVE  Bit(z, j) = IF z < 0 THEN 1 ELSE 0
  <1> DEFINE J == 2 ^ j
  <1>1. J \in Nat \ {0} /\ Whole <= J
      BY Sizes, PowerType, PowerGrows DEF Whole
  <1> HIDE DEF J
  <1>2. CASE z < 0
    <2>1. z = J * (-1) + (z + J) /\ z + J \in 0 .. J - 1
        BY <1>1, <1>2, Sizes
    <2>2. z \div J = -1
      <3> DEFINE r == z + J
      <3> HIDE DEF r
      <3>1. r \in 0 .. J - 1 /\ z = J * (-1) + r
          BY <2>1 DEF r
      <3>2. (J * (-1) + r) \div J = -1
          BY <1>1, <3>1, DivUnique
      <3> QED BY <3>1, <3>2
    <2>3. (z \div J) % 2 = 1
      <3> DEFINE q == z \div J
      <3>1. q \in Int /\ q = -1
          BY <1>1, <2>2, DivMod
      <3> HIDE DEF q
      <3>2. q = 2 * q + 1 /\ 2 \in Nat \ {0} /\ 1 \in 0 .. 2 - 1
          BY <3>1
      <3>3. q % 2 = 1
          BY <3>1, <3>2, DivUnique
      <3> QED BY <3>3 DEF q
    <2> QED BY <1>2, <2>3 DEF Bit, J
  <1>3. CASE ~ (z < 0)
    <2>1. z = J * 0 + z /\ z \in 0 .. J - 1
        BY <1>1, <1>3, Sizes
    <2>2. z \div J = 0
        BY <1>1, <2>1, DivUnique
    <2>3. 0 % 2 = 0
        OBVIOUS
    <2> QED BY <1>3, <2>2, <2>3 DEF Bit, J
  <1> QED BY <1>2, <1>3

LEMMA DownType ==
  ASSUME NEW w \in Word, NEW n \in Places
  PROVE  /\ Machine!Down(Bits(w), n) \in SUBSET Places
         /\ \A c \in BOOLEAN : (IF c THEN (WordBits - n) .. (WordBits - 1) ELSE {}) \in SUBSET Places
  <1>1. Bits(w) \subseteq Places
      BY BitsAre
  <1>2. \A j \in Places : j >= n => j - n \in Places
      BY Sizes DEF Places
  <1>3. (WordBits - n) .. (WordBits - 1) \subseteq Places
      BY Sizes DEF Places
  <1> QED BY <1>1, <1>2, <1>3 DEF Machine!Down

LEMMA DownIs ==
  ASSUME NEW w \in Word, NEW n \in Places, NEW k \in Places
  PROVE  k \in Machine!Down(Bits(w), n) <=> n + k \in Bits(w)
  <1>1. Bits(w) \subseteq Places
      BY BitsAre
  <1>2. \A j \in Places : j >= n /\ k = j - n <=> j = n + k
      BY Sizes DEF Places
  <1> QED BY <1>1, <1>2 DEF Machine!Down

\* Bit k of what is shifted down comes from bit n + k, if there is one.
LEMMA ShiftedBit ==
  ASSUME NEW z \in Int, -Whole <= z, z < Whole, NEW n \in Places, NEW k \in Places
  PROVE  Bit(Wrap(z \div 2 ^ n), k) = 1 <=>
           IF n + k \in Places THEN n + k \in Bits(Wrap(z)) ELSE z < 0
  <1>1. n \in Nat /\ k \in Nat /\ n + k \in Nat
      BY Sizes DEF Places
  <1>2. z \div 2 ^ n \in Int
      BY <1>1, PowerType, DivMod
  <1>3. Bit(Wrap(z \div 2 ^ n), k) = Bit(z, n + k)
      BY <1>1, <1>2, BitWrap, BitDown
  <1>4. CASE n + k \in Places
    <2>1. Bit(Wrap(z), n + k) = Bit(z, n + k)
        BY <1>4, BitWrap
    <2>2. n + k \in Bits(Wrap(z)) <=> Bit(Wrap(z), n + k) = 1
        BY <1>4, InBits, WrapType
    <2> QED BY <1>3, <1>4, <2>1, <2>2
  <1>5. CASE n + k \notin Places
    <2>1. n + k >= WordBits
        BY <1>1, <1>5, Sizes DEF Places
    <2>2. Bit(z, n + k) = IF z < 0 THEN 1 ELSE 0
        BY <1>1, <2>1, HighBits
    <2> QED BY <1>3, <1>5, <2>2
  <1> QED BY <1>4, <1>5

LEMMA QuotientType ==
  ASSUME NEW a \in Word, NEW n \in Nat
  PROVE  a \div 2 ^ n \in Word
  <1> DEFINE N2 == 2 ^ n
             q == a \div N2
             r == a % N2
  <1>1. N2 \in Nat \ {0} /\ a \in Int /\ 0 <= a /\ a < Whole
    <2>1. N2 \in Nat \ {0}
        BY PowerType
    <2>2. a \in 0 .. (Whole - 1) /\ Whole \in Int
        BY WordIs, Sizes
    <2> HIDE DEF N2
    <2> QED BY <2>1, <2>2
  <1> HIDE DEF N2
  <1>2. q \in Int /\ r \in 0 .. N2 - 1 /\ a = N2 * q + r
      BY <1>1, DivMod
  <1> HIDE DEF q, r
  <1>3. q >= 0
      BY <1>1, <1>2
  <1>4. q <= N2 * q
      BY <1>1, <1>2, <1>3
  <1>5. q \in Word
    <2>1. q <= a /\ Whole \in Int
        BY <1>1, <1>2, <1>4, Sizes
    <2>2. q \in 0 .. (Whole - 1)
        BY <1>1, <1>2, <1>3, <2>1
    <2> QED BY <2>2, WordIs
  <1> QED BY <1>5 DEF q, N2

\* srl: no bits come from behind.
LEMMA ShiftRight ==
  ASSUME NEW a \in Word, NEW n \in Places
  PROVE  a \div 2 ^ n = OfBits(Machine!Down(Bits(a), n))
  <1> DEFINE S == Machine!Down(Bits(a), n)
             q == a \div 2 ^ n
  <1>1. a \in Int /\ -Whole <= a /\ a < Whole /\ ~ (a < 0) /\ Wrap(a) = a
      BY Sizes, WordIs, WrapWord
  <1>2. q \in Word /\ Wrap(q) = q
    <2> n \in Nat
        BY Sizes DEF Places
    <2> QED BY QuotientType, WrapWord
  <1>3. S \in SUBSET Places
      BY DownType
  <1>4. ASSUME NEW k \in Places PROVE Bit(q, k) = 1 <=> k \in S
    <2>1. Bit(Wrap(q), k) = 1 <=> IF n + k \in Places THEN n + k \in Bits(a) ELSE FALSE
      <3> HIDE DEF S
      <3> QED BY <1>1, ShiftedBit
    <2>2. k \in S <=> n + k \in Bits(a)
        BY DownIs
    <2>3. Bits(a) \subseteq Places
        BY BitsAre
    <2> HIDE DEF q, S
    <2> QED BY <1>2, <2>1, <2>2, <2>3
  <1> HIDE DEF S, q
  <1>5. OfBits(S) = q
      BY <1>2, <1>3, <1>4, WordOfBits
  <1> QED BY <1>5 DEF S, q

\* sra: copies of the sign come from behind.
LEMMA ShiftSigned ==
  ASSUME NEW a \in Word, NEW n \in Places
  PROVE  Wrap(Signed(a) \div 2 ^ n)
           = OfBits(Machine!Down(Bits(a), n)
                      \cup IF Signed(a) < 0 THEN (WordBits - n) .. (WordBits - 1) ELSE {})
  <1> DEFINE sign == IF Signed(a) < 0 THEN (WordBits - n) .. (WordBits - 1) ELSE {}
             S == Machine!Down(Bits(a), n) \cup sign
             q == Signed(a) \div 2 ^ n
  <1>1. Signed(a) \in Int /\ -Whole <= Signed(a) /\ Signed(a) < Whole /\ Wrap(Signed(a)) = a
      BY Sizes, SignedIs
  <1>2. Wrap(q) \in Word
    <2> 2 ^ n \in Nat \ {0}
        BY PowerType, Sizes DEF Places
    <2> q \in Int
        BY <1>1, DivMod
    <2> QED BY WrapType
  <1>3. S \in SUBSET Places
    <2>1. (Signed(a) < 0) \in BOOLEAN
        BY <1>1
    <2>2. Machine!Down(Bits(a), n) \in SUBSET Places /\ sign \in SUBSET Places
        BY <2>1, DownType
    <2> HIDE DEF sign
    <2> QED BY <2>2
  <1>4. ASSUME NEW k \in Places PROVE Bit(Wrap(q), k) = 1 <=> k \in S
    <2>1. Bit(Wrap(q), k) = 1 <=> IF n + k \in Places THEN n + k \in Bits(a) ELSE Signed(a) < 0
      <3> HIDE DEF S, sign
      <3> QED BY <1>1, ShiftedBit
    <2>2. k \in Machine!Down(Bits(a), n) <=> n + k \in Bits(a)
        BY DownIs
    <2>3. k \in sign <=> n + k \notin Places /\ Signed(a) < 0
        BY Sizes DEF Places
    <2>4. Bits(a) \subseteq Places
        BY BitsAre
    <2>5. k \in S <=> k \in Machine!Down(Bits(a), n) \/ k \in sign
        OBVIOUS
    <2>6. n + k \in Places => (k \in S <=> n + k \in Bits(a))
      <3> HIDE DEF S, sign
      <3> QED BY <2>2, <2>3, <2>5
    <2>7. n + k \notin Places => (k \in S <=> Signed(a) < 0)
      <3> HIDE DEF S, sign
      <3> QED BY <2>2, <2>3, <2>4, <2>5
    <2> HIDE DEF q, S, sign
    <2> QED BY <2>1, <2>6, <2>7
  <1> HIDE DEF S, q
  <1>5. OfBits(S) = Wrap(q)
      BY <1>2, <1>3, <1>4, WordOfBits
  <1> QED BY <1>5 DEF S, q

----------------------------------------------------------------------------
(* Arithmetic.                                                             *)

\* RvSim and the machine have the same words.
LEMMA SameWords ==
  /\ Machine!Word = Word
  /\ \A n : Machine!Wrap(n) = Wrap(n)
  /\ \A w : Machine!Signed(w) = Signed(w)
  /\ \A w : Machine!Bits(w) = Bits(w)
  /\ \A S : Machine!OfBits(S) = OfBits(S)
  /\ \A b : Machine!OfBytes(b) = OfBytes(b)
  /\ \A w, k : Machine!ByteOf(w, k) = ByteOf(w, k)
  /\ \A n : Machine!Value(n) = Signed(Wrap(n))
  <1>1. Machine!Word = Word
      BY DEF Machine!Word, Word
  <1>2. \A n : Machine!Wrap(n) = Wrap(n)
      BY DEF Machine!Wrap, Wrap
  <1>3. \A w : Machine!Signed(w) = Signed(w)
      BY DEF Machine!Signed, Signed
  <1>4. \A w : Machine!Bits(w) = Bits(w)
      BY DEF Machine!Bits, Bits
  <1>5. \A S : Machine!OfBits(S) = OfBits(S)
      BY <1>1, <1>4, Zenon DEF Machine!OfBits, OfBits, Machine!Word, Word, Machine!Bits, Bits
  <1>6. \A b : Machine!OfBytes(b) = OfBytes(b)
      BY <1>5 DEF Machine!OfBytes, OfBytes
  <1>7. \A w, k : Machine!ByteOf(w, k) = ByteOf(w, k)
      BY DEF Machine!ByteOf, ByteOf
  <1>8. \A n : Machine!Value(n) = Signed(Wrap(n))
      BY <1>2, <1>3 DEF Machine!Value
  <1> QED BY <1>1, <1>2, <1>3, <1>4, <1>5, <1>6, <1>7, <1>8

LEMMA BoolIs == 0 \in Word /\ 1 \in Word /\ Signed(0) = 0 /\ Signed(1) = 1
  <1>1. 0 \in Word /\ 1 \in Word
      BY WordIs, Sizes
  <1> QED BY <1>1, WordIs, Sizes

\* On the operands of an instruction the two compute the same.
LEMMA AluIs ==
  ASSUME NEW fn \in Arithmetic, NEW a \in Word, NEW b \in Word
  PROVE  /\ Alu(fn, a, b) \in Word
         /\ Signed(Alu(fn, a, b)) = Machine!Result(fn, Signed(a), Signed(b))
  <1> DEFINE n == Amount(b)
             A == Signed(a)
             B == Signed(b)
  <1>1. /\ a \in Int /\ b \in Int /\ A \in Int /\ B \in Int /\ n \in Places
        /\ Wrap(A) = a /\ Wrap(B) = b /\ Machine!Wrap(A) = a /\ Machine!Wrap(B) = b
        /\ Machine!Bits(a) = Bits(a) /\ Machine!Bits(b) = Bits(b)
      BY WrapWord, SignedIs, AmountType, SameWords
  <1>2. Bits(a) \in SUBSET Places /\ Bits(b) \in SUBSET Places
      BY BitsAre
  <1>3. \A w \in Word : Machine!Value(w) = Signed(w)
      BY SameWords, WrapWord
  <1>4. \A S \in SUBSET Places : OfBits(S) \in Word /\ Machine!Value(Machine!OfBits(S)) = Signed(OfBits(S))
      BY <1>3, OfBitsIs, SameWords
  <1>5. n = Machine!Wrap(B) % WordBits
      BY <1>1 DEF Amount
  <1> HIDE DEF n, A, B
  <1>6. CASE fn = "add"
    <2>1. Wrap(A + B) = Wrap(a + B) /\ Wrap(B + a) = Wrap(b + a)
        BY <1>1, WrapSums DEF A, B
    <2>2. Wrap(A + B) = Wrap(a + b) /\ Wrap(a + b) \in Word
      <3> B + a = a + B /\ b + a = a + b /\ a + b \in Int
          BY <1>1
      <3> QED BY <2>1, WrapType
    <2>3. Alu(fn, a, b) = Wrap(a + b) /\ Machine!Result(fn, A, B) = Machine!Value(A + B)
        BY <1>6 DEF Alu, Machine!Result
    <2> QED BY <2>2, <2>3, SameWords DEF A, B
  <1>7. CASE fn = "sub"
    <2>1. Wrap(A - B) = Wrap(A - b) /\ Wrap(A + (-b)) = Wrap(a + (-b))
        BY <1>1, WrapSums DEF A, B
    <2>2. Wrap(A - B) = Wrap(a - b) /\ Wrap(a - b) \in Word
      <3> A - b = A + (-b) /\ a - b = a + (-b) /\ a - b \in Int
          BY <1>1
      <3> QED BY <2>1, WrapType
    <2>3. Alu(fn, a, b) = Wrap(a - b) /\ Machine!Result(fn, A, B) = Machine!Value(A - B)
        BY <1>7 DEF Alu, Machine!Result
    <2> QED BY <2>2, <2>3, SameWords DEF A, B
  <1>8. CASE fn = "sll"
    <2> DEFINE S == {k \in Places : k - n \in Bits(a)}
    <2>1. Alu(fn, a, b) = Wrap(a * 2 ^ n)
        BY <1>8 DEF Alu, n
    <2>2. Wrap(a * 2 ^ n) = OfBits(S)
        BY <1>1, ShiftLeft
    <2>3. Machine!Result(fn, A, B) = Machine!Value(Machine!OfBits(S))
        BY <1>1, <1>5, <1>8 DEF Machine!Result, Places
    <2>4. S \in SUBSET Places
        OBVIOUS
    <2> HIDE DEF S
    <2> QED BY <1>4, <2>1, <2>2, <2>3, <2>4 DEF A, B
  <1>9. CASE fn = "slt"
    <2>1. Alu(fn, a, b) = Bool(A < B)
        BY <1>9 DEF Alu, A, B
    <2>2. Machine!Result(fn, A, B) = IF A < B THEN 1 ELSE 0
        BY <1>9 DEF Machine!Result
    <2> QED BY <2>1, <2>2, BoolIs DEF Bool, A, B
  <1>10. CASE fn = "sltu"
    <2>1. Alu(fn, a, b) = Bool(a < b)
        BY <1>10 DEF Alu
    <2>2. Machine!Result(fn, A, B) = IF a < b THEN 1 ELSE 0
        BY <1>1, <1>10 DEF Machine!Result
    <2> QED BY <2>1, <2>2, BoolIs DEF Bool, A, B
  <1>11. CASE fn = "xor"
    <2> DEFINE S == (Bits(a) \cup Bits(b)) \ (Bits(a) \cap Bits(b))
    <2>1. Alu(fn, a, b) = OfBits(S)
        BY <1>11 DEF Alu
    <2>2. S = (Bits(a) \ Bits(b)) \cup (Bits(b) \ Bits(a))
        OBVIOUS
    <2>3. Machine!Result(fn, A, B) = Machine!Value(Machine!OfBits((Bits(a) \ Bits(b)) \cup (Bits(b) \ Bits(a))))
        BY <1>1, <1>11 DEF Machine!Result
    <2>4. S \in SUBSET Places
        BY <1>2
    <2> HIDE DEF S
    <2> QED BY <1>4, <2>1, <2>2, <2>3, <2>4 DEF A, B
  <1>12. CASE fn = "srl"
    <2> DEFINE S == Machine!Down(Bits(a), n)
    <2>1. Alu(fn, a, b) = a \div 2 ^ n
        BY <1>12 DEF Alu, n
    <2>2. a \div 2 ^ n = OfBits(S)
        BY <1>1, ShiftRight
    <2>3. Machine!Result(fn, A, B) = Machine!Value(Machine!OfBits(S))
        BY <1>1, <1>5, <1>12 DEF Machine!Result
    <2>4. S \in SUBSET Places
        BY <1>1, DownType
    <2> HIDE DEF S
    <2> QED BY <1>4, <2>1, <2>2, <2>3, <2>4 DEF A, B
  <1>13. CASE fn = "sra"
    <2> DEFINE S == Machine!Down(Bits(a), n) \cup IF A < 0 THEN (WordBits - n) .. (WordBits - 1) ELSE {}
    <2>1. Alu(fn, a, b) = Wrap(A \div 2 ^ n)
        BY <1>13 DEF Alu, n, A
    <2>2. Wrap(A \div 2 ^ n) = OfBits(S)
        BY <1>1, ShiftSigned DEF A
    <2>3. Machine!Result(fn, A, B) = Machine!Value(Machine!OfBits(S))
        BY <1>1, <1>5, <1>13 DEF Machine!Result
    <2>4. S \in SUBSET Places
        BY <1>1, DownType DEF A
    <2> HIDE DEF S
    <2> QED BY <1>4, <2>1, <2>2, <2>3, <2>4 DEF A, B
  <1>14. CASE fn = "or"
    <2> DEFINE S == Bits(a) \cup Bits(b)
    <2>1. Alu(fn, a, b) = OfBits(S) /\ S \in SUBSET Places
        BY <1>2, <1>14 DEF Alu
    <2>2. Machine!Result(fn, A, B) = Machine!Value(Machine!OfBits(S))
        BY <1>1, <1>14 DEF Machine!Result
    <2> HIDE DEF S
    <2> QED BY <1>4, <2>1, <2>2 DEF A, B
  <1>15. CASE fn = "and"
    <2> DEFINE S == Bits(a) \cap Bits(b)
    <2>1. Alu(fn, a, b) = OfBits(S) /\ S \in SUBSET Places
        BY <1>2, <1>15 DEF Alu
    <2>2. Machine!Result(fn, A, B) = Machine!Value(Machine!OfBits(S))
        BY <1>1, <1>15 DEF Machine!Result
    <2> HIDE DEF S
    <2> QED BY <1>4, <2>1, <2>2 DEF A, B
  <1> QED BY <1>6, <1>7, <1>8, <1>9, <1>10, <1>11, <1>12, <1>13, <1>14, <1>15 DEF Arithmetic

----------------------------------------------------------------------------
(* The state, and how the machine sees it.                                 *)

TypeOK == /\ pc \in Word
          /\ reg \in [Register -> Word] /\ reg[0] = 0
          /\ mem \in [0 .. (MemSize - 1) -> Byte]
          /\ prog \in Programs

LEMMA InstructionIs ==
  ASSUME NEW I \in InstructionSet
  PROVE  /\ I.rd \in Register /\ I.rs1 \in Register /\ I.rs2 \in Register /\ I.imm \in Int
         /\ I.op \in {"OP", "OPIMM"} => I.fn \in Arithmetic
         /\ I.op = "OPIMM" => -Half <= I.imm /\ I.imm < Half
         /\ I.op = "BRANCH" => I.fn \in Branches \cup {"bltu", "bgeu"}
  BY Sizes DEF InstructionSet, Decoded, Half

LEMMA Fetched ==
  ASSUME TypeOK, InProgram
  PROVE  Instruction \in InstructionSet /\ pc \div 4 + 1 \in DOMAIN prog
  <1>1. prog \in Seq(InstructionSet) /\ pc \in Nat
      BY RvAssumption, WrapWord DEF TypeOK
  <1>2. pc \div 4 + 1 \in 1 .. Len(prog)
      BY <1>1 DEF InProgram
  <1> QED BY <1>1, <1>2 DEF Instruction

LEMMA RegisterRead ==
  ASSUME TypeOK, NEW r \in Register
  PROVE  reg[r] \in Word /\ Machine!R(r) = Signed(reg[r])
  <1>1. reg[r] \in Word /\ reg[0] = 0
      BY DEF TypeOK
  <1>2. CASE r = 0
      BY <1>1, <1>2, BoolIs DEF Machine!R
  <1>3. CASE r # 0
    <2> r \in 1 .. (NRegs - 1)
        BY <1>3, RvAssumption DEF Register
    <2> QED BY <1>1, <1>3 DEF Machine!R
  <1> QED BY <1>2, <1>3

LEMMA RegisterWritten ==
  ASSUME TypeOK, NEW r \in Register, NEW v \in Word, Write(r, v)
  PROVE  /\ reg' \in [Register -> Word] /\ reg'[0] = 0
         /\ Machine!Set(r, Signed(v))
  <1>1. 0 \in Register /\ 0 \in Word /\ reg \in [Register -> Word]
      BY RvAssumption, BoolIs DEF Register, TypeOK
  <1>2. reg' \in [Register -> Word] /\ reg'[0] = 0
      BY <1>1 DEF Write
  <1>3. \A k \in 1 .. (NRegs - 1) : k \in Register /\ reg'[k] = IF k = r THEN v ELSE reg[k]
    <2> SUFFICES ASSUME NEW k \in 1 .. (NRegs - 1)
                 PROVE  k \in Register /\ reg'[k] = IF k = r THEN v ELSE reg[k]
        OBVIOUS
    <2> k \in Register /\ k # 0
        BY RvAssumption DEF Register
    <2> QED BY <1>1 DEF Write
  <1>4. Machine!Set(r, Signed(v))
      BY <1>3 DEF Machine!Set
  <1> QED BY <1>2, <1>4

----------------------------------------------------------------------------
(* Addresses.  The simulator compares the distance from DataBase, as an    *)
(* int; the machine compares the address.                                  *)

LEMMA Layout == /\ MemSize \in Nat /\ DataBase \in Nat
                /\ MemSize <= DataBase /\ DataBase < Half
                /\ WordBytes \in Nat /\ WordBytes >= 2
  <1>1. /\ MemSize \in Nat /\ DataBase \in Nat
        /\ MemSize <= DataBase /\ DataBase < Half
      BY RvAssumption, Sizes DEF Whole
  <1> DEFINE q == WordBits \div ByteBits
             r == WordBits % ByteBits
  <1>2. ByteBits \in Nat \ {0} /\ 2 * ByteBits <= WordBits /\ WordBits \in Int
      BY RvAssumption
  <1>3. q \in Int /\ r \in 0 .. ByteBits - 1 /\ WordBits = ByteBits * q + r
      BY <1>2, DivMod
  <1> HIDE DEF q, r
  <1>4. q >= 2
    <2> SUFFICES ASSUME q <= 1 PROVE FALSE
        BY <1>3
    <2> ByteBits * q <= ByteBits
        BY <1>2, <1>3
    <2> QED BY <1>2, <1>3
  <1> QED BY <1>1, <1>3, <1>4 DEF q, WordBytes

\* s is the sum of a register and an immediate.
LEMMA Distance ==
  ASSUME NEW s \in Int
  PROVE  LET u == Wrap(s)
             a == Signed(Wrap(s - DataBase))
         IN  /\ u \in Word /\ a \in Int
             /\ u - DataBase < Half => a = u - DataBase
             /\ ~ (u - DataBase < Half) => a < 0
  <1> DEFINE u == Wrap(s)
             v == u - DataBase
             a == Signed(Wrap(s - DataBase))
  <1>1. u \in Word /\ u \in Nat /\ u < Whole
    <2>1. u \in Word
        BY WrapType
    <2> HIDE DEF u
    <2>2. u \in 0 .. (Whole - 1) /\ Whole \in Nat
        BY <2>1, WordIs, Sizes
    <2> QED BY <2>1, <2>2
  <1>2. PICK k \in Int : u = s + Whole * k
      BY WrapIs
  <1>3. v \in Int /\ DataBase \in Nat /\ s - DataBase \in Int /\ s \in Int /\ DataBase < Half
      BY <1>1, Layout
  <1>4. Wrap(s - DataBase) = Wrap(v)
    <2>1. v = (s - DataBase) + Whole * k
      <3> HIDE DEF u
      <3> QED BY <1>1, <1>2, <1>3, Sizes
    <2> HIDE DEF v
    <2> QED BY <1>3, <2>1, WrapSame
  <1>5. a = Signed(Wrap(v)) /\ a \in Int
    <2> HIDE DEF v
    <2> QED BY <1>3, <1>4, SignedIs, WrapType
  <1> HIDE DEF u, a
  <1>6. -Half <= v /\ v < Whole
      BY <1>1, <1>3, Sizes
  <1>7. v < Half => a = v
    <2> HIDE DEF v
    <2> QED BY <1>3, <1>5, <1>6, SignedWrap
  <1>8. ~ (v < Half) => a < 0
    <2> SUFFICES ASSUME ~ (v < Half) PROVE a < 0
        OBVIOUS
    <2> DEFINE w == v + Whole * (-1)
    <2>1. w \in Int /\ -Half <= w /\ w < 0 /\ w < Half
      <3> HIDE DEF v
      <3> QED BY <1>3, <1>6, Sizes
    <2>2. Wrap(w) = Wrap(v)
      <3> HIDE DEF v
      <3> -1 \in Int
          OBVIOUS
      <3> QED BY <1>3, WrapSame
    <2> HIDE DEF w, v
    <2>3. Signed(Wrap(w)) = w
        BY <2>1, SignedWrap
    <2> QED BY <1>5, <2>1, <2>2, <2>3
  <1> QED BY <1>1, <1>5, <1>7, <1>8 DEF u, a

LEMMA AddressIs ==
  ASSUME TypeOK, NEW I \in InstructionSet
  PROVE  LET u == Wrap(reg[I.rs1] + I.imm)
             a == Address(I)
         IN  /\ u \in Word /\ a \in Int
             /\ u = Machine!Wrap(Machine!R(I.rs1) + I.imm)
             /\ a = Device <=> u = 2 * DataBase
             /\ Accepted(a) => a = u - DataBase /\ a # Device
             /\ Machine!InMemory(u) <=> Accepted(a) /\ Inside(a)
  <1> DEFINE r == reg[I.rs1]
             s == r + I.imm
             u == Wrap(s)
             a == Address(I)
  <1>1. r \in Word /\ r \in Int /\ I.imm \in Int /\ Machine!R(I.rs1) = Signed(r)
      BY InstructionIs, RegisterRead, WrapWord
  <1>2. s \in Int
      BY <1>1
  <1>3. u = Machine!Wrap(Machine!R(I.rs1) + I.imm)
    <2> Wrap(Signed(r) + I.imm) = Wrap(r + I.imm)
      <3> HIDE DEF r
      <3> QED BY <1>1, WrapSums
    <2> QED BY <1>1, SameWords
  <1>4. a = Signed(Wrap(s - DataBase))
    <2> r + (I.imm - DataBase) = s - DataBase
      <3> HIDE DEF r
      <3> QED BY <1>1, Layout
    <2> QED BY DEF Address
  <1> HIDE DEF r, s, a
  <1>5. /\ u \in Word /\ a \in Int
        /\ u - DataBase < Half => a = u - DataBase
        /\ ~ (u - DataBase < Half) => a < 0
      BY <1>2, <1>4, Distance
  <1> HIDE DEF u
  <1>6. u \in Nat
      BY <1>5, WrapWord
  <1>7. a = Device <=> u = 2 * DataBase
      BY <1>5, <1>6, Layout, Sizes DEF Device
  <1>8. Accepted(a) => a = u - DataBase /\ a # Device
      BY <1>5, <1>6, Layout, Sizes DEF Device, Accepted
  <1>9. Machine!InMemory(u) <=> Accepted(a) /\ Inside(a)
    <2>1. DOMAIN mem = 0 .. (MemSize - 1)
        BY DEF TypeOK
    <2>2. Machine!WordBytes = WordBytes
        BY DEF Machine!WordBytes, WordBytes
    <2> DEFINE d == u - DataBase
    <2>3. d \in Int
        BY <1>6, Layout
    <2>4. Machine!InMemory(u) <=> d .. (d + WordBytes - 1) \subseteq 0 .. (MemSize - 1)
        BY <2>2 DEF Machine!InMemory, Machine!Lanes
    <2>5. Inside(a) <=> a .. (a + WordBytes - 1) \subseteq 0 .. (MemSize - 1)
        BY <2>1 DEF Inside, Lanes
    <2>6. ASSUME Machine!InMemory(u) PROVE Accepted(a) /\ Inside(a)
      <3>1. d \in d .. (d + WordBytes - 1) /\ d + 1 \in d .. (d + WordBytes - 1)
        <4> HIDE DEF d
        <4> QED BY <2>3, Layout
      <3>2. d \in 0 .. (MemSize - 1) /\ d + 1 \in 0 .. (MemSize - 1)
          BY <2>4, <2>6, <3>1
      <3>3. 0 <= d /\ d < MemSize - 1 /\ d < Half
        <4> HIDE DEF d
        <4> QED BY <2>3, <3>2, Layout, Sizes
      <3>4. a = d
          BY <1>5, <3>3
      <3> QED BY <2>4, <2>5, <2>6, <3>3, <3>4 DEF Accepted
    <2>7. ASSUME Accepted(a), Inside(a) PROVE Machine!InMemory(u)
        BY <1>8, <2>4, <2>5, <2>7
    <2> QED BY <2>6, <2>7
  <1> QED BY <1>3, <1>5, <1>7, <1>8, <1>9 DEF u, a, s, r

----------------------------------------------------------------------------
(* A round of the loop that does not fail carries out an instruction.      *)

Carried(I) == /\ TypeOK'
              /\ Machine!Computes(I) \/ Machine!Jumps(I) \/ Machine!Loads(I) \/ Machine!Stores(I)

LEMMA GoneTo ==
  ASSUME NEW n \in Int, pc' = Wrap(n)
  PROVE  pc' \in Word /\ Machine!Goto(n)
  BY WrapType, SameWords DEF Machine!Goto

LEMMA Followed ==
  ASSUME TypeOK, Advance
  PROVE  pc' \in Word /\ Machine!Follow
  <1> pc + 4 \in Int
      BY WrapWord DEF TypeOK
  <1> QED BY GoneTo DEF Advance, Machine!Follow

LEMMA OpImmCarried ==
  ASSUME TypeOK, NEW I \in InstructionSet, OpImm(I)
  PROVE  Carried(I)
  <1> DEFINE a == reg[I.rs1]
             b == Wrap(I.imm)
             v == Alu(I.fn, a, b)
  <1>1. /\ I.op = "OPIMM" /\ Write(I.rd, v) /\ Advance
        /\ UNCHANGED <<mem, out, prog>>
      BY DEF OpImm, Counted
  <1>2. /\ I.rd \in Register /\ I.rs1 \in Register /\ I.fn \in Arithmetic
        /\ I.imm \in Int /\ -Half <= I.imm /\ I.imm < Half
      BY <1>1, InstructionIs
  <1>3. a \in Word /\ Machine!R(I.rs1) = Signed(a)
      BY <1>2, RegisterRead
  <1>4. b \in Word /\ I.imm = Signed(b)
      BY <1>2, WrapType, SignedWrap
  <1> HIDE DEF a, b
  <1>5. v \in Word /\ Signed(v) = Machine!Result(I.fn, Machine!R(I.rs1), I.imm)
      BY <1>2, <1>3, <1>4, AluIs
  <1> HIDE DEF v
  <1>6. reg' \in [Register -> Word] /\ reg'[0] = 0 /\ Machine!Set(I.rd, Signed(v))
      BY <1>1, <1>2, <1>5, RegisterWritten
  <1>7. pc' \in Word /\ Machine!Follow
      BY <1>1, Followed
  <1>8. TypeOK'
      BY <1>1, <1>6, <1>7 DEF TypeOK
  <1>9. Machine!Computes(I)
      BY <1>1, <1>5, <1>6, <1>7 DEF Machine!Computes
  <1> QED BY <1>8, <1>9 DEF Carried

LEMMA OpCarried ==
  ASSUME TypeOK, NEW I \in InstructionSet, Op(I)
  PROVE  Carried(I)
  <1> DEFINE a == reg[I.rs1]
             b == reg[I.rs2]
             v == Alu(I.fn, a, b)
  <1>1. /\ I.op = "OP" /\ Write(I.rd, v) /\ Advance
        /\ UNCHANGED <<mem, out, prog>>
      BY DEF Op, Counted
  <1>2. /\ I.rd \in Register /\ I.rs1 \in Register /\ I.rs2 \in Register /\ I.fn \in Arithmetic
      BY <1>1, InstructionIs
  <1>3. /\ a \in Word /\ Machine!R(I.rs1) = Signed(a)
        /\ b \in Word /\ Machine!R(I.rs2) = Signed(b)
      BY <1>2, RegisterRead
  <1> HIDE DEF a, b
  <1>4. v \in Word /\ Signed(v) = Machine!Result(I.fn, Machine!R(I.rs1), Machine!R(I.rs2))
      BY <1>2, <1>3, AluIs
  <1> HIDE DEF v
  <1>5. reg' \in [Register -> Word] /\ reg'[0] = 0 /\ Machine!Set(I.rd, Signed(v))
      BY <1>1, <1>2, <1>4, RegisterWritten
  <1>6. pc' \in Word /\ Machine!Follow
      BY <1>1, Followed
  <1>7. TypeOK'
      BY <1>1, <1>5, <1>6 DEF TypeOK
  <1>8. Machine!Computes(I)
      BY <1>1, <1>4, <1>5, <1>6 DEF Machine!Computes
  <1> QED BY <1>7, <1>8 DEF Carried

LEMMA UpperCarried ==
  ASSUME TypeOK, NEW I \in InstructionSet, Upper(I)
  PROVE  Carried(I)
  <1>1. PICK n \in {I.imm, pc + I.imm} :
             /\ \/ I.op = "LUI" /\ n = I.imm
                \/ I.op = "AUIPC" /\ n = pc + I.imm
             /\ Write(I.rd, Wrap(n)) /\ Advance
             /\ UNCHANGED <<mem, out, prog>>
      BY DEF Upper, Counted
  <1>2. n \in Int /\ I.rd \in Register
      BY InstructionIs, WrapWord DEF TypeOK
  <1>3. Wrap(n) \in Word /\ Machine!Value(n) = Signed(Wrap(n))
      BY <1>2, WrapType, SameWords
  <1>4. reg' \in [Register -> Word] /\ reg'[0] = 0 /\ Machine!Set(I.rd, Signed(Wrap(n)))
      BY <1>1, <1>2, <1>3, RegisterWritten
  <1>5. pc' \in Word /\ Machine!Follow
      BY <1>1, Followed
  <1>6. TypeOK'
      BY <1>1, <1>4, <1>5 DEF TypeOK
  <1>7. Machine!Computes(I)
      BY <1>1, <1>3, <1>4, <1>5 DEF Machine!Computes
  <1> QED BY <1>6, <1>7 DEF Carried

LEMMA UnknownCarried ==
  ASSUME TypeOK, NEW I \in InstructionSet, Unknown(I)
  PROVE  Carried(I)
  <1>1. I.op = "OTHER" /\ Advance /\ UNCHANGED <<reg, mem, out, prog>>
      BY DEF Unknown, Counted
  <1>2. pc' \in Word /\ Machine!Follow
      BY <1>1, Followed
  <1>3. TypeOK'
      BY <1>1, <1>2 DEF TypeOK
  <1>4. Machine!Computes(I)
      BY <1>1, <1>2 DEF Machine!Computes
  <1> QED BY <1>3, <1>4 DEF Carried

LEMMA BranchCarried ==
  ASSUME TypeOK, NEW I \in InstructionSet, I.fn \in Branches, Branch(I)
  PROVE  Carried(I)
  <1> DEFINE a == reg[I.rs1]
             b == reg[I.rs2]
  <1>1. /\ I.op = "BRANCH" /\ UNCHANGED <<reg, mem, out, prog>>
        /\ pc' = IF NotTaken(I) THEN Wrap((IF Taken(I) THEN Wrap(pc + I.imm) ELSE pc) + 4)
                                ELSE IF Taken(I) THEN Wrap(pc + I.imm) ELSE pc
      BY DEF Branch, Counted
  <1>2. /\ a \in Word /\ Machine!R(I.rs1) = Signed(a)
        /\ b \in Word /\ Machine!R(I.rs2) = Signed(b)
        /\ I.imm \in Int /\ pc \in Int
      BY InstructionIs, RegisterRead, WrapWord DEF TypeOK
  <1>3. Signed(a) \in Int /\ Signed(b) \in Int /\ (a = b <=> Signed(a) = Signed(b))
      BY <1>2, SignedIs
  <1>4. /\ Taken(I) <=> Machine!Holds(I.fn, Machine!R(I.rs1), Machine!R(I.rs2))
        /\ NotTaken(I) <=> ~ Taken(I)
    <2>1. CASE I.fn = "beq"
        BY <1>2, <1>3, <2>1 DEF Taken, NotTaken, Machine!Holds
    <2>2. CASE I.fn = "bne"
        BY <1>2, <1>3, <2>2 DEF Taken, NotTaken, Machine!Holds
    <2>3. CASE I.fn = "blt"
        BY <1>2, <1>3, <2>3 DEF Taken, NotTaken, Machine!Holds
    <2>4. CASE I.fn = "bge"
        BY <1>2, <1>3, <2>4 DEF Taken, NotTaken, Machine!Holds
    <2> QED BY <2>1, <2>2, <2>3, <2>4 DEF Branches
  <1>5. CASE Taken(I)
    <2>1. pc' = Wrap(pc + I.imm) /\ pc + I.imm \in Int
        BY <1>1, <1>2, <1>4, <1>5
    <2>2. pc' \in Word /\ Machine!Goto(pc + I.imm)
        BY <2>1, GoneTo
    <2>3. TypeOK'
        BY <1>1, <2>2 DEF TypeOK
    <2>4. Machine!Jumps(I)
        BY <1>1, <1>4, <1>5, <2>2 DEF Machine!Jumps
    <2> QED BY <2>3, <2>4 DEF Carried
  <1>6. CASE ~ Taken(I)
    <2>1. Advance
        BY <1>1, <1>4, <1>6 DEF Advance
    <2>2. pc' \in Word /\ Machine!Follow
        BY <2>1, Followed
    <2>3. TypeOK'
        BY <1>1, <2>2 DEF TypeOK
    <2>4. Machine!Jumps(I)
        BY <1>1, <1>4, <1>6, <2>2 DEF Machine!Jumps
    <2> QED BY <2>3, <2>4 DEF Carried
  <1> QED BY <1>5, <1>6

\* The address of the instruction that follows, in rd.
LEMMA Linked ==
  ASSUME TypeOK, NEW r \in Register, Write(r, Wrap(pc + 4))
  PROVE  /\ reg' \in [Register -> Word] /\ reg'[0] = 0
         /\ Machine!Set(r, Machine!Value(pc + 4))
  <1>1. pc + 4 \in Int
      BY WrapWord DEF TypeOK
  <1>2. Wrap(pc + 4) \in Word /\ Machine!Value(pc + 4) = Signed(Wrap(pc + 4))
      BY <1>1, WrapType, SameWords
  <1> QED BY <1>2, RegisterWritten

LEMMA JalCarried ==
  ASSUME TypeOK, NEW I \in InstructionSet, Jal(I)
  PROVE  Carried(I)
  <1>1. /\ I.op = "JAL" /\ Write(I.rd, Wrap(pc + 4)) /\ pc' = Wrap(pc + I.imm)
        /\ UNCHANGED <<mem, out, prog>>
      BY DEF Jal, Counted
  <1>2. I.rd \in Register /\ pc + I.imm \in Int
      BY InstructionIs, WrapWord DEF TypeOK
  <1>3. reg' \in [Register -> Word] /\ reg'[0] = 0 /\ Machine!Set(I.rd, Machine!Value(pc + 4))
      BY <1>1, <1>2, Linked
  <1>4. pc' \in Word /\ Machine!Goto(pc + I.imm)
      BY <1>1, <1>2, GoneTo
  <1>5. TypeOK'
      BY <1>1, <1>3, <1>4 DEF TypeOK
  <1>6. Machine!Jumps(I)
      BY <1>1, <1>3, <1>4 DEF Machine!Jumps
  <1> QED BY <1>5, <1>6 DEF Carried

\* Clearing the lowest bit before the number is wrapped, or after: Whole is even.
LEMMA EvenIs ==
  ASSUME NEW t \in Int
  PROVE  Even(Wrap(t)) = Wrap(2 * (t \div 2))
  <1> DEFINE w == Wrap(t)
             e == t % 2
             m == 2 * (t \div 2)
  <1>1. m \in Int /\ e \in 0 .. 1 /\ t = m + e
      BY DivMod
  <1>2. PICK k \in Int : w = t + Whole * k
      BY WrapIs
  <1>3. w \in Word /\ w \in Nat
      BY WrapType, WrapWord
  <1>4. w % 2 = e
    <2> DEFINE j == Half * k
    <2>1. j \in Int /\ Whole * k = 2 * j
        BY <1>2, Sizes
    <2> HIDE DEF j, w
    <2>2. w = t + 2 * j
        BY <1>2, <2>1
    <2> QED BY <2>1, <2>2
  <1> HIDE DEF w, e, m
  <1>5. w - e = m + Whole * k
      BY <1>1, <1>2, <1>3, Sizes
  <1>6. w - e \in Word
    <2>1. w - e >= 0 /\ w - e <= w /\ w - e \in Int
        BY <1>1, <1>3, <1>4
    <2>2. w \in 0 .. (Whole - 1)
        BY <1>3, WordIs
    <2>3. w - e \in 0 .. (Whole - 1)
        BY <2>1, <2>2, Sizes
    <2> QED BY <2>3, WordIs
  <1>7. Wrap(m) = w - e
      BY <1>1, <1>2, <1>5, <1>6, WrapSame, WrapWord
  <1>8. Even(w) = w - e
      BY <1>4 DEF Even
  <1> QED BY <1>7, <1>8 DEF w, m

LEMMA JalrCarried ==
  ASSUME TypeOK, NEW I \in InstructionSet, Jalr(I)
  PROVE  Carried(I)
  <1> DEFINE r == reg[I.rs1]
             t == Signed(r) + I.imm
             n == 2 * (t \div 2)
  <1>1. /\ I.op = "JALR" /\ Write(I.rd, Wrap(pc + 4)) /\ pc' = Even(Wrap(r + I.imm))
        /\ UNCHANGED <<mem, out, prog>>
      BY DEF Jalr, Counted
  <1>2. /\ I.rd \in Register /\ I.imm \in Int
        /\ r \in Word /\ Machine!R(I.rs1) = Signed(r)
      BY InstructionIs, RegisterRead
  <1> HIDE DEF r
  <1>3. t \in Int /\ Wrap(t) = Wrap(r + I.imm)
      BY <1>2, SignedIs, WrapSums
  <1> HIDE DEF t
  <1>4. reg' \in [Register -> Word] /\ reg'[0] = 0 /\ Machine!Set(I.rd, Machine!Value(pc + 4))
      BY <1>1, <1>2, Linked
  <1>5. n \in Int /\ pc' = Wrap(n)
      BY <1>1, <1>3, EvenIs
  <1> HIDE DEF n
  <1>6. pc' \in Word /\ Machine!Goto(n)
      BY <1>5, GoneTo
  <1>7. TypeOK'
      BY <1>1, <1>4, <1>6 DEF TypeOK
  <1>8. Machine!Goto(2 * ((Machine!R(I.rs1) + I.imm) \div 2))
      BY <1>2, <1>6 DEF n, t
  <1>9. Machine!Jumps(I)
      BY <1>1, <1>4, <1>8 DEF Machine!Jumps
  <1> QED BY <1>7, <1>9 DEF Carried

LEMMA LoadedType == \A b : OfBytes(b) \in Word
  <1> SUFFICES ASSUME NEW b PROVE OfBytes(b) \in Word
      OBVIOUS
  <1> DEFINE S == {k \in 0 .. (WordBits - 1) : (b[k \div ByteBits] \div 2 ^ (k % ByteBits)) % 2 = 1}
  <1>1. OfBytes(b) = OfBits(S) /\ S \in SUBSET Places
      BY DEF OfBytes, Places
  <1> HIDE DEF S
  <1> QED BY <1>1, OfBitsIs

LEMMA LwCarried ==
  ASSUME TypeOK, NEW I \in InstructionSet, Lw(I)
  PROVE  Carried(I) \/ status' # "running"
  <1> DEFINE u == Wrap(reg[I.rs1] + I.imm)
             a == Address(I)
             bytes == [k \in 0 .. (WordBytes - 1) |-> mem[a + k]]
  <1>1. /\ I.op = "LOAD" /\ UNCHANGED <<mem, out>>
        /\ \/ /\ a = Device /\ Advance /\ Counted
              /\ \E input \in Inputs : Write(I.rd, input)
           \/ /\ Accepted(a) /\ Inside(a) /\ Advance /\ Counted
              /\ Write(I.rd, OfBytes(bytes))
           \/ status' # "running"
      BY DEF Lw, Fail, Overrun
  <1>2. /\ u \in Word /\ a \in Int
        /\ u = Machine!Wrap(Machine!R(I.rs1) + I.imm)
        /\ a = Device <=> u = 2 * DataBase
        /\ Accepted(a) => a = u - DataBase
        /\ Machine!InMemory(u) <=> Accepted(a) /\ Inside(a)
      BY AddressIs
  <1>3. I.rd \in Register /\ Machine!WordBytes = WordBytes
      BY InstructionIs DEF Machine!WordBytes, WordBytes
  <1> HIDE DEF u, a, bytes
  <1>4. CASE a = Device /\ Advance /\ Counted /\ \E input \in Inputs : Write(I.rd, input)
    <2>1. PICK v \in Inputs : Write(I.rd, v)
        BY <1>4
    <2>2. v \in Word /\ v \in Machine!Word
        BY RvAssumption, SameWords
    <2>3. reg' \in [Register -> Word] /\ reg'[0] = 0 /\ Machine!Set(I.rd, Machine!Signed(v))
        BY <1>3, <2>1, <2>2, RegisterWritten, SameWords
    <2>4. pc' \in Word /\ Machine!Follow
        BY <1>4, Followed
    <2>5. TypeOK'
        BY <1>1, <1>4, <2>3, <2>4 DEF TypeOK, Counted
    <2>6. Machine!Loads(I)
        BY <1>1, <1>2, <1>4, <2>2, <2>3, <2>4 DEF Machine!Loads
    <2> QED BY <2>5, <2>6 DEF Carried
  <1>5. CASE Accepted(a) /\ Inside(a) /\ Advance /\ Counted /\ Write(I.rd, OfBytes(bytes))
    <2>1. bytes = [k \in 0 .. (Machine!WordBytes - 1) |-> mem[u - DataBase + k]]
        BY <1>2, <1>3, <1>5 DEF bytes
    <2>2. OfBytes(bytes) \in Word
        BY LoadedType
    <2>3. Machine!Value(Machine!OfBytes(bytes)) = Signed(OfBytes(bytes))
        BY <2>2, SameWords, WrapWord
    <2>4. reg' \in [Register -> Word] /\ reg'[0] = 0 /\ Machine!Set(I.rd, Machine!Value(Machine!OfBytes(bytes)))
        BY <1>3, <1>5, <2>2, <2>3, RegisterWritten
    <2>5. pc' \in Word /\ Machine!Follow
        BY <1>5, Followed
    <2>6. TypeOK'
        BY <1>1, <1>5, <2>4, <2>5 DEF TypeOK, Counted
    <2>7. Machine!InMemory(u)
        BY <1>2, <1>5
    <2>8. Machine!Loads(I)
        BY <1>1, <1>2, <2>1, <2>4, <2>5, <2>7 DEF Machine!Loads
    <2> QED BY <2>6, <2>8 DEF Carried
  <1> QED BY <1>1, <1>4, <1>5

LEMMA StoredType ==
  ASSUME TypeOK, NEW a \in Int, NEW w \in Word
  PROVE  Stored(a, w) \in [0 .. (MemSize - 1) -> Byte]
  <1>1. ASSUME NEW k \in Lanes(a) PROVE ByteOf(w, k - a) \in Byte
    <2> DEFINE P == 2 ^ (ByteBits * (k - a))
               Q == 2 ^ ByteBits
               q == w \div P
    <2>1. k - a \in Nat
        BY Layout DEF Lanes
    <2>2. ByteBits * (k - a) \in Nat /\ ByteBits \in Nat
      <3> DEFINE d == k - a
      <3>1. d \in Nat
          BY <2>1
      <3> HIDE DEF d
      <3>2. ByteBits * d \in Nat /\ ByteBits \in Nat
          BY <3>1, RvAssumption
      <3> QED BY <3>2 DEF d
    <2>3. P \in Nat \ {0} /\ Q \in Nat \ {0} /\ w \in Int
        BY <2>2, PowerType, WrapWord
    <2> HIDE DEF P, Q
    <2>4. q \in Int
        BY <2>3, DivMod
    <2> HIDE DEF q
    <2>5. q % Q \in 0 .. Q - 1
        BY <2>3, <2>4, DivMod
    <2> QED BY <2>5 DEF ByteOf, Byte, q, P, Q
  <1>2. mem \in [0 .. (MemSize - 1) -> Byte]
      BY DEF TypeOK
  <1> QED BY <1>1, <1>2 DEF Stored

LEMMA SwCarried ==
  ASSUME TypeOK, NEW I \in InstructionSet, Sw(I)
  PROVE  Carried(I) \/ status' # "running"
  <1> DEFINE u == Wrap(reg[I.rs1] + I.imm)
             a == Address(I)
             w == reg[I.rs2]
  <1>1. /\ I.op = "STORE" /\ UNCHANGED reg
        /\ \/ /\ Accepted(a) /\ Inside(a) /\ Advance /\ Counted
              /\ mem' = Stored(a, w) /\ UNCHANGED out
           \/ /\ a = Device /\ Advance /\ Counted
              /\ out' = Printed(w) /\ UNCHANGED mem
           \/ status' # "running"
      BY DEF Sw, Fail, Overrun
  <1>2. /\ u \in Word /\ a \in Int
        /\ u = Machine!Wrap(Machine!R(I.rs1) + I.imm)
        /\ a = Device <=> u = 2 * DataBase
        /\ Accepted(a) => a = u - DataBase
        /\ Machine!InMemory(u) <=> Accepted(a) /\ Inside(a)
      BY AddressIs
  <1>3. w \in Word /\ Machine!Wrap(Machine!R(I.rs2)) = w
      BY InstructionIs, RegisterRead, SignedIs, SameWords
  <1> HIDE DEF u, a, w
  <1>4. CASE Accepted(a) /\ Inside(a) /\ Advance /\ Counted /\ mem' = Stored(a, w) /\ UNCHANGED out
    <2>1. pc' \in Word /\ Machine!Follow
        BY <1>4, Followed
    <2>2. mem' \in [0 .. (MemSize - 1) -> Byte]
        BY <1>2, <1>3, <1>4, StoredType
    <2>3. TypeOK'
        BY <1>1, <1>4, <2>1, <2>2 DEF TypeOK, Counted
    <2>4. Machine!InMemory(u) /\ a = u - DataBase
        BY <1>2, <1>4
    <2>5. mem' = [k \in DOMAIN mem |-> IF k \in Machine!Lanes(u)
                                        THEN Machine!ByteOf(w, k - (u - DataBase)) ELSE mem[k]]
      <3>1. Machine!Lanes(u) = Lanes(a)
          BY <2>4 DEF Machine!Lanes, Lanes, Machine!WordBytes, WordBytes
      <3>2. \A k : Machine!ByteOf(w, k - (u - DataBase)) = ByteOf(w, k - a)
          BY <2>4, SameWords
      <3> QED BY <1>4, <3>1, <3>2 DEF Stored
    <2>6. Machine!Stores(I)
        BY <1>1, <1>2, <1>3, <1>4, <2>1, <2>4, <2>5 DEF Machine!Stores
    <2> QED BY <2>3, <2>6 DEF Carried
  <1>5. CASE a = Device /\ Advance /\ Counted /\ out' = Printed(w) /\ UNCHANGED mem
    <2>1. pc' \in Word /\ Machine!Follow
        BY <1>5, Followed
    <2>2. TypeOK'
        BY <1>1, <1>5, <2>1 DEF TypeOK, Counted
    <2>3. out' \in {out, Append(out, w)}
        BY <1>5 DEF Printed
    <2>4. Machine!Stores(I)
        BY <1>1, <1>2, <1>3, <1>5, <2>1, <2>3 DEF Machine!Stores
    <2> QED BY <2>2, <2>4 DEF Carried
  <1> QED BY <1>1, <1>4, <1>5

----------------------------------------------------------------------------
(* The whole loop.  The switch has no case for bltu and bgeu: programs     *)
(* with them are not run by the machine (see UnsignedBranchesRight).       *)

NoUnsigned == \A p \in Programs : \A k \in DOMAIN p : p[k].fn \notin {"bltu", "bgeu"}

\* The machine's state is typed, and a run that has failed has failed rightly; it stays
\* as it is.
IInv == TypeOK /\ FailsRightly

\* return -1, or the model's end at an access behind mem: only for an access that the
\* machine does not carry out.
LEMMA FailedRightly ==
  ASSUME TypeOK, Instruction \in InstructionSet, status = "running",
         Lw(Instruction) \/ Sw(Instruction), status' # "running"
  PROVE  UNCHANGED <<pc, reg, mem, prog, out>> /\ FailsRightly'
  <1> DEFINE I == Instruction
             u == Wrap(reg[I.rs1] + I.imm)
             a == Address(I)
  <1>1. ~ Counted
      BY DEF Counted
  <1>2. /\ I.op \in {"LOAD", "STORE"}
        /\ UNCHANGED <<pc, reg, mem, prog, out>>
        /\ \/ Accepted(a) /\ ~ Inside(a)
           \/ ~ Accepted(a) /\ a # Device
      BY <1>1 DEF Lw, Sw, Fail, Overrun
  <1>3. /\ a = Device <=> u = 2 * DataBase
        /\ Accepted(a) => a # Device
        /\ Machine!InMemory(u) <=> Accepted(a) /\ Inside(a)
      BY AddressIs
  <1>4. u # 2 * DataBase /\ ~ Machine!InMemory(u)
    <2> HIDE DEF u, a
    <2> QED BY <1>2, <1>3
  <1>5. Instruction' = Instruction /\ reg' = reg
      BY <1>2 DEF Instruction
  <1>6. FailsRightly'
      BY <1>2, <1>4, <1>5 DEF FailsRightly, Machine!InMemory, Machine!Lanes, Machine!WordBytes, Wrap
  <1> QED BY <1>2, <1>6

LEMMA Round ==
  ASSUME NoUnsigned, TypeOK, Running, Execute(Instruction)
  PROVE  \/ Carried(Instruction) /\ status' = "running" /\ UNCHANGED prog
         \/ status' # "running" /\ UNCHANGED <<pc, reg, mem, prog, out>> /\ FailsRightly'
  <1> DEFINE I == Instruction
  <1>1. I \in InstructionSet /\ pc \div 4 + 1 \in DOMAIN prog /\ status = "running"
      BY Fetched DEF Running
  <1>2. I.fn \notin {"bltu", "bgeu"}
      BY <1>1 DEF NoUnsigned, TypeOK, Instruction
  <1>3. UNCHANGED prog
      BY DEF Execute, Lw, OpImm, Upper, Sw, Op, Branch, Jalr, Jal, Unknown, Counted, Fail, Overrun
  <1>4. CASE Lw(I) \/ Sw(I)
      BY <1>1, <1>3, <1>4, LwCarried, SwCarried, FailedRightly
  <1>5. CASE OpImm(I) \/ Op(I) \/ Upper(I) \/ Unknown(I)
    <2>1. Carried(I)
        BY <1>1, <1>5, OpImmCarried, OpCarried, UpperCarried, UnknownCarried
    <2>2. UNCHANGED status
        BY <1>5 DEF OpImm, Op, Upper, Unknown, Counted
    <2> QED BY <1>1, <1>3, <2>1, <2>2
  <1>6. CASE Jal(I) \/ Jalr(I)
    <2>1. Carried(I)
        BY <1>1, <1>6, JalCarried, JalrCarried
    <2>2. UNCHANGED status
        BY <1>6 DEF Jal, Jalr, Counted
    <2> QED BY <1>1, <1>3, <2>1, <2>2
  <1>7. CASE Branch(I)
    <2>1. I.op = "BRANCH" /\ UNCHANGED status
        BY <1>7 DEF Branch, Counted
    <2>2. I.fn \in Branches
        BY <1>1, <1>2, <2>1, InstructionIs
    <2>3. Carried(I)
        BY <1>1, <1>7, <2>2, BranchCarried
    <2> QED BY <1>1, <1>3, <2>1, <2>3
  <1> HIDE DEF I
  <1>8. Execute(I)
      BY DEF I
  <1> QED BY <1>4, <1>5, <1>6, <1>7, <1>8 DEF Execute

\* A round that goes on is a step of the machine, every other step leaves it as it is.
LEMMA StepIs ==
  ASSUME NoUnsigned, IInv, [Next]_vars
  PROVE  /\ IInv'
         /\ [Machine!Next]_(Machine!vars)
         /\ i' # i /\ status' = "running" => Machine!Next
  <1>1. CASE Running /\ Execute(Instruction)
    <2>1. CASE Carried(Instruction) /\ status' = "running" /\ UNCHANGED prog
      <3>1. pc \div 4 + 1 \in DOMAIN prog
          BY <1>1, Fetched DEF Running, IInv
      <3>2. Machine!Next
          BY <2>1, <3>1 DEF Machine!Next, Carried, Instruction
      <3>3. IInv'
          BY <2>1 DEF IInv, Carried, FailsRightly
      <3> QED BY <3>2, <3>3
    <2>2. CASE status' # "running" /\ UNCHANGED <<pc, reg, mem, prog, out>> /\ FailsRightly'
      <3>1. TypeOK'
          BY <2>2 DEF IInv, TypeOK
      <3>2. UNCHANGED Machine!vars
          BY <2>2 DEF Machine!vars
      <3> QED BY <2>2, <3>1, <3>2 DEF IInv
    <2> QED BY <1>1, <2>1, <2>2, Round DEF IInv
  <1>2. CASE Finish
    <2>1. UNCHANGED <<pc, reg, mem, prog, i, out>> /\ status' = "done"
        BY <1>2 DEF Finish
    <2>2. IInv'
        BY <2>1 DEF IInv, TypeOK, FailsRightly
    <2>3. UNCHANGED Machine!vars
        BY <2>1 DEF Machine!vars
    <2> QED BY <2>1, <2>2, <2>3
  <1>3. CASE UNCHANGED vars
    <2>1. UNCHANGED <<pc, reg, mem, prog, i, status, out>>
        BY <1>3 DEF vars
    <2>2. TypeOK'
        BY <2>1 DEF IInv, TypeOK
    <2>3. FailsRightly'
        BY <2>1 DEF IInv, FailsRightly, Instruction, Machine!InMemory, Machine!Lanes, Machine!WordBytes, Wrap
    <2>4. UNCHANGED Machine!vars
        BY <2>1 DEF Machine!vars
    <2> QED BY <2>1, <2>2, <2>3, <2>4 DEF IInv
  <1> QED BY <1>1, <1>2, <1>3 DEF Next

LEMMA StartIs == ASSUME Init PROVE IInv /\ Machine!Init
  <1>1. PICK d \in Data : mem = Loaded(d)
      BY DEF Init
  <1>2. d \in Seq(Byte)
      BY RvAssumption
  <1>3. 0 \in Byte
    <2> DEFINE B == 2 ^ ByteBits
    <2>1. B \in Nat \ {0}
        BY PowerType, RvAssumption
    <2> HIDE DEF B
    <2>2. 0 \in 0 .. (B - 1)
        BY <2>1
    <2> QED BY <2>2 DEF Byte, B
  <1>4. mem \in [0 .. (MemSize - 1) -> Byte]
    <2>1. ASSUME NEW k \in 0 .. (MemSize - 1), k < Len(d) PROVE d[k + 1] \in Byte
      <3> k + 1 \in 1 .. Len(d)
          BY <1>2, <2>1, Layout
      <3> QED BY <1>2
    <2> QED BY <1>1, <1>3, <2>1 DEF Loaded
  <1>5. 0 \in Word /\ Signed(0) = 0 /\ 0 \in Register
      BY BoolIs, RvAssumption DEF Register
  <1>6. TypeOK
      BY <1>4, <1>5 DEF TypeOK, Init, Register
  <1>7. FailsRightly
      BY DEF Init, FailsRightly
  <1>8. [r \in 1 .. (NRegs - 1) |-> Signed(reg[r])] = [r \in 1 .. (NRegs - 1) |-> 0]
    <2> \A r \in 1 .. (NRegs - 1) : reg[r] = 0
        BY RvAssumption DEF Init
    <2> QED BY <1>5
  <1>9. Machine!Init
      BY <1>4, <1>8 DEF Init, Machine!Init, Machine!Byte, Byte
  <1> QED BY <1>6, <1>7, <1>9 DEF IInv

\* Every run of the simulator is a run of the machine that RvIsa specifies: each round of
\* the loop carries out the instruction at pc as the machine does, registers, memory and
\* output agree throughout, and the run ends early only at an access that the machine
\* refuses (main, project_2/main.c:60-431).
THEOREM RunsTheMachine ==
  ASSUME NoUnsigned
  PROVE  Spec => Implements
  <1>1. Init => IInv /\ Machine!Init
      BY StartIs
  <1>2. IInv /\ [Next]_vars => IInv'
      BY StepIs
  <1>3. IInv /\ [Next]_vars => [Machine!Next]_(Machine!vars)
      BY StepIs
  <1>4. IInv /\ [Next]_vars => [i' # i /\ status' = "running" => Machine!Next]_vars
      BY StepIs
  <1>5. IInv => FailsRightly
      BY DEF IInv
  <1> QED BY <1>1, <1>2, <1>3, <1>4, <1>5, PTL DEF Spec, Implements, EachRoundExecutes, Machine!Spec
=============================================================================
