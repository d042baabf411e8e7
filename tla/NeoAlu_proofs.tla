---------------------------- MODULE NeoAlu_proofs ----------------------------
(***************************************************************************)
(* Proofs about the ALU of NEORV32, for every program, every size of the   *)
(* words and of the floats, with and without fast shifts. First lemmas     *)
(* about words: a word is the set of the positions of its ones. Then the   *)
(* control:                                                                *)
(* each co-processor keeps to the interface of the arbiter, none answers   *)
(* an instruction that is not waiting for it, and illegal instructions are *)
(* masked. The data: each co-processor works on the operands of the        *)
(* instruction that waits for it, and what is written is what C computes,  *)
(* for the base instructions, bit manipulation and those of the FPU that   *)
(* compare. The registers of all of them keep their widths, and of the     *)
(* units of the FPU at most one is at work. At last the conversions of     *)
(* floats to integers, the simplest of what the FPU computes by shifting,  *)
(* and the numbers with a sticky bit that NeoFloats_proofs goes on with.   *)
(***************************************************************************)
EXTENDS NeoAluIntrinsics, FiniteSetTheorems, TLAPS

-----------------------------------------------------------------------------
(* Induction.                                                              *)

\* What holds of 0, and of a number whenever of the one before, holds up to m.
LEMMA Induction ==
    ASSUME NEW m \in Nat, NEW S, 0 \in S, \A n \in 1 .. m : n - 1 \in S => n \in S
    PROVE  \A n \in 0 .. m : n \in S
<1> DEFINE fails == {n \in 0 .. m : n \notin S}
           intervals == {0 .. n : n \in fails}
<1> SUFFICES ASSUME fails # {} PROVE FALSE
  OBVIOUS
<1>1. intervals \subseteq SUBSET (0 .. m) /\ intervals # {}
  OBVIOUS
<1>2. FiniteSubsetsOf(0 .. m) = SUBSET (0 .. m)
  <2>1. IsFiniteSet(0 .. m)
    BY FS_Interval
  <2> QED BY <2>1, FS_FiniteSubsetsOfFinite
<1>3. PICK t \in intervals : \A u \in intervals : <<u, t>> \notin StrictSubsetOrdering(0 .. m)
  <2> HIDE DEF intervals
  <2>1. IsWellFoundedOn(StrictSubsetOrdering(0 .. m), FiniteSubsetsOf(0 .. m))
    BY FS_StrictSubsetOrderingWellFounded
  <2>2. intervals \subseteq FiniteSubsetsOf(0 .. m)
    BY <1>1, <1>2
  <2> QED BY <1>1, <2>1, <2>2, WFMin
<1>4. PICK n \in fails : t = 0 .. n
  OBVIOUS
<1>5. n # 0 /\ n - 1 \in fails
  OBVIOUS
<1>6. /\ 0 .. n - 1 \in intervals
      /\ 0 .. n - 1 \subseteq 0 .. n /\ n \in 0 .. n /\ n \notin 0 .. n - 1
  BY <1>5
<1>7. <<0 .. n - 1, t>> \in StrictSubsetOrdering(0 .. m)
  BY <1>1, <1>4, <1>6 DEF StrictSubsetOrdering
<1> QED BY <1>3, <1>6, <1>7

-----------------------------------------------------------------------------
(* The sum of powers of two that a set of positions stands for.            *)

\* What the recursive function of WordOf is.
IsSum(sum, ones, m) ==
    sum = [n \in 0 .. m |-> IF n = 0 THEN 0
                            ELSE sum[n - 1] + (IF n - 1 \in ones THEN 2 ^ (n - 1) ELSE 0)]

LEMMA WordOfIsSum ==
    ASSUME NEW ones
    PROVE  \E sum : IsSum(sum, ones, XLEN) /\ WordOf(ones) = sum[XLEN]
<1> DEFINE exists == {m \in 0 .. XLEN : \E sum : IsSum(sum, ones, m)}
           add(n) == IF n - 1 \in ones THEN 2 ^ (n - 1) ELSE 0
<1>0. XLEN \in Nat
  BY WordSizes
<1>1. 0 \in exists
  <2>1. IsSum([n \in 0 .. 0 |-> 0], ones, 0)
    BY DEF IsSum
  <2> QED BY <1>0, <2>1
<1>2. ASSUME NEW m \in 1 .. XLEN, m - 1 \in exists
      PROVE  m \in exists
  <2>1. PICK sum : IsSum(sum, ones, m - 1)
    BY <1>2
  <2> DEFINE longer == [n \in 0 .. m |-> IF n = m THEN sum[m - 1] + add(m) ELSE sum[n]]
  <2>2. IsSum(longer, ones, m)
    <3>1. ASSUME NEW n \in 0 .. m
          PROVE  longer[n] = IF n = 0 THEN 0 ELSE longer[n - 1] + add(n)
      <4>1. CASE n = m
        BY <1>2, <4>1
      <4>2. CASE n # m
        <5>1. /\ n \in 0 .. m - 1
              /\ longer[n] = sum[n]
              /\ n # 0 => n - 1 \in 0 .. m /\ n - 1 # m /\ longer[n - 1] = sum[n - 1]
          BY <1>2, <4>2
        <5>2. sum[n] = IF n = 0 THEN 0 ELSE sum[n - 1] + add(n)
          BY <2>1, <5>1 DEF IsSum
        <5> QED BY <5>1, <5>2
      <4> QED BY <4>1, <4>2
    <3> QED BY <3>1 DEF IsSum
  <2> HIDE DEF longer
  <2> QED BY <1>2, <2>2
<1>3. XLEN \in exists
  <2> HIDE DEF exists
  <2> QED BY <1>0, <1>1, <1>2, Induction
<1>4. PICK sum : IsSum(sum, ones, XLEN)
  BY <1>3
<1> DEFINE chosen == CHOOSE f : IsSum(f, ones, XLEN)
<1>5. IsSum(chosen, ones, XLEN)
  BY <1>4
<1>6. WordOf(ones) = chosen[XLEN]
  BY DEF WordOf, IsSum
<1> QED BY <1>5, <1>6

-----------------------------------------------------------------------------
(* Powers of two, quotients and remainders.                                *)

LEMMA Powers ==
    /\ XLEN \in Nat /\ XLEN >= 4
    /\ 2 ^ 0 = 1
    /\ \A n \in 0 .. XLEN : 2 ^ n \in Nat /\ 2 ^ n >= 1
    /\ \A n \in 1 .. XLEN : 2 ^ n = 2 * 2 ^ (n - 1)
    /\ \A n \in 0 .. XLEN : \A m \in 0 .. n : 2 ^ n = 2 ^ m * 2 ^ (n - m) /\ 2 ^ m <= 2 ^ n
<1>1. XLEN \in Nat /\ XLEN >= 4
  BY WordSizes
<1>2. 2 ^ 0 = 1 /\ 2 ^ 1 = 2
  OBVIOUS
<1>3. \A n \in 0 .. XLEN : 2 ^ n \in Nat /\ 2 ^ n >= 1
  BY PowersOfTwo
<1>4. ASSUME NEW n \in 1 .. XLEN PROVE 2 ^ n = 2 * 2 ^ (n - 1)
  <2>1. n \in 0 .. XLEN /\ 1 \in 0 .. n
    BY <1>1
  <2>2. 2 ^ n = 2 ^ 1 * 2 ^ (n - 1)
    BY <2>1, PowersOfTwo
  <2> QED BY <1>2, <2>2
<1>5. ASSUME NEW n \in 0 .. XLEN, NEW m \in 0 .. n
      PROVE  2 ^ n = 2 ^ m * 2 ^ (n - m) /\ 2 ^ m <= 2 ^ n
  <2>1. 2 ^ n = 2 ^ m * 2 ^ (n - m)
    BY PowersOfTwo
  <2> DEFINE a == 2 ^ m
             b == 2 ^ (n - m)
  <2>2. a \in Nat /\ b \in Nat /\ b >= 1
    BY <1>1, <1>3
  <2> HIDE DEF a, b
  <2>3. a <= a * b
    BY <2>2
  <2> QED BY <2>1, <2>3 DEF a, b
<1> QED BY <1>1, <1>2, <1>3, <1>4, <1>5

LEMMA DivMod ==
    ASSUME NEW a \in Int, NEW d \in Nat \ {0}
    PROVE  /\ a \div d \in Int /\ a % d \in Int /\ 0 <= a % d /\ a % d < d
           /\ a = d * (a \div d) + (a % d)
OBVIOUS

\* Quotient and remainder are determined by their equation.
LEMMA Division ==
    ASSUME NEW d \in Nat \ {0}, NEW q \in Int, NEW r \in Int, 0 <= r, r < d,
           NEW a \in Int, a = d * q + r
    PROVE  a \div d = q /\ a % d = r
<1> DEFINE p == a \div d
           s == a % d
<1>1. p \in Int /\ s \in Int /\ 0 <= s /\ s < d /\ a = d * p + s
  BY DivMod
<1> HIDE DEF p, s
<1>2. p >= q + 1 => d * p >= d * q + d
  BY <1>1
<1>3. q >= p + 1 => d * q >= d * p + d
  BY <1>1
<1>4. p = q
  BY <1>1, <1>2, <1>3
<1> QED BY <1>1, <1>4 DEF p, s

\* Dividing by a product is dividing twice.
LEMMA DividedTwice ==
    ASSUME NEW a \in Int, NEW c \in Nat \ {0}, NEW d \in Nat \ {0}
    PROVE  /\ a \div (c * d) = (a \div c) \div d
           /\ a % (c * d) = c * ((a \div c) % d) + (a % c)
<1> DEFINE q == a \div c
           r == a % c
           p == q \div d
           s == q % d
<1>1. /\ q \in Int /\ r \in Int /\ 0 <= r /\ r < c
      /\ a = c * q + r
  BY DivMod
<1>2. p \in Int /\ s \in Int /\ 0 <= s /\ s < d /\ q = d * p + s
  BY <1>1, DivMod
<1> HIDE DEF q, r, p, s
<1>3. a = (c * d) * p + (c * s + r)
  BY <1>1, <1>2
<1>4. c * s + r < c * d /\ 0 <= c * s + r /\ c * s + r \in Int
  <2>1. c * s + c <= c * d
    BY <1>2
  <2>2. c * s \in Int /\ 0 <= c * s /\ c * d \in Int
    BY <1>2
  <2> QED BY <1>1, <2>1, <2>2
<1>5. c * d \in Nat \ {0}
  OBVIOUS
<1>6. a \div (c * d) = p /\ a % (c * d) = c * s + r
  <2> DEFINE e == c * d
             rest == c * s + r
  <2>1. e \in Nat \ {0} /\ rest \in Int /\ 0 <= rest /\ rest < e /\ a = e * p + rest
    BY <1>3, <1>4, <1>5
  <2> HIDE DEF e, rest
  <2>2. a \div e = p /\ a % e = rest
    BY <1>2, <2>1, Division
  <2> QED BY <2>2 DEF e, rest
<1> QED BY <1>6 DEF p, q, r, s

\* Of a multiple of the divisor only the quotient takes notice.
LEMMA MultipleAdded ==
    ASSUME NEW a \in Int, NEW d \in Nat \ {0}, NEW k \in Int
    PROVE  (a + d * k) \div d = (a \div d) + k /\ (a + d * k) % d = a % d
<1> DEFINE q == a \div d
           r == a % d
<1>1. q \in Int /\ r \in Int /\ 0 <= r /\ r < d /\ a = d * q + r
  BY DivMod
<1> HIDE DEF q, r
<1>2. a + d * k = d * (q + k) + r /\ q + k \in Int /\ a + d * k \in Int
  BY <1>1
<1>3. (a + d * k) \div d = q + k /\ (a + d * k) % d = r
  BY <1>1, <1>2, Division
<1> QED BY <1>3 DEF q, r

-----------------------------------------------------------------------------
(* Bits.                                                                   *)

LEMMA BitRange ==
    ASSUME NEW a \in Int, NEW j \in 0 .. XLEN
    PROVE  Bit(a, j) \in {0, 1}
<1> DEFINE d == 2 ^ j
<1>1. d \in Nat \ {0}
  BY Powers
<1> HIDE DEF d
<1>2. a \div d \in Int
  BY <1>1, DivMod
<1>3. (a \div d) % 2 \in {0, 1}
  BY <1>2
<1> QED BY <1>3 DEF Bit, d

\* A bit more is the next power of two.
LEMMA OneMoreBit ==
    ASSUME NEW a \in Int, NEW j \in Positions
    PROVE  a % 2 ^ (j + 1) = (a % 2 ^ j) + 2 ^ j * Bit(a, j)
<1> DEFINE d == 2 ^ j
<1>1. d \in Nat \ {0} /\ 2 ^ (j + 1) = d * 2
  BY Powers DEF Positions
<1> HIDE DEF d
<1>2. a % (d * 2) = d * ((a \div d) % 2) + (a % d)
  <2>1. 2 \in Nat \ {0}
    OBVIOUS
  <2> QED BY <1>1, <2>1, DividedTwice
<1>3. a % d \in Int /\ a \div d \in Int
  BY <1>1, DivMod
<1>4. (a \div d) % 2 \in Int
  BY <1>3
<1>5. d * ((a \div d) % 2) \in Int
  BY <1>1, <1>4
<1> QED BY <1>1, <1>2, <1>3, <1>5 DEF Bit, d

\* What is added from a higher position on leaves a bit alone.
LEMMA HigherAdded ==
    ASSUME NEW a \in Int, NEW c \in Int, NEW k \in 0 .. XLEN, NEW j \in 0 .. k - 1
    PROVE  Bit(a + 2 ^ k * c, j) = Bit(a, j)
<1> DEFINE d == 2 ^ j
           e == 2 ^ (k - j - 1)
           q == a \div d
<1>1. j + 1 \in 0 .. k /\ j + 1 \in 1 .. XLEN /\ k - (j + 1) = k - j - 1 /\ (j + 1) - 1 = j
      /\ k - j - 1 \in 0 .. XLEN /\ j \in 0 .. XLEN
  BY Powers
<1>2. d \in Nat \ {0} /\ e \in Nat \ {0} /\ 2 ^ k = (2 * d) * e
  BY <1>1, Powers
<1> HIDE DEF d, e
<1>3. q \in Int
  BY <1>2, DivMod
<1>4. 2 ^ k * c = d * (2 * (e * c)) /\ e * c \in Int /\ 2 * (e * c) \in Int
  BY <1>2
<1>5. (a + 2 ^ k * c) \div d = q + 2 * (e * c)
  <2> DEFINE g == 2 * (e * c)
  <2>1. g \in Int /\ 2 ^ k * c = d * g
    BY <1>4
  <2> HIDE DEF g
  <2>2. (a + d * g) \div d = q + g
    BY <1>2, <2>1, MultipleAdded
  <2> QED BY <2>1, <2>2 DEF g
<1> HIDE DEF q
<1> DEFINE f == e * c
<1>6. f \in Int
  BY <1>4
<1> HIDE DEF f
<1>7. (q + 2 * f) % 2 = q % 2
  BY <1>3, <1>6
<1> QED BY <1>5, <1>7 DEF Bit, d, q, f

-----------------------------------------------------------------------------
(* A word is the sum of the powers of two at its ones.                     *)

LEMMA WordOfOnes ==
    ASSUME NEW word \in Words
    PROVE  WordOf(Ones(word)) = word
<1>1. PICK sum : IsSum(sum, Ones(word), XLEN) /\ WordOf(Ones(word)) = sum[XLEN]
  BY WordOfIsSum
<1>2. XLEN \in Nat /\ 2 ^ 0 = 1 /\ 2 ^ XLEN \in Nat /\ word \in Int /\ 0 <= word /\ word < 2 ^ XLEN
  BY Powers DEF Words
<1> DEFINE low == {n \in 0 .. XLEN : sum[n] = word % 2 ^ n}
<1>3. 0 \in low
  BY <1>1, <1>2 DEF IsSum
<1>4. ASSUME NEW n \in 1 .. XLEN, n - 1 \in low
      PROVE  n \in low
  <2>1. n - 1 \in Positions /\ n \in 0 .. XLEN /\ n - 1 \in 0 .. XLEN /\ (n - 1) + 1 = n
    BY <1>2 DEF Positions
  <2>2. sum[n] = sum[n - 1] + (IF n - 1 \in Ones(word) THEN 2 ^ (n - 1) ELSE 0)
    BY <1>1, <2>1 DEF IsSum
  <2>3. word % 2 ^ n = (word % 2 ^ (n - 1)) + 2 ^ (n - 1) * Bit(word, n - 1)
    BY <1>2, <2>1, OneMoreBit
  <2>4. /\ n - 1 \in Ones(word) <=> Bit(word, n - 1) = 1
        /\ Bit(word, n - 1) \in {0, 1}
    BY <1>2, <2>1, BitRange DEF Ones
  <2>5. sum[n - 1] = word % 2 ^ (n - 1)
    BY <1>4
  <2>6. 2 ^ (n - 1) \in Nat
    BY <2>1, Powers
  <2> QED BY <2>1, <2>2, <2>3, <2>4, <2>5, <2>6
<1>5. sum[XLEN] = word % 2 ^ XLEN
  <2> HIDE DEF low
  <2>1. XLEN \in low
    BY <1>2, <1>3, <1>4, Induction
  <2> QED BY <2>1 DEF low
<1> QED BY <1>1, <1>2, <1>5

\* Each set of positions is that of the ones of a word.
LEMMA OnesOfWord ==
    ASSUME NEW ones
    PROVE  /\ WordOf(ones) \in Words
           /\ \A j \in Positions : Bit(WordOf(ones), j) = IF j \in ones THEN 1 ELSE 0
<1>1. PICK sum : IsSum(sum, ones, XLEN) /\ WordOf(ones) = sum[XLEN]
  BY WordOfIsSum
<1>2. XLEN \in Nat /\ 2 ^ 0 = 1
  BY Powers
<1> DEFINE good == {n \in 0 .. XLEN :
                      /\ sum[n] \in Nat /\ sum[n] < 2 ^ n
                      /\ \A j \in 0 .. n - 1 : Bit(sum[n], j) = IF j \in ones THEN 1 ELSE 0}
<1>3. 0 \in good
  BY <1>1, <1>2 DEF IsSum
<1>4. ASSUME NEW n \in 1 .. XLEN, n - 1 \in good
      PROVE  n \in good
  <2> DEFINE d == 2 ^ (n - 1)
             bit == IF n - 1 \in ones THEN 1 ELSE 0
             before == sum[n - 1]
  <2>1. n - 1 \in 0 .. XLEN /\ n \in 0 .. XLEN /\ d \in Nat \ {0} /\ 2 ^ n = 2 * d
    BY <1>2, Powers
  <2>2. /\ before \in Nat /\ before < d
        /\ \A j \in 0 .. n - 2 : Bit(before, j) = IF j \in ones THEN 1 ELSE 0
    BY <1>4
  <2>3. sum[n] = before + d * bit
    BY <1>1, <2>1, <2>2 DEF IsSum
  <2> HIDE DEF before, d
  <2>4. sum[n] \in Nat /\ sum[n] < 2 ^ n
    BY <2>1, <2>2, <2>3
  <2>5. Bit(sum[n], n - 1) = bit
    <3>1. bit \in {0, 1}
      OBVIOUS
    <3> HIDE DEF bit
    <3>2. sum[n] = d * bit + before
      BY <2>1, <2>2, <2>3, <3>1
    <3>3. sum[n] \in Int /\ before \in Int /\ 0 <= before /\ bit \in Int /\ d \in Nat \ {0}
      BY <2>1, <2>2, <2>4, <3>1
    <3>4. sum[n] \div d = bit
      BY <2>2, <3>2, <3>3, Division
    <3> QED BY <3>1, <3>4 DEF Bit, d
  <2>6. ASSUME NEW j \in 0 .. n - 2
        PROVE  Bit(sum[n], j) = IF j \in ones THEN 1 ELSE 0
    <3>1. bit \in Int /\ before \in Int /\ n - 1 \in 0 .. XLEN /\ j \in 0 .. (n - 1) - 1
      BY <2>1, <2>2
    <3> HIDE DEF bit
    <3>2. Bit(before + 2 ^ (n - 1) * bit, j) = Bit(before, j)
      BY <3>1, HigherAdded
    <3> QED BY <2>2, <2>3, <3>2 DEF d
  <2> QED BY <2>1, <2>4, <2>5, <2>6
<1>5. XLEN \in good
  <2> HIDE DEF good
  <2> QED BY <1>2, <1>3, <1>4, Induction
<1>6. WordOf(ones) \in Nat /\ WordOf(ones) < 2 ^ XLEN
  BY <1>1, <1>5
<1>7. 2 ^ XLEN \in Nat
  BY <1>2, Powers
<1> QED BY <1>1, <1>5, <1>6, <1>7 DEF Words, Positions

\* Words with the same bits are the same.
LEMMA SameBits ==
    ASSUME NEW a \in Words, NEW b \in Words, \A j \in Positions : Bit(a, j) = Bit(b, j)
    PROVE  a = b
<1>1. Ones(a) = Ones(b)
  BY DEF Ones
<1> QED BY <1>1, WordOfOnes

-----------------------------------------------------------------------------
(* The bits of what the operations on words give.                          *)

LEMMA WordRange ==
    ASSUME NEW a \in Words
    PROVE  a \in Int /\ a \in Nat /\ 0 <= a /\ a < 2 ^ XLEN
BY Powers DEF Words

LEMMA ZeroBits ==
    /\ 0 \in Words
    /\ \A j \in Positions : Bit(0, j) = 0
<1>1. 0 \in Words
  <2>1. XLEN \in 0 .. XLEN
    BY Powers
  <2>2. 2 ^ XLEN \in Nat /\ 2 ^ XLEN >= 1
    BY <2>1, Powers
  <2> QED BY <2>2 DEF Words
<1>2. ASSUME NEW j \in Positions PROVE Bit(0, j) = 0
  <2> DEFINE e == 2 ^ j
  <2>1. e \in Nat \ {0}
    BY Powers DEF Positions
  <2> HIDE DEF e
  <2>2. 0 = e * 0 + 0 /\ 0 < e
    BY <2>1
  <2>3. 0 \div e = 0
    BY <2>1, <2>2, Division
  <2> QED BY <2>3 DEF Bit, e
<1> QED BY <1>1, <1>2

LEMMA LowBits ==
    ASSUME NEW a \in Nat, NEW n \in 0 .. XLEN
    PROVE  /\ Low(a, n) \in Words
           /\ Low(a, n) < 2 ^ n
           /\ \A j \in Positions : Bit(Low(a, n), j) = IF j < n THEN Bit(a, j) ELSE 0
<1> DEFINE d == 2 ^ n
           q == a \div d
           r == a % d
<1>1. d \in Nat \ {0} /\ d <= 2 ^ XLEN /\ 2 ^ XLEN \in Nat /\ XLEN \in Nat
  BY Powers
<1>2. /\ q \in Int /\ r \in Int /\ 0 <= r /\ r < d /\ a = r + d * q
  <2> HIDE DEF d
  <2> QED BY <1>1, DivMod
<1> HIDE DEF q, r
<1>3. r \in Words
  BY <1>1, <1>2 DEF Words
<1>4. ASSUME NEW j \in Positions, j < n PROVE Bit(r, j) = Bit(a, j)
  <2>1. j \in 0 .. n - 1
    BY <1>1, <1>4 DEF Positions
  <2>2. Bit(r + 2 ^ n * q, j) = Bit(r, j)
    BY <1>2, <2>1, HigherAdded
  <2> QED BY <1>2, <2>2
<1>5. ASSUME NEW j \in Positions, ~(j < n) PROVE Bit(r, j) = 0
  <2>1. n \in 0 .. j /\ j \in 0 .. XLEN
    BY <1>1, <1>5 DEF Positions
  <2> DEFINE e == 2 ^ j
  <2>2. d <= e /\ e \in Nat \ {0}
    BY <2>1, Powers
  <2> HIDE DEF d, e
  <2>3. r = e * 0 + r /\ r < e /\ 0 \in Int
    BY <1>1, <1>2, <2>2
  <2>4. r \div e = 0
    BY <1>2, <2>2, <2>3, Division
  <2> QED BY <2>4 DEF Bit, e
<1>6. Low(a, n) = r
  BY DEF Low, r
<1> QED BY <1>2, <1>3, <1>4, <1>5, <1>6

LEMMA ShiftRightBits ==
    ASSUME NEW a \in Words, NEW n \in 0 .. XLEN
    PROVE  /\ ShiftRight(a, n) \in Words
           /\ \A j \in Positions :
                Bit(ShiftRight(a, n), j) = IF j + n < XLEN THEN Bit(a, j + n) ELSE 0
<1> DEFINE d == 2 ^ n
           q == a \div d
<1>1. d \in Nat \ {0} /\ XLEN \in Nat /\ a \in Int /\ 0 <= a /\ a < 2 ^ XLEN
  BY Powers, WordRange
<1>2. q \in Int /\ 0 <= q /\ q <= a
  <2> DEFINE r == a % d
  <2> HIDE DEF d
  <2>1. q \in Int /\ r \in Int /\ 0 <= r /\ r < d /\ a = d * q + r
    BY <1>1, DivMod
  <2> HIDE DEF q, r
  <2>2. q >= 0
    <3>1. q <= -1 => d * q <= -d
      BY <1>1, <2>1
    <3> QED BY <1>1, <2>1, <3>1
  <2>3. q <= d * q
    BY <1>1, <2>1, <2>2
  <2>4. d * q \in Int
    BY <1>1, <2>1
  <2> QED BY <1>1, <2>1, <2>2, <2>3, <2>4
<1>3. q \in Words
  <2> HIDE DEF q
  <2> QED BY <1>1, <1>2, Powers DEF Words
<1>4. ASSUME NEW j \in Positions, j + n < XLEN
      PROVE  Bit(q, j) = Bit(a, j + n)
  <2>1. n \in 0 .. j + n /\ j + n \in 0 .. XLEN /\ (j + n) - n = j /\ j \in 0 .. XLEN
    BY <1>1, <1>4 DEF Positions
  <2> DEFINE e == 2 ^ j
  <2>2. 2 ^ (j + n) = d * e /\ e \in Nat \ {0}
    BY <2>1, Powers
  <2> HIDE DEF d, e
  <2>3. a \div (d * e) = q \div e
    BY <1>1, <2>2, DividedTwice
  <2> QED BY <2>2, <2>3 DEF Bit, e
<1>5. ASSUME NEW j \in Positions, ~(j + n < XLEN)
      PROVE  Bit(q, j) = 0
  <2>1. XLEN - n \in 0 .. j /\ j \in 0 .. XLEN /\ XLEN - n \in 0 .. XLEN /\ n \in 0 .. XLEN
    BY <1>1, <1>5 DEF Positions
  <2> DEFINE e == 2 ^ j
             f == 2 ^ (XLEN - n)
  <2>2. e \in Nat \ {0} /\ f \in Nat /\ f <= e /\ 2 ^ XLEN = d * f
    <3>1. XLEN \in 0 .. XLEN
      BY <1>1
    <3> QED BY <2>1, <3>1, Powers
  <2>3. q < e
    <3> DEFINE r == a % d
    <3> HIDE DEF d, e, f
    <3>1. r \in Int /\ 0 <= r /\ r < d /\ a = d * q + r
      BY <1>1, DivMod
    <3> HIDE DEF q, r
    <3>2. q >= f => d * q >= d * f
      BY <1>1, <1>2, <2>2
    <3>3. d * q \in Int /\ d * f \in Int
      BY <1>1, <1>2, <2>2
    <3> QED BY <1>1, <1>2, <2>2, <3>1, <3>2, <3>3
  <2> HIDE DEF q, e
  <2>4. q = e * 0 + q /\ 0 \in Int
    BY <1>2, <2>2
  <2>5. q \div e = 0
    BY <1>2, <2>2, <2>3, <2>4, Division
  <2> QED BY <2>5 DEF Bit, e
<1>6. ShiftRight(a, n) = q
  BY DEF ShiftRight
<1> HIDE DEF q
<1> QED BY <1>3, <1>4, <1>5, <1>6

LEMMA ShiftLeftBits ==
    ASSUME NEW a \in Words, NEW n \in 0 .. XLEN
    PROVE  /\ ShiftLeft(a, n) \in Words
           /\ \A j \in Positions :
                Bit(ShiftLeft(a, n), j) = IF j >= n THEN Bit(a, j - n) ELSE 0
<1> DEFINE d == 2 ^ n
           f == 2 ^ (XLEN - n)
           low == Low(a, XLEN - n)
<1>1. /\ XLEN \in Nat /\ XLEN - n \in 0 .. XLEN /\ a \in Nat
  BY Powers, WordRange
<1>2. d \in Nat \ {0} /\ f \in Nat \ {0} /\ 2 ^ XLEN = d * f /\ 2 ^ XLEN \in Nat
  <2>1. XLEN \in 0 .. XLEN
    BY <1>1
  <2> QED BY <1>1, <2>1, Powers
<1>3. /\ low \in Words /\ low < f
      /\ \A j \in Positions : Bit(low, j) = IF j < XLEN - n THEN Bit(a, j) ELSE 0
  BY <1>1, LowBits
<1>4. low \in Nat
  BY <1>3, WordRange
<1> HIDE DEF low
<1>5. low * d \in Words
  <2> HIDE DEF d, f
  <2>1. low * d + d <= d * f
    BY <1>2, <1>3, <1>4
  <2>2. low * d \in Int /\ 0 <= low * d
    BY <1>2, <1>4
  <2> QED BY <1>2, <2>1, <2>2 DEF Words
<1>6. ASSUME NEW j \in Positions, j >= n PROVE Bit(low * d, j) = Bit(a, j - n)
  <2>1. n \in 0 .. j /\ j \in 0 .. XLEN /\ j - n \in 0 .. XLEN /\ j - n \in Positions
        /\ j - n < XLEN - n
    BY <1>1, <1>6 DEF Positions
  <2> DEFINE e == 2 ^ (j - n)
  <2>2. 2 ^ j = d * e /\ e \in Nat \ {0}
    BY <2>1, Powers
  <2> HIDE DEF d, e
  <2>3. (low * d) \div (d * e) = ((low * d) \div d) \div e
    <3> DEFINE product == low * d
    <3>1. product \in Int
      BY <1>2, <1>4
    <3> HIDE DEF product
    <3>2. product \div (d * e) = (product \div d) \div e
      BY <1>2, <2>2, <3>1, DividedTwice
    <3> QED BY <3>2 DEF product
  <2>4. (low * d) \div d = low
    <3>1. low * d = d * low + 0 /\ low \in Int /\ 0 \in Int /\ 0 < d /\ low * d \in Int
      BY <1>2, <1>4
    <3> QED BY <1>2, <3>1, Division
  <2>5. Bit(low * d, j) = Bit(low, j - n)
    BY <2>2, <2>3, <2>4 DEF Bit, e
  <2> QED BY <1>3, <2>1, <2>5
<1>7. ASSUME NEW j \in Positions, ~(j >= n) PROVE Bit(low * d, j) = 0
  <2>1. j \in 0 .. n - 1 /\ j \in 0 .. XLEN
    BY <1>1, <1>7 DEF Positions
  <2>2. Bit(0 + 2 ^ n * low, j) = Bit(0, j)
    <3>1. 0 \in Int /\ low \in Int /\ n \in 0 .. XLEN
      BY <1>4
    <3> QED BY <2>1, <3>1, HigherAdded
  <2>3. Bit(0, j) = 0
    BY ZeroBits
  <2>4. low * d = 0 + 2 ^ n * low
    BY <1>2, <1>4
  <2> QED BY <2>2, <2>3, <2>4
<1>8. ShiftLeft(a, n) = low * d
  BY DEF ShiftLeft, low
<1> HIDE DEF d
<1> QED BY <1>5, <1>6, <1>7, <1>8

LEMMA NotBits ==
    ASSUME NEW a \in Words
    PROVE  /\ Not(a) \in Words
           /\ \A j \in Positions : Bit(Not(a), j) = 1 - Bit(a, j)
<1>1. XLEN \in Nat /\ a \in Int /\ 0 <= a /\ a < 2 ^ XLEN /\ 2 ^ XLEN \in Nat
  BY Powers, WordRange
<1>2. Not(a) \in Words
  BY <1>1 DEF Not, Words
<1>3. ASSUME NEW j \in Positions PROVE Bit(Not(a), j) = 1 - Bit(a, j)
  <2> DEFINE d == 2 ^ j
             e == 2 ^ (XLEN - j - 1)
             q == a \div d
             r == a % d
  <2>1. /\ j + 1 \in 0 .. XLEN /\ j + 1 \in 1 .. XLEN /\ (j + 1) - 1 = j /\ j \in 0 .. XLEN
        /\ XLEN - (j + 1) = XLEN - j - 1 /\ XLEN - j - 1 \in 0 .. XLEN /\ XLEN \in 0 .. XLEN
    BY <1>1 DEF Positions
  <2>2. d \in Nat \ {0} /\ e \in Nat \ {0} /\ 2 ^ XLEN = (2 * d) * e
    BY <2>1, Powers
  <2> HIDE DEF d, e
  <2>3. q \in Int /\ r \in Int /\ 0 <= r /\ r < d /\ a = d * q + r
    BY <1>1, <2>2, DivMod
  <2> HIDE DEF q, r
  <2> DEFINE p == 2 * e - 1 - q
             s == d - 1 - r
  <2>4. p \in Int /\ s \in Int /\ 0 <= s /\ s < d /\ Not(a) = d * p + s /\ Not(a) \in Int
    BY <1>1, <2>2, <2>3 DEF Not
  <2> HIDE DEF s
  <2>5. Not(a) \div d = p
    <3> HIDE DEF p
    <3> QED BY <2>2, <2>4, Division
  <2>6. (2 * e - 1 - q) % 2 = 1 - (q % 2)
    BY <2>2, <2>3
  <2> QED BY <2>5, <2>6 DEF Bit, d, q, p
<1> QED BY <1>2, <1>3

\* The highest bit is the sign.
LEMMA HighestBit ==
    ASSUME NEW a \in Words
    PROVE  /\ XLEN - 1 \in Positions /\ 2 ^ (XLEN - 1) \in Nat /\ 2 ^ XLEN = 2 * 2 ^ (XLEN - 1)
           /\ Bit(a, XLEN - 1) = IF a >= 2 ^ (XLEN - 1) THEN 1 ELSE 0
           /\ Signed(a) = IF a >= 2 ^ (XLEN - 1) THEN a - 2 ^ XLEN ELSE a
<1> DEFINE d == 2 ^ (XLEN - 1)
<1>1. XLEN - 1 \in Positions /\ d \in Nat \ {0} /\ 2 ^ XLEN = 2 * d
  <2>1. XLEN \in 1 .. XLEN /\ XLEN - 1 \in 0 .. XLEN
    BY Powers
  <2> QED BY <2>1, Powers DEF Positions
<1>2. a \in Int /\ 0 <= a /\ a < 2 ^ XLEN
  BY WordRange
<1> HIDE DEF d
<1>3. CASE a >= d
  <2>1. a = d * 1 + (a - d) /\ a - d \in Int /\ 0 <= a - d /\ a - d < d /\ 1 \in Int
    BY <1>1, <1>2, <1>3
  <2>2. a \div d = 1
    BY <1>1, <1>2, <2>1, Division
  <2> QED BY <1>1, <1>3, <2>2 DEF Bit, Signed, d
<1>4. CASE ~(a >= d)
  <2>1. a = d * 0 + a /\ a < d /\ 0 \in Int
    BY <1>1, <1>2, <1>4
  <2>2. a \div d = 0
    BY <1>1, <1>2, <2>1, Division
  <2> QED BY <1>1, <1>4, <2>2 DEF Bit, Signed, d
<1> QED BY <1>3, <1>4

LEMMA LogicBits ==
    ASSUME NEW a, NEW b
    PROVE  /\ And(a, b) \in Words /\ Or(a, b) \in Words /\ Xor(a, b) \in Words
           /\ \A j \in Positions :
                /\ Bit(And(a, b), j) = IF Bit(a, j) = 1 /\ Bit(b, j) = 1 THEN 1 ELSE 0
                /\ Bit(Or(a, b), j) = IF Bit(a, j) = 1 \/ Bit(b, j) = 1 THEN 1 ELSE 0
BY OnesOfWord DEF And, Or, Xor, Ones

LEMMA ReversedBits ==
    ASSUME NEW a
    PROVE  /\ Reversed(a) \in Words
           /\ \A j \in Positions :
                Bit(Reversed(a), j) = IF Bit(a, XLEN - 1 - j) = 1 THEN 1 ELSE 0
<1>1. XLEN \in Nat
  BY Powers
<1>2. ASSUME NEW j \in Positions
      PROVE  /\ XLEN - 1 - j \in Positions
             /\ j \in {XLEN - 1 - k : k \in Ones(a)} <=> Bit(a, XLEN - 1 - j) = 1
  BY <1>1 DEF Positions, Ones
<1>3. /\ Reversed(a) \in Words
      /\ \A j \in Positions :
           Bit(Reversed(a), j) = IF j \in {XLEN - 1 - k : k \in Ones(a)} THEN 1 ELSE 0
  BY OnesOfWord DEF Reversed
<1> QED BY <1>2, <1>3

\* What is put above the low k bits of a word.
LEMMA JoinedBits ==
    ASSUME NEW k \in 0 .. XLEN, NEW a \in Nat, a < 2 ^ k, NEW c \in Nat, c < 2 ^ (XLEN - k)
    PROVE  /\ a + 2 ^ k * c \in Words
           /\ \A j \in Positions :
                Bit(a + 2 ^ k * c, j) = IF j < k THEN Bit(a, j) ELSE Bit(c, j - k)
<1> DEFINE P == 2 ^ k
           Q == 2 ^ (XLEN - k)
           x == a + P * c
<1>1. /\ XLEN \in Nat /\ XLEN - k \in 0 .. XLEN /\ Positions = 0 .. XLEN - 1
      /\ P \in Nat \ {0} /\ Q \in Nat \ {0} /\ 2 ^ XLEN = P * Q
  BY Powers DEF Positions
<1>2. a < P /\ c < Q
  OBVIOUS
<1>3. x \in Words
  <2> HIDE DEF P, Q
  <2>1. Q - 1 - c \in Nat /\ P * (Q - 1 - c) \in Nat /\ P * c \in Nat
        /\ P * Q = P * c + P + P * (Q - 1 - c)
    BY <1>1, <1>2
  <2>2. x \in Nat /\ x < 2 ^ XLEN
    BY <1>1, <1>2, <2>1
  <2> QED BY <1>1, <2>1, <2>2 DEF Words
<1>4. ASSUME NEW j \in Positions, j < k
      PROVE  Bit(x, j) = Bit(a, j)
  <2>1. j \in 0 .. k - 1 /\ a \in Int /\ c \in Int
    BY <1>1, <1>4
  <2> QED BY <2>1, HigherAdded
<1>5. ASSUME NEW j \in Positions, ~(j < k)
      PROVE  Bit(x, j) = Bit(c, j - k)
  <2> DEFINE e == 2 ^ (j - k)
  <2>1. /\ j - k \in 0 .. XLEN /\ k \in 0 .. j /\ j \in 0 .. XLEN
        /\ e \in Nat \ {0} /\ 2 ^ j = P * e
    BY <1>1, <1>5, Powers
  <2> HIDE DEF P, e
  <2>2. x \in Int /\ a \in Int /\ c \in Int /\ 0 <= a /\ x = P * c + a
    BY <1>1
  <2> HIDE DEF x
  <2>3. x \div P = c
    BY <1>1, <1>2, <2>2, Division
  <2>4. x \div (P * e) = (x \div P) \div e
    BY <1>1, <2>1, <2>2, DividedTwice
  <2>5. x \div 2 ^ j = c \div e
    BY <2>1, <2>3, <2>4
  <2> QED BY <2>5 DEF Bit, e
<1> QED BY <1>3, <1>4, <1>5

\* A word rotated to the right.
LEMMA RotatedBits ==
    ASSUME NEW a \in Words, NEW n \in 0 .. XLEN
    PROVE  LET rotated == ShiftRight(a, n) + Low(a, n) * 2 ^ (XLEN - n)
           IN  /\ rotated \in Words
               /\ \A j \in Positions :
                    Bit(rotated, j) = IF j + n < XLEN THEN Bit(a, j + n) ELSE Bit(a, j + n - XLEN)
<1> DEFINE k == XLEN - n
           q == ShiftRight(a, n)
           r == Low(a, n)
           P == 2 ^ k
           D == 2 ^ n
<1>1. /\ XLEN \in Nat /\ k \in 0 .. XLEN /\ XLEN - k = n /\ Positions = 0 .. XLEN - 1
      /\ P \in Nat \ {0} /\ D \in Nat \ {0} /\ 2 ^ XLEN = D * P
  BY Powers DEF Positions
<1>2. a \in Int /\ a \in Nat /\ 0 <= a /\ a < D * P
  BY <1>1, WordRange
<1>3. q \in Words /\ \A j \in Positions : Bit(q, j) = IF j + n < XLEN THEN Bit(a, j + n) ELSE 0
  BY ShiftRightBits
<1>4. r \in Words /\ r < D /\ \A j \in Positions : Bit(r, j) = IF j < n THEN Bit(a, j) ELSE 0
  BY <1>2, LowBits
<1>5. q \in Nat /\ q < P
  <2>1. q \in Nat
    BY <1>3, WordRange
  <2>2. a = D * q + (a % D) /\ a % D \in Int /\ 0 <= a % D
    BY <1>1, <1>2, DivMod DEF ShiftRight
  <2> DEFINE s == a % D
  <2>3. a = D * q + s /\ s \in Int /\ 0 <= s
    BY <2>2
  <2> HIDE DEF q, s, P, D
  <2>4. ~(q >= P)
    <3> SUFFICES ASSUME q >= P PROVE FALSE
      OBVIOUS
    <3>1. q - P \in Nat /\ D * (q - P) \in Nat /\ D * q = D * P + D * (q - P) /\ D * P \in Nat
      BY <1>1, <2>1
    <3> QED BY <1>2, <2>3, <3>1
  <2> QED BY <1>1, <2>1, <2>4
<1>6. r \in Nat /\ r < 2 ^ (XLEN - k)
  <2>1. r \in Nat
    BY <1>4, WordRange
  <2> QED BY <1>1, <1>4, <2>1
<1> HIDE DEF q, r, P, k
<1>7. /\ q + 2 ^ k * r \in Words
      /\ \A j \in Positions :
           Bit(q + 2 ^ k * r, j) = IF j < k THEN Bit(q, j) ELSE Bit(r, j - k)
  <2>1. q < 2 ^ k
    BY <1>5 DEF P
  <2> QED BY <1>1, <1>5, <1>6, <2>1, JoinedBits
<1>8. q + r * 2 ^ k = q + 2 ^ k * r
  BY <1>1, <1>5, <1>6 DEF P
<1>9. ASSUME NEW j \in Positions
      PROVE  Bit(q + 2 ^ k * r, j) = IF j + n < XLEN THEN Bit(a, j + n) ELSE Bit(a, j + n - XLEN)
  <2>1. CASE j + n < XLEN
    <3>1. j < k
      BY <1>1, <2>1 DEF k
    <3> QED BY <1>3, <1>7, <2>1, <3>1
  <2>2. CASE ~(j + n < XLEN)
    <3>1. ~(j < k) /\ j - k \in Positions /\ j - k < n /\ j - k = j + n - XLEN
      BY <1>1, <2>2 DEF k
    <3> QED BY <1>4, <1>7, <2>2, <3>1
  <2> QED BY <2>1, <2>2
<1> QED BY <1>7, <1>8, <1>9 DEF q, r, k

\* The places of a word can be counted in a word.
LEMMA PlacesAreWords == \A n \in 0 .. XLEN : n < 2 ^ n /\ n \in Words
<1> DEFINE S == {n \in 0 .. XLEN : n < 2 ^ n}
<1>1. XLEN \in Nat /\ 0 \in S
  BY Powers
<1>2. ASSUME NEW n \in 1 .. XLEN, n - 1 \in S PROVE n \in S
  <2>1. 2 ^ n = 2 * 2 ^ (n - 1) /\ 2 ^ (n - 1) \in Nat /\ n - 1 < 2 ^ (n - 1)
    BY <1>1, <1>2, Powers
  <2> QED BY <1>1, <2>1
<1> HIDE DEF S
<1>3. \A n \in 0 .. XLEN : n \in S
  BY <1>1, <1>2, Induction
<1>4. ASSUME NEW n \in 0 .. XLEN PROVE n < 2 ^ n /\ n \in Words
  <2>1. n < 2 ^ n
    BY <1>3 DEF S
  <2>2. n \in 0 .. XLEN /\ XLEN \in 0 .. XLEN /\ 2 ^ n <= 2 ^ XLEN /\ 2 ^ n \in Nat /\ 2 ^ XLEN \in Nat
    BY <1>1, Powers
  <2> QED BY <1>1, <2>1, <2>2 DEF Words
<1> QED BY <1>4

\* The low bits are all 0 if their number is.
LEMMA LowZero ==
    ASSUME NEW a \in Words
    PROVE  \A n \in 0 .. XLEN : a % 2 ^ n = 0 <=> \A j \in 0 .. n - 1 : Bit(a, j) = 0
<1> DEFINE S == {n \in 0 .. XLEN : a % 2 ^ n = 0 <=> \A j \in 0 .. n - 1 : Bit(a, j) = 0}
<1>1. XLEN \in Nat /\ Positions = 0 .. XLEN - 1 /\ a \in Int
  BY Powers, WordRange DEF Positions
<1>2. 0 \in S
  <2>1. 2 ^ 0 = 1 /\ 0 .. (0 - 1) = {} /\ a % 1 = 0
    BY <1>1
  <2> QED BY <1>1, <2>1
<1>3. ASSUME NEW n \in 1 .. XLEN, n - 1 \in S PROVE n \in S
  <2> DEFINE m == n - 1
             d == 2 ^ m
             b == Bit(a, m)
             low == a % d
  <2>1. /\ m \in Positions /\ m \in 0 .. XLEN /\ m + 1 = n /\ d \in Nat \ {0}
        /\ 0 .. n - 1 = (0 .. m - 1) \union {m}
    BY <1>1, Powers
  <2>2. a % 2 ^ n = low + d * b
    BY <1>1, <2>1, OneMoreBit
  <2>3. b \in {0, 1}
    BY <1>1, <2>1, BitRange
  <2>4. low \in Int /\ 0 <= low
    BY <1>1, <2>1, DivMod
  <2>5. low = 0 <=> \A j \in 0 .. m - 1 : Bit(a, j) = 0
    BY <1>3
  <2>6. (\A j \in 0 .. n - 1 : Bit(a, j) = 0) <=> (\A j \in 0 .. m - 1 : Bit(a, j) = 0) /\ b = 0
    BY <2>1
  <2> HIDE DEF low, b, d, m
  <2>7. a % 2 ^ n = 0 <=> low = 0 /\ b = 0
    BY <2>1, <2>2, <2>3, <2>4
  <2>8. n \in 0 .. XLEN
    BY <1>1
  <2> QED BY <2>5, <2>6, <2>7, <2>8
<1> HIDE DEF S
<1>4. \A n \in 0 .. XLEN : n \in S
  BY <1>1, <1>2, <1>3, Induction
<1> QED BY <1>4 DEF S

-----------------------------------------------------------------------------
(* Records.                                                                *)

\* The shapes of the records that a step updates.
BitmanipFields ==
    {"state", "valid", "start", "cmd", "less", "rs1", "rs2", "sha", "result"}
BitshiftFields == {"sreg", "cnt", "cnt_max", "bcnt"}
FpuFields == {"busy", "valid", "op", "equal", "less", "a", "b", "result"}
Shapes ==
    /\ program \in [fast : BOOLEAN, mie : BOOLEAN, code : Seq(Entries)]
    /\ {"busy", "result"} \subseteq DOMAIN shifter
    /\ BitmanipFields \subseteq DOMAIN bitmanip
    /\ BitshiftFields \subseteq DOMAIN bitshift
    /\ FpuFields \subseteq DOMAIN fpu

LEMMA ShapesInit == Init => Shapes
<1> SUFFICES ASSUME Init PROVE Shapes
  OBVIOUS
<1>1. program \in [fast : BOOLEAN, mie : BOOLEAN, code : Seq(Entries)]
  BY ProgramsAssumption DEF Init
<1>2. {"busy", "result"} \subseteq DOMAIN shifter
  BY DEF Init, ShifterInit
<1>3. BitmanipFields \subseteq DOMAIN bitmanip
  BY DEF Init, BitmanipInit, BitmanipFields
<1>4. BitshiftFields \subseteq DOMAIN bitshift
  BY DEF Init, BitmanipInit, BitshiftFields
<1>5. FpuFields \subseteq DOMAIN fpu
  BY DEF Init, FpuInit, FpuFields
<1> QED BY <1>1, <1>2, <1>3, <1>4, <1>5 DEF Shapes

LEMMA ProgramStep ==
    ASSUME Shapes, ExecuteEngine
    PROVE  /\ program' \in [fast : BOOLEAN, mie : BOOLEAN, code : Seq(Entries)]
           /\ program'.fast = program.fast
<1>1. CASE UNCHANGED program
  BY <1>1 DEF Shapes
<1>2. CASE Dispatch
  <2>1. Tail(program.code) \in Seq(Entries)
    BY <1>2 DEF Shapes, Dispatch
  <2> QED BY <1>2, <2>1 DEF Shapes, Dispatch
<1>3. CASE TRAP_ENTER
  BY <1>3 DEF Shapes, TRAP_ENTER
<1> QED BY <1>1, <1>2, <1>3 DEF ExecuteEngine, SYS_WAIT, DispatchWaits, DispatchTraps, TRAP_EXECUTE, EXECUTE, ALU_WAIT

-----------------------------------------------------------------------------
(* The contracts of the co-processors: they hold in every step.            *)

LEMMA ShifterRecord ==
    ASSUME Shapes, Clock
    PROVE  /\ {"busy", "result"} \subseteq DOMAIN shifter'
           /\ program.fast => /\ shifter'.busy = shifter.busy
                              /\ ~Start("shifter") => shifter'.result = 0
           /\ ~program.fast =>
                /\ shifter'.busy <=> Start("shifter") \/ (shifter.busy /\ ~ShifterDone)
                /\ shifter'.busy_ff = shifter.busy
<1>1. ShifterClock(program.fast, Start("shifter"), rs.rs1, ShiftAmount,
                   Bits(instr.funct3, 2, 2) = 1, Bits(instr.funct7, 5, 5) = 1)
  BY DEF Clock, CoProcessorsClock
<1>2. CASE program.fast
  <2>1. shifter' = [shifter EXCEPT !.result =
                      IF Start("shifter")
                      THEN Shifted(rs.rs1, ShiftAmount, Bits(instr.funct3, 2, 2) = 1,
                                   Bits(instr.funct7, 5, 5) = 1)
                      ELSE 0]
    BY <1>1, <1>2 DEF ShifterClock, BarrelShifterClock
  <2> QED BY <1>2, <2>1 DEF Shapes
<1>3. CASE ~program.fast
  <2>1. SerialShifterClock(Start("shifter"), rs.rs1, ShiftAmount,
                           Bits(instr.funct3, 2, 2) = 1, Bits(instr.funct7, 5, 5) = 1)
    BY <1>1, <1>3 DEF ShifterClock
  <2>2. PICK sreg, cnt :
          shifter' = [busy    |-> Start("shifter") \/ (shifter.busy /\ ~ShifterDone),
                      busy_ff |-> shifter.busy, sreg |-> sreg, cnt |-> cnt, result |-> 0]
    BY <2>1, Zenon DEF SerialShifterClock
  <2>3. /\ shifter'.busy = (Start("shifter") \/ (shifter.busy /\ ~ShifterDone))
        /\ shifter'.busy_ff = shifter.busy
    BY <2>2, Zenon
  <2>4. {"busy", "result"} \subseteq DOMAIN shifter'
    BY <2>2
  <2> QED BY <1>3, <2>3, <2>4, Zenon
<1> QED BY <1>2, <1>3

LEMMA ShifterStep ==
    ASSUME Shapes, Clock
    PROVE  Shifter!Next
<1>1. program'.fast = program.fast
  BY ProgramStep DEF Clock
<1>2. /\ Valid("shifter") <=> IF program.fast THEN Start("shifter") ELSE shifter.busy /\ ShifterDone
      /\ Valid("shifter")' <=> IF program'.fast THEN Start("shifter")'
                               ELSE shifter'.busy /\ ShifterDone'
  BY DEF Valid, ShifterValid
<1>3. Result("shifter")' # 0 => Valid("shifter")
  <2>1. CASE program.fast
    <3>1. Result("shifter")' = shifter'.result
      BY <1>1, <2>1 DEF Result, ShifterResult
    <3> QED BY <1>2, <2>1, <3>1, ShifterRecord
  <2>2. CASE ~program.fast
    <3>1. Result("shifter")' # 0 => ~shifter'.busy /\ shifter'.busy_ff
      BY <1>1, <2>2 DEF Result, ShifterResult
    <3> QED BY <1>2, <2>2, <3>1, ShifterRecord
  <2> QED BY <2>1, <2>2
<1> QED BY <1>1, <1>2, <1>3, ShifterRecord DEF Shifter!Next

\* The bit manipulation unit is valid only when its controller is idle again,
\* the FPU only when it is not busy.
BitmanipInvariant ==
    /\ bitmanip.state \in {"S_IDLE", "S_START_SHIFT", "S_BUSY_SHIFT"}
    /\ bitmanip.valid => bitmanip.state = "S_IDLE"
FpuInvariant == fpu.valid => ~fpu.busy

LEMMA BitmanipRecord ==
    ASSUME Shapes, BitmanipInvariant, Clock
    PROVE  /\ BitmanipFields \subseteq DOMAIN bitmanip'
           /\ bitmanip'.result # 0 => bitmanip.valid
           /\ bitmanip.state = "S_IDLE" /\ ~Start("bitmanip") =>
                bitmanip'.state = "S_IDLE" /\ ~bitmanip'.valid
           /\ bitmanip.state = "S_IDLE" /\ Start("bitmanip") =>
                \/ bitmanip'.state = "S_IDLE" /\ bitmanip'.valid
                \/ bitmanip'.state \in {"S_START_SHIFT", "S_BUSY_SHIFT"} /\ ~bitmanip'.valid
           /\ bitmanip.state = "S_START_SHIFT" =>
                bitmanip'.state = "S_BUSY_SHIFT" /\ bitmanip'.valid = bitmanip.valid
           /\ bitmanip.state = "S_BUSY_SHIFT" =>
                \/ bitmanip'.state = "S_BUSY_SHIFT" /\ bitmanip'.valid = bitmanip.valid
                \/ bitmanip'.state = "S_IDLE" /\ bitmanip'.valid
<1> DEFINE less == LessThan(rs.rs1, rs.rs2)
           control == BitmanipControl(program.fast, Start("bitmanip"), instr, less,
                                      rs.rs1, rs.rs2, ShiftAmount)
           idle == BitmanipIdle(program.fast, Start("bitmanip"), instr, less,
                                rs.rs1, rs.rs2, ShiftAmount)
<1>1. bitmanip' = [control EXCEPT !.result = IF bitmanip.valid THEN SelectedResult(instr) ELSE 0]
  BY DEF Clock, CoProcessorsClock, BitmanipClock
<1>2. /\ BitmanipFields \subseteq DOMAIN control
      /\ bitmanip'.state = control.state /\ bitmanip'.valid = control.valid
      /\ BitmanipFields \subseteq DOMAIN bitmanip'
      /\ bitmanip'.result # 0 => bitmanip.valid
  <2>1. BitmanipFields \subseteq DOMAIN control
    BY DEF Shapes, BitmanipInvariant, BitmanipControl, BitmanipIdle
  <2> QED BY <1>1, <2>1
<1>3. ASSUME bitmanip.state = "S_IDLE"
      PROVE  /\ ~Start("bitmanip") => control.state = "S_IDLE" /\ ~control.valid
             /\ Start("bitmanip") =>
                  \/ control.state = "S_IDLE" /\ control.valid
                  \/ control.state \in {"S_START_SHIFT", "S_BUSY_SHIFT"} /\ ~control.valid
  BY <1>3 DEF Shapes, BitmanipFields, BitmanipControl, BitmanipIdle
<1>4. ASSUME bitmanip.state = "S_START_SHIFT"
      PROVE  control.state = "S_BUSY_SHIFT" /\ control.valid = bitmanip.valid
  BY <1>4 DEF Shapes, BitmanipFields, BitmanipControl
<1>5. ASSUME bitmanip.state = "S_BUSY_SHIFT"
      PROVE  \/ control.state = "S_BUSY_SHIFT" /\ control.valid = bitmanip.valid
             \/ control.state = "S_IDLE" /\ control.valid
  BY <1>5 DEF Shapes, BitmanipFields, BitmanipControl
<1> HIDE DEF control
<1> QED BY <1>2, <1>3, <1>4, <1>5 DEF BitmanipInvariant

LEMMA BitmanipStep ==
    ASSUME Shapes, BitmanipInvariant, Clock
    PROVE  BitmanipInvariant' /\ Bitmanip!Next
<1>1. BitmanipInvariant'
  BY BitmanipRecord DEF BitmanipInvariant
<1>2. /\ Valid("bitmanip") = bitmanip.valid
      /\ Valid("bitmanip")' = bitmanip'.valid
      /\ Result("bitmanip")' = bitmanip'.result
  BY DEF Valid, Result
<1> QED BY <1>1, <1>2, BitmanipRecord DEF Bitmanip!Next, BitmanipInvariant

LEMMA BitshiftRecord ==
    ASSUME Shapes, Clock
    PROVE  /\ BitshiftFields \subseteq DOMAIN bitshift'
           /\ program.fast =>
                /\ bitshift'.bcnt = Cardinality(Ones(bitmanip.rs1))
                /\ bitshift'.cnt = IF "clz" \in bitmanip.cmd THEN LeadingZeros(bitmanip.rs1)
                                   ELSE TrailingZeros(bitmanip.rs1)
                /\ bitshift'.sreg = IF "rol" \in bitmanip.cmd
                                    THEN RotatedRight(Reversed(bitmanip.rs1), bitmanip.sha)
                                    ELSE RotatedRight(bitmanip.rs1, bitmanip.sha)
           /\ ~program.fast => bitshift' = SerialBitshift(program.fast)
<1>1. bitshift' = IF program.fast THEN FastBitshift ELSE SerialBitshift(program.fast)
  BY DEF Clock, CoProcessorsClock, BitmanipClock
<1>2. CASE program.fast
  BY <1>1, <1>2 DEF FastBitshift, Shapes, BitshiftFields
<1>3. CASE ~program.fast
  <2>1. BitshiftFields \subseteq DOMAIN SerialBitshift(program.fast)
    BY DEF SerialBitshift, Shapes, BitshiftFields
  <2> QED BY <1>1, <1>3, <2>1
<1> QED BY <1>2, <1>3

LEMMA FpuRecord ==
    ASSUME Shapes, Clock
    PROVE  /\ FpuFields \subseteq DOMAIN fpu'
           /\ fpu'.result # 0 => fpu.valid
           /\ ~fpu.busy => /\ ~fpu'.valid
                           /\ fpu'.busy <=> fpu.busy \/ Start("fpu")
           /\ fpu.busy => (fpu'.busy <=> ~fpu'.valid)
<1> DEFINE control == ControlEngine(Start("fpu"), instr, rs.rs1 = rs.rs2,
                                    LessThan(rs.rs1, rs.rs2), rs.rs1, rs.rs2)
<1>1. \E neg, abs, sub, flags :
        fpu' = [control EXCEPT !.result = OutputGate(instr), !.flags = flags, !.neg = neg,
                               !.abs = abs, !.sub = sub]
  BY DEF Clock, CoProcessorsClock, FpuClock
<1>2. FpuFields \subseteq DOMAIN control
  BY DEF Shapes, ControlEngine
<1>3. ASSUME ~fpu.busy
      PROVE  ~control.valid /\ (control.busy <=> fpu.busy \/ Start("fpu"))
  BY <1>3 DEF Shapes, FpuFields, ControlEngine
<1>4. ASSUME fpu.busy
      PROVE  control.busy <=> ~control.valid
  BY <1>4 DEF Shapes, FpuFields, ControlEngine
<1> HIDE DEF control
<1> QED BY <1>1, <1>2, <1>3, <1>4 DEF OutputGate

LEMMA FpuStep ==
    ASSUME Shapes, FpuInvariant, Clock
    PROVE  FpuInvariant' /\ Fpu!Next
<1>1. FpuInvariant'
  BY FpuRecord DEF FpuInvariant
<1>2. /\ Valid("fpu") = fpu.valid
      /\ Valid("fpu")' = fpu'.valid
      /\ Result("fpu")' = fpu'.result
  BY DEF Valid, Result
<1> QED BY <1>1, <1>2, FpuRecord DEF Fpu!Next, FpuInvariant

-----------------------------------------------------------------------------
(* The control unit waits for what it has started.                         *)

\* Until a trapped instruction leaves a co-processor running: a command is new
\* only in the first period of ALU_WAIT, only in that period an exception may
\* be pending, and only the co-processor of the instruction that waits is at
\* work, from the period after it.
Working(cp) ==
    CASE cp = "shifter"  -> shifter.busy
      [] cp = "bitmanip" -> bitmanip.state # "S_IDLE" \/ bitmanip.valid
      [] cp = "fpu"      -> fpu.busy \/ fpu.valid

Awaited ==
    /\ ctrl.copro /\ ~cmd_ff => state = "ALU_WAIT" /\ ctrl.cp = CoProcessorOf(instr)
    /\ state = "ALU_WAIT" => ctrl.copro /\ CoProcessorOf(instr) \in CoProcessors
    /\ state = "ALU_WAIT" /\ cmd_ff => ~exc
    /\ state = "EXECUTE" => ~ctrl.copro
    /\ shifter.busy => ~program.fast
    /\ \A cp \in {"shifter", "bitmanip", "fpu"} :
          Working(cp) => state = "ALU_WAIT" /\ cmd_ff /\ CoProcessorOf(instr) = cp

IInv == Shapes /\ BitmanipInvariant /\ FpuInvariant /\ (abandoned \/ Awaited)

\* The exception of an illegal instruction is there until its result is written.
Masked ==
    /\ state = "EXECUTE" => ~exc /\ ~env
    /\ ctrl.wb => state = "DISPATCH"
    /\ ~program.mie /\ state = "ALU_WAIT" /\ ~IsLegal(instr) => exc /\ ~env
    /\ ~program.mie /\ ctrl.wb /\ ~IsLegal(instr) => exc

-----------------------------------------------------------------------------
(* The invariants are inductive.                                           *)

\* What works after a step worked before it or was started in it, and what has
\* answered works no more.
LEMMA OnlyStartedWork ==
    ASSUME Shapes, BitmanipInvariant, FpuInvariant, Clock,
           NEW cp \in {"shifter", "bitmanip", "fpu"}
    PROVE  /\ Working(cp)' => Working(cp) \/ Start(cp)
           /\ Working(cp) /\ Valid(cp) /\ ~Start(cp) /\ (cp = "shifter" => ~program.fast)
                => ~Working(cp)'
<1>1. CASE cp = "shifter"
  <2>1. program.fast => (shifter'.busy <=> shifter.busy)
    BY ShifterRecord
  <2>2. ~program.fast => (Valid("shifter") <=> shifter.busy /\ ShifterDone)
    BY DEF Valid, ShifterValid
  <2> QED BY <1>1, <2>1, <2>2, ShifterRecord DEF Working
<1>2. CASE cp = "bitmanip"
  BY <1>2, BitmanipRecord DEF Working, Valid, BitmanipInvariant
<1>3. CASE cp = "fpu"
  BY <1>3, FpuRecord DEF Working, Valid, FpuInvariant
<1> QED BY <1>1, <1>2, <1>3

\* A co-processor that answers is that of the waiting instruction.
LEMMA Answers ==
    ASSUME Awaited, NEW cp \in CoProcessors, Valid(cp)
    PROVE  /\ state = "ALU_WAIT" /\ CoProcessorOf(instr) = cp
           /\ cp \in {"shifter", "bitmanip", "fpu"} /\ ~Start(cp) =>
                Working(cp) /\ (cp = "shifter" => ~program.fast)
<1>1. Start(cp) => state = "ALU_WAIT" /\ CoProcessorOf(instr) = cp
  BY DEF Awaited, Start
<1>2. CASE cp = "shifter"
  <2>1. Valid("shifter") <=> IF program.fast THEN Start("shifter") ELSE shifter.busy /\ ShifterDone
    BY DEF Valid, ShifterValid
  <2>2. shifter.busy => state = "ALU_WAIT" /\ CoProcessorOf(instr) = "shifter"
    BY DEF Awaited, Working
  <2> QED BY <1>1, <1>2, <2>1, <2>2 DEF Working
<1>3. CASE cp = "muldiv"
  BY <1>1, <1>3 DEF Valid
<1>4. CASE cp = "bitmanip"
  BY <1>4 DEF Valid, Working, Awaited
<1>5. CASE cp = "fpu"
  BY <1>5 DEF Valid, Working, Awaited
<1> QED BY <1>2, <1>3, <1>4, <1>5 DEF CoProcessors

\* Nothing works after the answer.
LEMMA RestAfterAnswer ==
    ASSUME Shapes, BitmanipInvariant, FpuInvariant, Awaited, Clock, idone,
           NEW cp \in {"shifter", "bitmanip", "fpu"}
    PROVE  ~Working(cp)'
<1>1. PICK answers \in CoProcessors : Valid(answers)
  BY DEF idone
<1>2. /\ state = "ALU_WAIT" /\ CoProcessorOf(instr) = answers
      /\ ctrl.copro
  BY <1>1, Answers DEF Awaited
<1>3. CASE cp # answers
  <2>1. ~Start(cp) /\ ~Working(cp)
    BY <1>2, <1>3 DEF Start, Awaited
  <2> QED BY <2>1, OnlyStartedWork
<1>4. CASE cp = answers /\ ~Start(cp)
  BY <1>1, <1>4, Answers, OnlyStartedWork
<1>5. CASE cp = answers /\ Start(cp)
  <2>1. ~cmd_ff /\ ~Working(cp)
    BY <1>5 DEF Start, Awaited
  <2>2. cp = "shifter" /\ program.fast
    BY <1>1, <1>5, <2>1 DEF Valid, ShifterValid, Working
  <2>3. shifter'.busy = shifter.busy
    BY <2>2, ShifterRecord
  <2> QED BY <2>1, <2>2, <2>3 DEF Working
<1> QED BY <1>3, <1>4, <1>5

LEMMA AwaitedStep ==
    ASSUME Shapes, BitmanipInvariant, FpuInvariant, Awaited, Clock, ~abandoned'
    PROVE  Awaited'
<1>1. /\ ExecuteEngine /\ TrapController
      /\ cmd_ff' = ctrl.copro
      /\ program'.fast = program.fast
      /\ ~(exc /\ \E cp \in CoProcessors : Start(cp))
  BY ProgramStep DEF Clock, Registers
<1>2. \A cp \in {"shifter", "bitmanip", "fpu"} : Working(cp)' => Working(cp) \/ Start(cp)
  BY OnlyStartedWork
<1>3. shifter'.busy => ~program'.fast
  BY <1>1, ShifterRecord DEF Awaited
<1>4. CASE state # "ALU_WAIT"
  <2>1. \A cp \in {"shifter", "bitmanip", "fpu"} : ~Working(cp)'
    BY <1>2, <1>4 DEF Awaited, Start
  <2>2. CASE EXECUTE
    <3>1. state = "EXECUTE" /\ ~cmd_ff' /\ instr' = instr
      BY <1>1, <2>2 DEF EXECUTE, Awaited, instr
    <3>2. CoProcessorOf(instr)' = CoProcessorOf(instr)
      BY <3>1
    <3>3. CoProcessorOf(instr) \in CoProcessors \union {"none"}
      BY DEF CoProcessorOf, CoProcessors
    <3>4. CASE state' = "ALU_WAIT"
      <4>1. /\ CoProcessorOf(instr) # "none"
            /\ ctrl' = [copro |-> TRUE, cp |-> CoProcessorOf(instr), wb |-> FALSE]
        BY <2>2, <3>4 DEF EXECUTE
      <4> QED BY <1>3, <2>1, <3>1, <3>2, <3>3, <3>4, <4>1 DEF Awaited
    <3>5. CASE state' # "ALU_WAIT"
      <4>1. ~ctrl'.copro /\ state' # "EXECUTE"
        BY <2>2, <3>5 DEF EXECUTE, Off
      <4> QED BY <1>3, <2>1, <3>5, <4>1 DEF Awaited
    <3> QED BY <3>4, <3>5
  <2>3. CASE ~EXECUTE
    <3>1. state' # "ALU_WAIT" /\ ctrl' = Off
      BY <1>1, <1>4, <2>3 DEF ExecuteEngine, SYS_WAIT, DispatchWaits, Dispatch, DispatchTraps,
                              TRAP_ENTER, TRAP_EXECUTE, ALU_WAIT
    <3>2. ~ctrl'.copro
      BY <3>1 DEF Off
    <3> QED BY <1>3, <2>1, <3>1, <3>2 DEF Awaited
  <2> QED BY <2>2, <2>3
<1>5. CASE state = "ALU_WAIT"
  <2>1. /\ ALU_WAIT
        /\ ctrl'.copro /\ cmd_ff' /\ instr' = instr
    BY <1>1, <1>5 DEF ExecuteEngine, SYS_WAIT, DispatchWaits, Dispatch, DispatchTraps, TRAP_ENTER,
                      TRAP_EXECUTE, EXECUTE, ALU_WAIT, Off, Awaited, instr
  <2>2. CoProcessorOf(instr)' = CoProcessorOf(instr)
    BY <2>1
  <2>3. ~exc
    BY <1>1, <1>5, Zenon DEF Awaited, Start
  <2>4. ~exc'
    BY <1>1, <1>5, <2>3 DEF TrapController
  <2>5. CASE idone
    <3>1. state' = "DISPATCH"
      BY <2>1, <2>5 DEF ALU_WAIT
    <3> QED BY <1>3, <2>1, <2>5, <3>1, RestAfterAnswer DEF Awaited
  <2>6. CASE ~idone
    <3>1. state' = "ALU_WAIT"
      BY <2>1, <2>3, <2>6 DEF ALU_WAIT
    <3>2. \A cp \in {"shifter", "bitmanip", "fpu"} :
             Working(cp)' => CoProcessorOf(instr) = cp
      BY <1>2 DEF Awaited, Start
    <3> QED BY <1>3, <1>5, <2>1, <2>2, <2>4, <3>1, <3>2 DEF Awaited
  <2> QED BY <2>5, <2>6
<1> QED BY <1>4, <1>5

LEMMA MaskedStep ==
    ASSUME Shapes, Masked, Clock
    PROVE  Masked'
<1>1. ExecuteEngine /\ TrapController
  BY DEF Clock
<1>2. PICK irq_fire \in BOOLEAN :
        /\ irq_fire => program.mie
        /\ exc' = ((exc \/ (state = "EXECUTE" /\ ~IsLegal(instr))) /\ ~env)
        /\ env' = IF env THEN state # "TRAP_ENTER"
                  ELSE exc \/ (irq_fire /\ state \in {"EXECUTE", "TRAP_ENTER"})
  BY <1>1 DEF TrapController
<1>3. CASE SYS_WAIT \/ DispatchWaits \/ DispatchTraps \/ TRAP_ENTER \/ TRAP_EXECUTE
  BY <1>3 DEF SYS_WAIT, DispatchWaits, DispatchTraps, TRAP_ENTER, TRAP_EXECUTE, Off, Masked
<1>4. CASE Dispatch
  BY <1>2, <1>4 DEF Dispatch, Off, Masked
<1>5. CASE EXECUTE
  <2>1. /\ instr' = instr /\ program' = program
        /\ state = "EXECUTE" /\ state' # "EXECUTE" /\ ~exc /\ ~env
    BY <1>5 DEF EXECUTE, instr, Masked
  <2>2. IsLegal(instr)' = IsLegal(instr)
    BY <2>1
  <2>3. ctrl'.wb => state' = "DISPATCH"
    BY <1>5 DEF EXECUTE, Off
  <2>4. ~IsLegal(instr) => exc'
    BY <1>2, <2>1
  <2>5. ~program.mie => ~env'
    BY <1>2, <2>1
  <2> QED BY <2>1, <2>2, <2>3, <2>4, <2>5 DEF Masked
<1>6. CASE ALU_WAIT
  <2>1. /\ instr' = instr /\ program' = program
        /\ state = "ALU_WAIT" /\ state' # "EXECUTE"
    BY <1>6 DEF ALU_WAIT, instr
  <2>2. IsLegal(instr)' = IsLegal(instr)
    BY <2>1
  <2>3. ctrl'.wb => state' = "DISPATCH"
    BY <1>6 DEF ALU_WAIT, Off
  <2>4. ~program.mie /\ ~IsLegal(instr) => exc' /\ state' = "DISPATCH"
    BY <1>2, <1>6, <2>1 DEF ALU_WAIT, Masked
  <2> QED BY <2>1, <2>2, <2>3, <2>4 DEF Masked
<1> QED BY <1>1, <1>3, <1>4, <1>5, <1>6 DEF ExecuteEngine

LEMMA InvariantInit == Init => IInv /\ Masked
<1> SUFFICES ASSUME Init PROVE IInv /\ Masked
  OBVIOUS
<1>1. Shapes
  BY ShapesInit
<1>2. /\ bitmanip.state = "S_IDLE" /\ ~bitmanip.valid /\ ~fpu.busy /\ ~fpu.valid /\ ~shifter.busy
      /\ state = "SYS_WAIT" /\ ~ctrl.copro /\ ~ctrl.wb
  BY DEF Init, BitmanipInit, FpuInit, ShifterInit, Off
<1>3. Awaited
  BY <1>2 DEF Awaited, Working
<1>4. Masked
  BY <1>2 DEF Masked
<1> QED BY <1>1, <1>2, <1>3, <1>4 DEF IInv, BitmanipInvariant, FpuInvariant

LEMMA InvariantStep == IInv /\ [Clock]_vars => IInv'
<1> SUFFICES ASSUME IInv, [Clock]_vars PROVE IInv'
  OBVIOUS
<1>1. CASE Clock
  <2>1. Shapes'
    BY <1>1, ProgramStep, ShifterRecord, BitmanipRecord, BitshiftRecord, FpuRecord
       DEF IInv, Shapes, Clock
  <2>2. BitmanipInvariant' /\ FpuInvariant'
    BY <1>1, BitmanipStep, FpuStep DEF IInv
  <2>3. abandoned => abandoned'
    BY <1>1 DEF Clock, Registers
  <2> QED BY <1>1, <2>1, <2>2, <2>3, AwaitedStep DEF IInv
<1>2. CASE UNCHANGED vars
  BY <1>2 DEF vars, control_vars, fpu_vars, IInv, Shapes, BitmanipInvariant, FpuInvariant, Awaited,
              Working, instr
<1> QED BY <1>1, <1>2

-----------------------------------------------------------------------------

\* In every state the co-processors are idle, or at work for the instruction that
\* waits, unless a trapped instruction has started one of them.
THEOREM Invariant == Spec => []IInv
BY InvariantInit, InvariantStep, PTL DEF Spec

\* A co-processor answers only the instruction that waits for it, in every
\* program and for every size of the words, as long as no trapped instruction
\* has left one of them running (the arbiter and ALU_WAIT of the control unit).
THEOREM AnswersAwaited == Spec => []AnswersAreAwaited
<1>1. IInv => AnswersAreAwaited
  BY Answers DEF IInv, AnswersAreAwaited
<1> QED BY <1>1, Invariant, PTL

\* With interrupts off no illegal instruction writes a register: the mask of
\* ctrl_output is there whenever its write-back is.
THEOREM IllegalMasked == Spec => []IllegalIsMasked
<1>1. IInv /\ Masked /\ [Clock]_vars => Masked'
  <2> SUFFICES ASSUME IInv, Masked, [Clock]_vars PROVE Masked'
    OBVIOUS
  <2>1. CASE Clock
    BY <2>1, MaskedStep DEF IInv
  <2>2. CASE UNCHANGED vars
    BY <2>2 DEF vars, control_vars, Masked, instr
  <2> QED BY <2>1, <2>2
<1>2. Masked => IllegalIsMasked
  BY DEF Masked, IllegalIsMasked, Writes
<1> QED BY <1>1, <1>2, InvariantInit, Invariant, PTL DEF Spec

\* The shifter, serial or fast, is a co-processor as the arbiter wants it.
THEOREM ShifterIsCoProcessor == Spec => ShifterKeepsContract
<1>1. Init => Shifter!Init
  BY DEF Init, ShifterInit, Shifter!Init, Start, Off, Valid, ShifterValid, Result, ShifterResult
<1>2. IInv /\ [Clock]_vars => [Shifter!Next]_(Shifter!vars)
  <2> SUFFICES ASSUME IInv, [Clock]_vars PROVE [Shifter!Next]_(Shifter!vars)
    OBVIOUS
  <2>1. CASE Clock
    BY <2>1, ShifterStep DEF IInv
  <2>2. CASE UNCHANGED vars
    BY <2>2 DEF vars, control_vars, Shifter!vars, Start, Valid, ShifterValid, ShifterDone, Result,
                ShifterResult
  <2> QED BY <2>1, <2>2
<1> QED BY <1>1, <1>2, Invariant, PTL DEF Spec, ShifterKeepsContract, Shifter!Spec

\* So is the unit for bit manipulation.
THEOREM BitmanipIsCoProcessor == Spec => BitmanipKeepsContract
<1>1. Init => Bitmanip!Init
  BY DEF Init, BitmanipInit, Bitmanip!Init, Start, Off, Valid, Result
<1>2. IInv /\ [Clock]_vars => [Bitmanip!Next]_(Bitmanip!vars)
  <2> SUFFICES ASSUME IInv, [Clock]_vars PROVE [Bitmanip!Next]_(Bitmanip!vars)
    OBVIOUS
  <2>1. CASE Clock
    BY <2>1, BitmanipStep DEF IInv
  <2>2. CASE UNCHANGED vars
    BY <2>2 DEF vars, control_vars, Bitmanip!vars, Start, Valid, Result
  <2> QED BY <2>1, <2>2
<1> QED BY <1>1, <1>2, Invariant, PTL DEF Spec, BitmanipKeepsContract, Bitmanip!Spec

\* So is the FPU, whatever its units compute and however long they take.
THEOREM FpuIsCoProcessor == Spec => FpuKeepsContract
<1>1. Init => Fpu!Init
  BY DEF Init, FpuInit, Fpu!Init, Start, Off, Valid, Result
<1>2. IInv /\ [Clock]_vars => [Fpu!Next]_(Fpu!vars)
  <2> SUFFICES ASSUME IInv, [Clock]_vars PROVE [Fpu!Next]_(Fpu!vars)
    OBVIOUS
  <2>1. CASE Clock
    BY <2>1, FpuStep DEF IInv
  <2>2. CASE UNCHANGED vars
    BY <2>2 DEF vars, control_vars, fpu_vars, Fpu!vars, Start, Valid, Result
  <2> QED BY <2>1, <2>2
<1> QED BY <1>1, <1>2, Invariant, PTL DEF Spec, FpuKeepsContract, Fpu!Spec

-----------------------------------------------------------------------------
(* What an instruction computes: its operands are there as long as it      *)
(* waits and when its result is written.                                   *)

Right == Bits(instr.funct3, 2, 2) = 1
Arithmetic == Bits(instr.funct7, 5, 5) = 1

Operands ==
    /\ i_reg \in Entries
    /\ rs \in [rs1 : Words, rs2 : Words]
    /\ state = "ALU_WAIT" \/ ctrl.wb => rs = [rs1 |-> i_reg.rs1, rs2 |-> i_reg.rs2]

LEMMA OperandsInit == Init => Operands
<1> SUFFICES ASSUME Init PROVE Operands
  OBVIOUS
<1>1. NoEntry \in Entries
  BY ZeroBits DEF NoEntry, Entries, Instructions, CMD_WORD_R2_TYPE
<1> QED BY <1>1, ZeroBits DEF Init, Operands, Off

LEMMA OperandsStep ==
    ASSUME Shapes, Operands, Clock
    PROVE  Operands'
<1>1. ExecuteEngine /\ Registers
  BY DEF Clock
<1>2. i_reg' \in Entries
  <2>1. NextEntry \in Entries
    BY DEF NextEntry, Shapes, Operands
  <2> QED BY <1>1, <2>1 DEF ExecuteEngine, SYS_WAIT, DispatchWaits, Dispatch, DispatchTraps,
                      TRAP_ENTER, TRAP_EXECUTE, EXECUTE, ALU_WAIT, Operands
<1>3. rs' = [rs1 |-> i_reg.rs1, rs2 |-> i_reg.rs2]
  BY <1>1 DEF Registers
<1>4. rs' \in [rs1 : Words, rs2 : Words]
  BY <1>3 DEF Operands, Entries
<1>5. state' = "ALU_WAIT" \/ ctrl'.wb => i_reg' = i_reg
  BY <1>1 DEF ExecuteEngine, SYS_WAIT, DispatchWaits, Dispatch, DispatchTraps,
              TRAP_ENTER, TRAP_EXECUTE, EXECUTE, ALU_WAIT, Off
<1> QED BY <1>2, <1>3, <1>4, <1>5 DEF Operands

\* In a period of ALU_WAIT nothing is pending that could end it but an answer.
LEMMA Waiting ==
    ASSUME Shapes, Awaited, Operands, Clock, ~abandoned', state = "ALU_WAIT"
    PROVE  /\ i_reg' = i_reg /\ rs' = rs /\ program'.fast = program.fast
           /\ ctrl'.copro /\ (ctrl'.wb <=> idone)
           /\ CoProcessorOf(instr) \in CoProcessors
<1>1. ALU_WAIT /\ Registers
  BY DEF Clock, ExecuteEngine, SYS_WAIT, DispatchWaits, Dispatch, DispatchTraps, TRAP_ENTER,
         TRAP_EXECUTE, EXECUTE, ALU_WAIT
<1>2. ~exc
  BY <1>1, Zenon DEF Awaited, Start, Registers
<1>3. i_reg' = i_reg /\ rs' = rs
  BY <1>1 DEF ALU_WAIT, Registers, Operands
<1>4. ctrl'.copro /\ (ctrl'.wb <=> idone)
  BY <1>1, <1>2 DEF ALU_WAIT, Off
<1> QED BY <1>3, <1>4, ProgramStep DEF Awaited, Clock

\* Only the co-processor of the instruction answers, and the others are silent.
LEMMA OneAnswers ==
    ASSUME IInv, Awaited, Clock, idone
    PROVE  /\ Valid(CoProcessorOf(instr)) /\ state = "ALU_WAIT"
           /\ \A cp \in CoProcessors \ {CoProcessorOf(instr)} : Result(cp)' = 0
<1>1. PICK cp \in CoProcessors : Valid(cp)
  BY DEF idone
<1>2. CoProcessorOf(instr) = cp /\ state = "ALU_WAIT"
  BY <1>1, Answers
<1>3. ASSUME NEW other \in CoProcessors, Result(other)' # 0 PROVE Valid(other)
  <2>1. CASE other = "shifter"
    BY <1>3, <2>1, ShifterStep DEF IInv, Shifter!Next
  <2>2. CASE other = "muldiv"
    BY <1>3, <2>2 DEF Result
  <2>3. CASE other = "bitmanip"
    BY <1>3, <2>3, BitmanipStep DEF IInv, Bitmanip!Next
  <2>4. CASE other = "fpu"
    BY <1>3, <2>4, FpuStep DEF IInv, Fpu!Next
  <2> QED BY <2>1, <2>2, <2>3, <2>4 DEF CoProcessors
<1>4. ASSUME NEW other \in CoProcessors, Valid(other) PROVE CoProcessorOf(instr) = other
  BY <1>4, Answers
<1> QED BY <1>1, <1>2, <1>3, <1>4

\* The result of the ALU is then that of the only co-processor.
LEMMA OnlyResult ==
    ASSUME NEW cp \in CoProcessors, Result(cp) \in Words, ctrl.copro,
           \A other \in CoProcessors \ {cp} : Result(other) = 0
    PROVE  AluResult = Result(cp)
<1>1. Ones(0) = {}
  BY ZeroBits DEF Ones
<1>2. UNION {Ones(Result(other)) : other \in CoProcessors} = Ones(Result(cp))
  BY <1>1
<1> QED BY <1>2, WordOfOnes DEF AluResult, cp_res

-----------------------------------------------------------------------------
(* The shifts.                                                             *)

LEMMA ShiftedBits ==
    ASSUME NEW word \in Words, NEW n \in 0 .. XLEN, NEW right, NEW arithmetic
    PROVE  /\ Shifted(word, n, right, arithmetic) \in Words
           /\ \A j \in Positions :
                /\ ~right => Bit(Shifted(word, n, right, arithmetic), j)
                              = IF j >= n THEN Bit(word, j - n) ELSE 0
                /\ right => Bit(Shifted(word, n, right, arithmetic), j)
                             = IF j + n < XLEN THEN Bit(word, j + n)
                               ELSE IF arithmetic THEN Bit(word, XLEN - 1) ELSE 0
<1>1. XLEN \in Nat /\ XLEN - 1 \in Positions /\ Positions = 0 .. XLEN - 1
  BY Powers DEF Positions
<1>2. ASSUME NEW j \in Positions PROVE Bit(word, j) \in {0, 1}
  <2>1. word \in Int /\ j \in 0 .. XLEN
    BY <1>1, WordRange
  <2> QED BY <2>1, BitRange
<1>3. CASE ~right
  BY <1>3, ShiftLeftBits DEF Shifted
<1>4. CASE right /\ ~(arithmetic /\ Bit(word, XLEN - 1) = 1)
  <2>1. Shifted(word, n, right, arithmetic) = ShiftRight(word, n)
    BY <1>4 DEF Shifted, ShiftedRight
  <2>2. arithmetic => Bit(word, XLEN - 1) = 0
    BY <1>1, <1>2, <1>4
  <2> QED BY <1>4, <2>1, <2>2, ShiftRightBits
<1>5. CASE right /\ arithmetic /\ Bit(word, XLEN - 1) = 1
  <2> DEFINE complement == Not(word)
             moved == ShiftRight(complement, n)
  <2>1. Shifted(word, n, right, arithmetic) = Not(moved)
    BY <1>5 DEF Shifted, ShiftedRight
  <2>2. complement \in Words /\ \A j \in Positions : Bit(complement, j) = 1 - Bit(word, j)
    BY NotBits
  <2> HIDE DEF complement
  <2>3. /\ moved \in Words
        /\ \A j \in Positions :
              Bit(moved, j) = IF j + n < XLEN THEN Bit(complement, j + n) ELSE 0
    BY <2>2, ShiftRightBits
  <2> HIDE DEF moved
  <2>4. Not(moved) \in Words /\ \A j \in Positions : Bit(Not(moved), j) = 1 - Bit(moved, j)
    BY <2>3, NotBits
  <2>5. ASSUME NEW j \in Positions
        PROVE  Bit(Not(moved), j) = IF j + n < XLEN THEN Bit(word, j + n) ELSE 1
    <3>1. CASE j + n < XLEN
      <4>1. j + n \in Positions
        BY <1>1, <3>1
      <4>2. Bit(word, j + n) \in {0, 1}
        BY <1>2, <4>1
      <4>3. Bit(Not(moved), j) = 1 - (1 - Bit(word, j + n))
        BY <2>2, <2>3, <2>4, <3>1, <4>1
      <4> QED BY <3>1, <4>2, <4>3
    <3>2. CASE ~(j + n < XLEN)
      BY <2>3, <2>4, <3>2
    <3> QED BY <3>1, <3>2
  <2> QED BY <1>5, <2>1, <2>4, <2>5
<1> QED BY <1>3, <1>4, <1>5

LEMMA ShiftedByZero ==
    ASSUME NEW word \in Words, NEW right, NEW arithmetic
    PROVE  Shifted(word, 0, right, arithmetic) = word
<1>1. XLEN \in Nat /\ 0 \in 0 .. XLEN
  BY Powers
<1> DEFINE moved == Shifted(word, 0, right, arithmetic)
<1>2. moved \in Words /\ \A j \in Positions : Bit(moved, j) = Bit(word, j)
  <2>1. ASSUME NEW j \in Positions PROVE j >= 0 /\ j - 0 = j /\ j + 0 = j /\ j + 0 < XLEN
    BY <1>1 DEF Positions
  <2> QED BY <1>1, <2>1, ShiftedBits
<1> HIDE DEF moved
<1>3. moved = word
  BY <1>2, SameBits
<1> QED BY <1>3 DEF moved

LEMMA ShiftedOnce ==
    ASSUME NEW word \in Words, NEW n \in Positions, NEW right, NEW arithmetic
    PROVE  Shifted(Shifted(word, n, right, arithmetic), 1, right, arithmetic)
             = Shifted(word, n + 1, right, arithmetic)
<1>1. /\ XLEN \in Nat /\ n \in 0 .. XLEN /\ n + 1 \in 0 .. XLEN /\ 1 \in 0 .. XLEN
      /\ Positions = 0 .. XLEN - 1 /\ XLEN - 1 \in Positions
  BY Powers DEF Positions
<1> DEFINE first == Shifted(word, n, right, arithmetic)
           second == Shifted(first, 1, right, arithmetic)
           direct == Shifted(word, n + 1, right, arithmetic)
<1>2. /\ first \in Words
      /\ \A j \in Positions :
            /\ ~right => Bit(first, j) = IF j >= n THEN Bit(word, j - n) ELSE 0
            /\ right => Bit(first, j) = IF j + n < XLEN THEN Bit(word, j + n)
                                        ELSE IF arithmetic THEN Bit(word, XLEN - 1) ELSE 0
  BY <1>1, ShiftedBits
<1> HIDE DEF first
<1>3. /\ second \in Words
      /\ \A j \in Positions :
            /\ ~right => Bit(second, j) = IF j >= 1 THEN Bit(first, j - 1) ELSE 0
            /\ right => Bit(second, j) = IF j + 1 < XLEN THEN Bit(first, j + 1)
                                         ELSE IF arithmetic THEN Bit(first, XLEN - 1) ELSE 0
  BY <1>1, <1>2, ShiftedBits
<1>4. /\ direct \in Words
      /\ \A j \in Positions :
            /\ ~right => Bit(direct, j) = IF j >= n + 1 THEN Bit(word, j - (n + 1)) ELSE 0
            /\ right => Bit(direct, j) = IF j + (n + 1) < XLEN THEN Bit(word, j + (n + 1))
                                         ELSE IF arithmetic THEN Bit(word, XLEN - 1) ELSE 0
  BY <1>1, ShiftedBits
<1> HIDE DEF second, direct
<1>5. ASSUME NEW j \in Positions PROVE Bit(second, j) = Bit(direct, j)
  <2>1. CASE ~right
    <3>1. CASE j >= 1
      <4>1. j - 1 \in Positions /\ (j - 1) - n = j - (n + 1) /\ (j - 1 >= n <=> j >= n + 1)
        BY <1>1, <3>1
      <4> QED BY <1>2, <1>3, <1>4, <2>1, <3>1, <4>1
    <3>2. CASE ~(j >= 1)
      <4>1. ~(j >= n + 1)
        BY <1>1, <3>2
      <4> QED BY <1>3, <1>4, <2>1, <3>2, <4>1
    <3> QED BY <3>1, <3>2
  <2>2. CASE right
    <3>1. CASE j + 1 < XLEN
      <4>1. j + 1 \in Positions /\ (j + 1) + n = j + (n + 1)
        BY <1>1, <3>1
      <4> QED BY <1>2, <1>3, <1>4, <2>2, <3>1, <4>1
    <3>2. CASE ~(j + 1 < XLEN)
      <4>1. ~(j + (n + 1) < XLEN)
        BY <1>1, <3>2
      <4>2. arithmetic => Bit(first, XLEN - 1) = Bit(word, XLEN - 1)
        <5>1. (XLEN - 1) + n < XLEN => (XLEN - 1) + n = XLEN - 1
          BY <1>1
        <5> QED BY <1>1, <1>2, <2>2, <5>1
      <4> QED BY <1>3, <1>4, <2>2, <3>2, <4>1, <4>2
    <3> QED BY <3>1, <3>2
  <2> QED BY <2>1, <2>2
<1>6. second = direct
  BY <1>3, <1>4, <1>5, SameBits
<1> QED BY <1>6 DEF first, second, direct

\* The shift to the right of C, of a number with its sign.
LEMMA SignedShift ==
    ASSUME NEW word \in Words, NEW n \in 0 .. XLEN
    PROVE  (Signed(word) \div 2 ^ n) % 2 ^ XLEN = ShiftedRight(word, n, TRUE)
<1> DEFINE d == 2 ^ n
           m == 2 ^ XLEN
           h == 2 ^ (XLEN - 1)
<1>1. d \in Nat \ {0} /\ m \in Nat \ {0} /\ h \in Nat /\ m = 2 * h
  <2>1. XLEN \in 0 .. XLEN
    BY Powers
  <2> QED BY <2>1, Powers, HighestBit
<1>2. word \in Int /\ 0 <= word /\ word < m
  BY WordRange
<1>3. /\ Bit(word, XLEN - 1) = IF word >= h THEN 1 ELSE 0
      /\ Signed(word) = IF word >= h THEN word - m ELSE word
  BY HighestBit
<1>4. CASE ~(word >= h)
  <2>1. ShiftedRight(word, n, TRUE) = ShiftRight(word, n)
    BY <1>3, <1>4 DEF ShiftedRight
  <2>2. ShiftRight(word, n) \in Words
    BY ShiftRightBits
  <2>3. ShiftRight(word, n) \in Int /\ 0 <= ShiftRight(word, n) /\ ShiftRight(word, n) < m
    BY <2>2, WordRange
  <2>4. Signed(word) \div d = ShiftRight(word, n)
    BY <1>3, <1>4 DEF ShiftRight
  <2> DEFINE q == ShiftRight(word, n)
  <2> HIDE DEF q, m
  <2>5. q = m * 0 + q /\ 0 \in Int /\ q \in Int /\ 0 <= q /\ q < m
    BY <1>1, <2>3 DEF q
  <2>6. q % m = q
    BY <1>1, <2>5, Division
  <2> QED BY <2>1, <2>4, <2>6 DEF q, m
<1>5. CASE word >= h
  <2> DEFINE c == m - 1 - word
             q == c \div d
             r == c % d
  <2>1. ShiftedRight(word, n, TRUE) = m - 1 - q
    BY <1>3, <1>5 DEF ShiftedRight, Not, ShiftRight
  <2>2. c \in Words
    BY NotBits DEF Not
  <2>3. 0 <= q /\ q < m /\ q \in Int
    <3>1. ShiftRight(c, n) \in Words
      BY <2>2, ShiftRightBits
    <3>2. ShiftRight(c, n) \in Int /\ 0 <= ShiftRight(c, n) /\ ShiftRight(c, n) < m
      BY <3>1, WordRange
    <3> QED BY <3>2 DEF ShiftRight
  <2>4. c \in Int
    BY <1>1, <1>2
  <2> HIDE DEF d, m, c
  <2>5. r \in Int /\ 0 <= r /\ r < d /\ c = d * q + r
    BY <1>1, <2>4, DivMod
  <2> HIDE DEF q, r
  <2>6. Signed(word) = d * (-q - 1) + (d - 1 - r)
    <3>1. Signed(word) = -c - 1
      BY <1>1, <1>2, <1>3, <1>5 DEF c, m
    <3> QED BY <1>1, <2>3, <2>5, <3>1
  <2>7. Signed(word) \div d = -q - 1
    <3> DEFINE p == -q - 1
               s == d - 1 - r
               x == Signed(word)
    <3>1. p \in Int /\ s \in Int /\ 0 <= s /\ s < d /\ x = d * p + s
      BY <1>1, <2>3, <2>5, <2>6
    <3> HIDE DEF p, s
    <3>2. x \in Int
      BY <1>1, <1>2, <1>3 DEF m
    <3> HIDE DEF x
    <3>3. x \div d = p
      BY <1>1, <3>1, <3>2, Division
    <3> QED BY <3>3 DEF x, p
  <2>8. (-q - 1) % m = m - 1 - q
    <3> DEFINE x == -q - 1
               y == m - 1 - q
               e == -1
    <3>1. x = m * e + y /\ x \in Int /\ y \in Int /\ 0 <= y /\ y < m /\ e \in Int
      BY <1>1, <2>3
    <3> HIDE DEF x, y, e
    <3>2. x % m = y
      BY <1>1, <3>1, Division
    <3> QED BY <3>2 DEF x, y
  <2> QED BY <2>1, <2>7, <2>8 DEF d, m
<1> QED BY <1>4, <1>5

\* The serial shifter has shifted by what the counter has gone down.
Shifting ==
    shifter.busy =>
      /\ shifter.cnt \in 0 .. ShiftAmount
      /\ shifter.sreg = Shifted(rs.rs1, ShiftAmount - shifter.cnt, Right, Arithmetic)

LEMMA ImmediateWord ==
    ASSUME Operands
    PROVE  Immediate \in Words
<1> DEFINE n == Min({12, XLEN})
           x == instr.funct7 * 2 ^ 5 + instr.rs2
           low == Low(x, n)
<1>1. XLEN \in Nat /\ XLEN >= 4 /\ XLEN \in 0 .. XLEN
  BY Powers
<1>2. n \in 0 .. XLEN
  BY <1>1 DEF Min
<1>3. x \in Nat
  BY DEF Operands, Entries, Instructions, instr
<1> HIDE DEF n, x
<1>4. low \in Words
  BY <1>2, <1>3, LowBits
<1>5. (low - 2 ^ n) % 2 ^ XLEN \in Words
  <2> DEFINE d == 2 ^ n
             m == 2 ^ XLEN
  <2>1. d \in Int /\ m \in Nat \ {0} /\ low \in Int
    BY <1>1, <1>2, <1>4, Powers, WordRange
  <2> HIDE DEF d, m, low
  <2>2. low - d \in Int
    BY <2>1
  <2>3. (low - d) % m \in Int /\ 0 <= (low - d) % m /\ (low - d) % m < m
    BY <2>1, <2>2, DivMod
  <2> QED BY <2>1, <2>3 DEF Words, d, m
<1> QED BY <1>4, <1>5 DEF Immediate, SignExtended, n, x

LEMMA AmountRange ==
    ASSUME Operands
    PROVE  Opb \in Words /\ ShiftAmount \in Positions /\ ShiftAmount \in 0 .. XLEN
<1>1. Opb \in Words
  BY ImmediateWord DEF Opb, Operands
<1>2. XLEN \in Nat \ {0} /\ Opb \in Int
  BY <1>1, Powers, WordRange
<1>3. Opb % XLEN \in Int /\ 0 <= Opb % XLEN /\ Opb % XLEN < XLEN
  BY <1>2, DivMod
<1> QED BY <1>1, <1>2, <1>3 DEF ShiftAmount, Positions

LEMMA SerialShift ==
    ASSUME Clock, ~program.fast
    PROVE  /\ Start("shifter") => shifter'.sreg = rs.rs1 /\ shifter'.cnt = ShiftAmount
           /\ ~Start("shifter") /\ shifter.cnt # 0 =>
                /\ shifter'.sreg = Shifted(shifter.sreg, 1, Right, Arithmetic)
                /\ shifter'.cnt = shifter.cnt - 1
           /\ ~Start("shifter") /\ ~(shifter.cnt # 0) =>
                shifter'.sreg = shifter.sreg /\ shifter'.cnt = 0
<1>1. SerialShifterClock(Start("shifter"), rs.rs1, ShiftAmount, Right, Arithmetic)
  BY DEF Clock, CoProcessorsClock, ShifterClock, Right, Arithmetic
<1> QED BY <1>1 DEF SerialShifterClock

\* One more place in a period, until the answer shows the result.
LEMMA ShiftGoesOn ==
    ASSUME Operands, Shifting, Clock, ~program.fast, shifter.busy, ~Start("shifter")
    PROVE  /\ shifter.cnt # 0 =>
                /\ shifter'.cnt = shifter.cnt - 1 /\ shifter'.cnt \in 0 .. ShiftAmount
                /\ shifter'.sreg = Shifted(rs.rs1, ShiftAmount - shifter'.cnt, Right, Arithmetic)
           /\ shifter.cnt = 0 =>
                shifter'.sreg = Shifted(rs.rs1, ShiftAmount, Right, Arithmetic)
<1> DEFINE cnt == shifter.cnt
           places == ShiftAmount - cnt
<1>1. ShiftAmount \in Positions /\ Positions = 0 .. XLEN - 1 /\ XLEN \in Nat
  BY AmountRange, Powers DEF Positions
<1>2. cnt \in 0 .. ShiftAmount /\ rs.rs1 \in Words
  BY DEF Shifting, Operands
<1>3. shifter.sreg = Shifted(rs.rs1, places, Right, Arithmetic)
  BY DEF Shifting
<1>4. CASE cnt # 0
  <2>1. /\ shifter'.cnt = cnt - 1
        /\ shifter'.sreg = Shifted(Shifted(rs.rs1, places, Right, Arithmetic), 1, Right, Arithmetic)
    BY <1>3, <1>4, SerialShift
  <2>2. places \in Positions /\ places + 1 = ShiftAmount - (cnt - 1) /\ cnt - 1 \in 0 .. ShiftAmount
    BY <1>1, <1>2, <1>4
  <2> HIDE DEF places
  <2>3. shifter'.sreg = Shifted(rs.rs1, places + 1, Right, Arithmetic)
    BY <1>2, <2>1, <2>2, ShiftedOnce
  <2> QED BY <1>4, <2>1, <2>2, <2>3
<1>5. CASE cnt = 0
  <2>1. shifter'.sreg = shifter.sreg
    BY <1>5, SerialShift
  <2>2. places = ShiftAmount
    BY <1>1, <1>5
  <2> QED BY <1>3, <1>5, <2>1, <2>2
<1> QED BY <1>4, <1>5

LEMMA ShiftingStep ==
    ASSUME IInv, Awaited, Operands, Shifting, Clock, ~abandoned', Awaited'
    PROVE  Shifting'
<1> SUFFICES ASSUME shifter'.busy
             PROVE  /\ shifter'.cnt \in 0 .. ShiftAmount'
                    /\ shifter'.sreg = Shifted(rs'.rs1, ShiftAmount' - shifter'.cnt,
                                               Right', Arithmetic')
  BY DEF Shifting
<1>1. ~program.fast
  BY ProgramStep DEF Awaited, IInv, Clock
<1>2. Start("shifter") \/ (shifter.busy /\ ~ShifterDone)
  BY <1>1, ShifterRecord DEF IInv
<1>3. state = "ALU_WAIT"
  BY <1>2 DEF Awaited, Start, Working
<1>4. i_reg' = i_reg /\ rs' = rs
  BY <1>3, Waiting DEF IInv
<1>5. ShiftAmount' = ShiftAmount /\ Right' = Right /\ Arithmetic' = Arithmetic
  BY <1>4 DEF ShiftAmount, Opb, IsImmediate, Immediate, Right, Arithmetic, instr
<1>6. CASE Start("shifter")
  <2>1. shifter'.sreg = rs.rs1 /\ shifter'.cnt = ShiftAmount
    BY <1>1, <1>6, SerialShift
  <2>2. rs.rs1 \in Words /\ ShiftAmount \in Nat
    BY AmountRange DEF Operands, Positions
  <2>3. ShiftAmount - ShiftAmount = 0 /\ ShiftAmount \in 0 .. ShiftAmount
    BY <2>2
  <2>4. Shifted(rs.rs1, 0, Right, Arithmetic) = rs.rs1
    BY <2>2, ShiftedByZero
  <2> QED BY <1>4, <1>5, <2>1, <2>3, <2>4
<1>7. CASE ~Start("shifter")
  <2>1. shifter.busy /\ shifter.cnt # 0
    BY <1>2, <1>7 DEF ShifterDone
  <2>2. /\ shifter'.cnt \in 0 .. ShiftAmount
        /\ shifter'.sreg = Shifted(rs.rs1, ShiftAmount - shifter'.cnt, Right, Arithmetic)
    BY <1>1, <1>7, <2>1, ShiftGoesOn
  <2> QED BY <1>4, <1>5, <2>2
<1> QED BY <1>6, <1>7

\* The answer of the shifter, serial or not.
LEMMA ShiftAnswer ==
    ASSUME IInv, Awaited, Operands, Shifting, Clock, Valid("shifter")
    PROVE  Result("shifter")' = Shifted(rs.rs1, ShiftAmount, Right, Arithmetic)
<1>1. program'.fast = program.fast
  BY ProgramStep DEF IInv, Clock
<1>2. CASE program.fast
  <2>1. Start("shifter")
    BY <1>2 DEF Valid, ShifterValid
  <2>2. shifter' = [shifter EXCEPT !.result = Shifted(rs.rs1, ShiftAmount, Right, Arithmetic)]
    BY <1>2, <2>1 DEF Clock, CoProcessorsClock, ShifterClock, BarrelShifterClock, Right, Arithmetic
  <2>3. shifter'.result = Shifted(rs.rs1, ShiftAmount, Right, Arithmetic)
    BY <2>2 DEF IInv, Shapes
  <2> QED BY <1>1, <1>2, <2>3 DEF Result, ShifterResult
<1>3. CASE ~program.fast
  <2>1. shifter.busy /\ ShifterDone
    BY <1>3 DEF Valid, ShifterValid
  <2>2. ~Start("shifter")
    BY <2>1 DEF Start, Awaited, Working
  <2>3. ~shifter'.busy /\ shifter'.busy_ff
    BY <1>3, <2>1, <2>2, ShifterRecord DEF IInv
  <2>4. Result("shifter")' = shifter'.sreg
    BY <1>1, <1>3, <2>3 DEF Result, ShifterResult
  <2>5. shifter'.sreg = Shifted(rs.rs1, ShiftAmount, Right, Arithmetic)
    <3>1. CASE shifter.cnt = 0
      BY <1>3, <2>1, <2>2, <3>1, ShiftGoesOn
    <3>2. CASE shifter.cnt = 1
      <4>1. /\ shifter'.cnt = 0
            /\ shifter'.sreg = Shifted(rs.rs1, ShiftAmount - shifter'.cnt, Right, Arithmetic)
        BY <1>3, <2>1, <2>2, <3>2, ShiftGoesOn
      <4>2. ShiftAmount - 0 = ShiftAmount
        BY AmountRange DEF Positions
      <4> QED BY <4>1, <4>2
    <3> QED BY <2>1, <3>1, <3>2 DEF ShifterDone
  <2> QED BY <2>4, <2>5
<1> QED BY <1>2, <1>3

-----------------------------------------------------------------------------
(* The operation that the FPU has taken.                                   *)

FloatHeld ==
    fpu.busy \/ fpu.valid =>
      /\ fpu.op = OperationOf(instr)
      /\ fpu.a = OperandData(rs.rs1) /\ fpu.b = OperandData(rs.rs2)
      /\ fpu.equal = (rs.rs1 = rs.rs2) /\ fpu.less = LessThan(rs.rs1, rs.rs2)

LEMMA FloatControl ==
    ASSUME Shapes, Clock
    PROVE  /\ fpu'.result = OutputGate(instr)
           /\ fpu.busy =>
                /\ fpu'.op = fpu.op /\ fpu'.a = fpu.a /\ fpu'.b = fpu.b
                /\ fpu'.equal = fpu.equal /\ fpu'.less = fpu.less
           /\ ~fpu.busy /\ Start("fpu") =>
                /\ fpu'.op = OperationOf(instr)
                /\ fpu'.a = OperandData(rs.rs1) /\ fpu'.b = OperandData(rs.rs2)
                /\ fpu'.equal = (rs.rs1 = rs.rs2) /\ fpu'.less = LessThan(rs.rs1, rs.rs2)
<1> DEFINE control == ControlEngine(Start("fpu"), instr, rs.rs1 = rs.rs2,
                                    LessThan(rs.rs1, rs.rs2), rs.rs1, rs.rs2)
<1>1. \E neg, abs, sub, flags :
        fpu' = [control EXCEPT !.result = OutputGate(instr), !.flags = flags, !.neg = neg,
                               !.abs = abs, !.sub = sub]
  BY DEF Clock, CoProcessorsClock, FpuClock
<1>2. FpuFields \subseteq DOMAIN control
  BY DEF Shapes, ControlEngine
<1>3. ASSUME fpu.busy
      PROVE  /\ control.op = fpu.op /\ control.a = fpu.a /\ control.b = fpu.b
             /\ control.equal = fpu.equal /\ control.less = fpu.less
  BY <1>3 DEF Shapes, FpuFields, ControlEngine
<1>4. ASSUME ~fpu.busy, Start("fpu")
      PROVE  /\ control.op = OperationOf(instr)
             /\ control.a = OperandData(rs.rs1) /\ control.b = OperandData(rs.rs2)
             /\ control.equal = (rs.rs1 = rs.rs2) /\ control.less = LessThan(rs.rs1, rs.rs2)
  BY <1>4 DEF Shapes, FpuFields, ControlEngine
<1> HIDE DEF control
<1>5. /\ fpu'.result = OutputGate(instr)
      /\ fpu'.op = control.op /\ fpu'.a = control.a /\ fpu'.b = control.b
      /\ fpu'.equal = control.equal /\ fpu'.less = control.less
  BY <1>1, <1>2 DEF FpuFields
<1> QED BY <1>3, <1>4, <1>5

LEMMA FloatHeldStep ==
    ASSUME IInv, Awaited, Operands, FloatHeld, Clock, ~abandoned'
    PROVE  FloatHeld'
<1> SUFFICES ASSUME fpu'.busy \/ fpu'.valid
             PROVE  FloatHeld'
  BY DEF FloatHeld
<1>1. fpu.busy \/ (~fpu.busy /\ Start("fpu"))
  BY FpuRecord DEF IInv
<1>2. state = "ALU_WAIT"
  BY <1>1 DEF Awaited, Start, Working
<1>3. i_reg' = i_reg /\ rs' = rs
  BY <1>2, Waiting DEF IInv
<1>4. /\ OperationOf(instr)' = OperationOf(instr)
      /\ LessThan(rs.rs1, rs.rs2)' = LessThan(rs.rs1, rs.rs2)
  BY <1>3 DEF instr, LessThan, Unsigned
<1>5. CASE fpu.busy
  BY <1>3, <1>4, <1>5, FloatControl DEF IInv, FloatHeld
<1>6. CASE ~fpu.busy /\ Start("fpu")
  BY <1>3, <1>4, <1>6, FloatControl DEF IInv, FloatHeld
<1> QED BY <1>1, <1>5, <1>6

-----------------------------------------------------------------------------
(* Counts of zeros and of ones, and rotations.                             *)

\* The first one of a word, from the right, is at n, or there is none.
FirstOne(word, n) ==
    /\ n \in 0 .. XLEN
    /\ \A j \in 0 .. n - 1 : Bit(word, j) = 0
    /\ n < XLEN => Bit(word, n) = 1

LEMMA FirstOneExists ==
    ASSUME NEW word \in Words
    PROVE  \E n : FirstOne(word, n)
<1> DEFINE S == {m \in 0 .. XLEN : \/ \E n : FirstOne(word, n)
                                   \/ \A j \in 0 .. m - 1 : Bit(word, j) = 0}
<1>1. XLEN \in Nat /\ XLEN \in 0 .. XLEN /\ word \in Int
  BY Powers, WordRange
<1>2. 0 \in S
  BY <1>1
<1>3. ASSUME NEW m \in 1 .. XLEN, m - 1 \in S PROVE m \in S
  <2>1. CASE \E n : FirstOne(word, n)
    BY <1>1, <2>1
  <2>2. CASE \A j \in 0 .. (m - 1) - 1 : Bit(word, j) = 0
    <3>1. m - 1 \in 0 .. XLEN /\ m - 1 < XLEN /\ m \in 0 .. XLEN
          /\ 0 .. m - 1 = (0 .. (m - 1) - 1) \union {m - 1}
      BY <1>1
    <3>2. Bit(word, m - 1) \in {0, 1}
      BY <1>1, <3>1, BitRange
    <3>3. CASE Bit(word, m - 1) = 1
      <4>1. FirstOne(word, m - 1)
        BY <2>2, <3>1, <3>3 DEF FirstOne
      <4> QED BY <3>1, <4>1
    <3>4. CASE Bit(word, m - 1) = 0
      BY <2>2, <3>1, <3>4
    <3> QED BY <3>2, <3>3, <3>4
  <2> QED BY <1>3, <2>1, <2>2
<1> HIDE DEF S
<1>4. XLEN \in S
  BY <1>1, <1>2, <1>3, Induction
<1>5. ASSUME \A j \in 0 .. XLEN - 1 : Bit(word, j) = 0
      PROVE  FirstOne(word, XLEN)
  BY <1>1, <1>5 DEF FirstOne
<1> QED BY <1>4, <1>5 DEF S

\* The loops of the emulation find it.
LEMMA FirstOneFound ==
    ASSUME NEW word \in Words, NEW n, FirstOne(word, n)
    PROVE  /\ n = XLEN <=> word = 0
           /\ n < XLEN => Min({c \in Positions : Bit(word, c) = 1}) = n
<1>1. XLEN \in Nat /\ n \in 0 .. XLEN /\ Positions = 0 .. XLEN - 1
  BY Powers DEF FirstOne, Positions
<1>2. n = XLEN => word = 0
  <2> SUFFICES ASSUME n = XLEN PROVE word = 0
    OBVIOUS
  <2>1. 0 \in Words /\ \A j \in Positions : Bit(word, j) = Bit(0, j)
    BY <1>1, ZeroBits DEF FirstOne
  <2> QED BY <2>1, SameBits
<1>3. word = 0 => n = XLEN
  BY <1>1, ZeroBits DEF FirstOne
<1>4. ASSUME n < XLEN PROVE Min({c \in Positions : Bit(word, c) = 1}) = n
  <2> DEFINE ones == {c \in Positions : Bit(word, c) = 1}
  <2>1. n \in ones /\ \A c \in ones : n <= c /\ c \in Nat
    BY <1>1, <1>4 DEF FirstOne
  <2> HIDE DEF ones
  <2>2. \A m \in ones : (\A c \in ones : m <= c) => m = n
    BY <1>1, <2>1
  <2> QED BY <2>1, <2>2 DEF Min, ones
<1> QED BY <1>2, <1>3, <1>4

LEMMA ReversedWord ==
    ASSUME NEW word \in Words
    PROVE  /\ Reversed(word) \in Words
           /\ \A j \in Positions : XLEN - 1 - j \in Positions
                                   /\ Bit(Reversed(word), j) = Bit(word, XLEN - 1 - j)
<1>1. XLEN \in Nat /\ Positions = 0 .. XLEN - 1 /\ word \in Int
  BY Powers, WordRange DEF Positions
<1>2. ASSUME NEW j \in Positions
      PROVE  XLEN - 1 - j \in Positions /\ Bit(word, XLEN - 1 - j) \in {0, 1}
  <2>1. XLEN - 1 - j \in Positions /\ XLEN - 1 - j \in 0 .. XLEN
    BY <1>1
  <2> QED BY <1>1, <2>1, BitRange
<1> QED BY <1>2, ReversedBits

LEMMA CountsOfZeros ==
    ASSUME NEW word \in Words
    PROVE  /\ FirstOne(Reversed(word), LeadingZeros(word))
           /\ FirstOne(word, TrailingZeros(word))
<1>1. XLEN \in Nat /\ Positions = 0 .. XLEN - 1
  BY Powers DEF Positions
<1>2. FirstOne(Reversed(word), LeadingZeros(word))
  <2>1. PICK n : FirstOne(Reversed(word), n)
    BY ReversedWord, FirstOneExists
  <2>2. n \in 0 .. XLEN
    BY <2>1 DEF FirstOne
  <2>3. ASSUME NEW j \in Positions
        PROVE  (\A k \in j .. XLEN - 1 : Bit(word, k) = 0) <=> j >= XLEN - n
    <3>1. ASSUME j >= XLEN - n, NEW k \in j .. XLEN - 1 PROVE Bit(word, k) = 0
      <4>1. k \in Positions /\ XLEN - 1 - k \in 0 .. n - 1 /\ XLEN - 1 - k \in Positions
            /\ XLEN - 1 - (XLEN - 1 - k) = k
        BY <1>1, <2>2, <3>1
      <4>2. Bit(Reversed(word), XLEN - 1 - k) = 0
        BY <2>1, <4>1 DEF FirstOne
      <4> QED BY <4>1, <4>2, ReversedWord
    <3>2. ASSUME ~(j >= XLEN - n) PROVE \E k \in j .. XLEN - 1 : Bit(word, k) # 0
      <4>1. n < XLEN /\ n \in Positions /\ XLEN - 1 - n \in j .. XLEN - 1
        BY <1>1, <2>2, <3>2
      <4>2. Bit(word, XLEN - 1 - n) = 1
        BY <2>1, <4>1, ReversedWord DEF FirstOne
      <4> QED BY <4>1, <4>2
    <3> QED BY <3>1, <3>2
  <2>4. {j \in Positions : \A k \in j .. XLEN - 1 : Bit(word, k) = 0} = (XLEN - n) .. (XLEN - 1)
    BY <1>1, <2>2, <2>3
  <2>5. Cardinality((XLEN - n) .. (XLEN - 1)) = n
    <3>1. XLEN - n \in Int /\ XLEN - 1 \in Int
      BY <1>1, <2>2
    <3>2. Cardinality((XLEN - n) .. (XLEN - 1))
            = IF XLEN - n > XLEN - 1 THEN 0 ELSE (XLEN - 1) - (XLEN - n) + 1
      BY <3>1, FS_Interval
    <3> QED BY <1>1, <2>2, <3>2
  <2>6. LeadingZeros(word) = n
    BY <2>4, <2>5 DEF LeadingZeros
  <2> QED BY <2>1, <2>6
<1>3. FirstOne(word, TrailingZeros(word))
  <2>1. PICK n : FirstOne(word, n)
    BY FirstOneExists
  <2>2. n \in 0 .. XLEN
    BY <2>1 DEF FirstOne
  <2>3. ASSUME NEW j \in Positions
        PROVE  word % 2 ^ (j + 1) = 0 <=> j < n
    <3>1. j + 1 \in 0 .. XLEN /\ (j + 1) - 1 = j /\ j \in 0 .. j
      BY <1>1
    <3>2. word % 2 ^ (j + 1) = 0 <=> \A k \in 0 .. j : Bit(word, k) = 0
      BY <3>1, LowZero
    <3>3. j < n => \A k \in 0 .. j : k \in 0 .. n - 1
      BY <1>1, <2>2
    <3>4. ~(j < n) => n < XLEN /\ n \in 0 .. j
      BY <1>1, <2>2
    <3>5. (\A k \in 0 .. n - 1 : Bit(word, k) = 0) /\ (n < XLEN => Bit(word, n) = 1)
      BY <2>1 DEF FirstOne
    <3> QED BY <3>2, <3>3, <3>4, <3>5
  <2>4. {j \in Positions : word % 2 ^ (j + 1) = 0} = 0 .. n - 1
    BY <1>1, <2>2, <2>3
  <2>5. Cardinality(0 .. n - 1) = n
    <3>1. 0 \in Int /\ n - 1 \in Int
      BY <1>1, <2>2
    <3>2. Cardinality(0 .. n - 1) = IF 0 > n - 1 THEN 0 ELSE (n - 1) - 0 + 1
      BY <3>1, FS_Interval
    <3> QED BY <1>1, <2>2, <3>2
  <2>6. TrailingZeros(word) = n
    BY <2>4, <2>5 DEF TrailingZeros
  <2> QED BY <2>1, <2>6
<1> QED BY <1>2, <1>3

-----------------------------------------------------------------------------
(* The operation that the bit manipulation unit has taken.                 *)

\* What the serial shifter starts from, and what enters it from the left: it
\* still holds the places of the word above those it has counted.
Loaded == IF bitmanip.cmd \intersect {"clz", "rol"} # {} THEN Reversed(bitmanip.rs1)
          ELSE bitmanip.rs1
Counting == bitmanip.cmd \intersect {"clz", "ctz"} # {}
Rotating == bitmanip.cmd \intersect {"ror", "rol"} # {}
Entering(j) ==
    IF Counting THEN 1 ELSE IF Rotating THEN Bit(Loaded, j) ELSE 0

Progress ==
    LET k == bitshift.cnt
    IN  /\ k \in 0 .. XLEN /\ bitshift.sreg \in Words
        /\ bitshift.cnt_max = IF "cpop" \in bitmanip.cmd THEN XLEN ELSE bitmanip.sha
        /\ ~Counting => k <= bitshift.cnt_max
        /\ Counting => \A j \in 0 .. k - 1 : Bit(Loaded, j) = 0
        /\ \A j \in Positions :
              Bit(bitshift.sreg, j) = IF j + k < XLEN THEN Bit(Loaded, j + k)
                                      ELSE Entering(j + k - XLEN)
        /\ bitshift.bcnt = Cardinality({j \in 0 .. k - 1 : Bit(Loaded, j) = 1})

Counted ==
    /\ bitmanip.cmd = {"clz"} => FirstOne(Reversed(bitmanip.rs1), bitshift.cnt)
    /\ bitmanip.cmd = {"ctz"} => FirstOne(bitmanip.rs1, bitshift.cnt)
    /\ bitmanip.cmd = {"cpop"} => bitshift.bcnt = Cardinality(Ones(bitmanip.rs1))
    /\ bitmanip.cmd = {"ror"} => bitshift.sreg = RotatedRight(bitmanip.rs1, bitmanip.sha)
    /\ bitmanip.cmd = {"rol"} =>
          bitshift.sreg = RotatedRight(Reversed(bitmanip.rs1), bitmanip.sha)

BitmanipLatched ==
    /\ bitmanip.cmd = Decoded(instr)
    /\ bitmanip.rs1 = rs.rs1 /\ bitmanip.rs2 = rs.rs2
    /\ bitmanip.less = LessThan(rs.rs1, rs.rs2) /\ bitmanip.sha = ShiftAmount

BitmanipHeld ==
    /\ bitmanip.state # "S_IDLE" \/ bitmanip.valid => BitmanipLatched
    /\ bitmanip.start <=> bitmanip.state = "S_START_SHIFT"
    /\ bitmanip.state = "S_BUSY_SHIFT" /\ ~program.fast => Progress
    /\ bitmanip.valid => Counted

LEMMA BitmanipControlled ==
    ASSUME Shapes, BitmanipInvariant, Clock
    PROVE  /\ bitmanip'.result = IF bitmanip.valid THEN SelectedResult(instr) ELSE 0
           /\ bitmanip.state = "S_IDLE" /\ Start("bitmanip") =>
                /\ bitmanip'.cmd = Decoded(instr)
                /\ bitmanip'.rs1 = rs.rs1 /\ bitmanip'.rs2 = rs.rs2
                /\ bitmanip'.less = LessThan(rs.rs1, rs.rs2) /\ bitmanip'.sha = ShiftAmount
                /\ bitmanip'.valid => Decoded(instr) \intersect MultiCycle = {}
                /\ bitmanip'.state # "S_START_SHIFT" => bitmanip'.start = bitmanip.start
                /\ bitmanip'.state = "S_START_SHIFT" => bitmanip'.start
                /\ bitmanip'.state = "S_BUSY_SHIFT" => program.fast
           /\ bitmanip.state = "S_IDLE" /\ ~Start("bitmanip") => bitmanip'.start = bitmanip.start
           /\ bitmanip.state # "S_IDLE" =>
                /\ bitmanip'.cmd = bitmanip.cmd
                /\ bitmanip'.rs1 = bitmanip.rs1 /\ bitmanip'.rs2 = bitmanip.rs2
                /\ bitmanip'.less = bitmanip.less /\ bitmanip'.sha = bitmanip.sha
           /\ bitmanip.state = "S_START_SHIFT" => bitmanip'.start = FALSE
           /\ bitmanip.state = "S_BUSY_SHIFT" =>
                /\ bitmanip'.start = bitmanip.start
                /\ bitmanip'.state = "S_BUSY_SHIFT" <=> ShiftRuns(program.fast)
<1> DEFINE less == LessThan(rs.rs1, rs.rs2)
           control == BitmanipControl(program.fast, Start("bitmanip"), instr, less,
                                      rs.rs1, rs.rs2, ShiftAmount)
           Latched(c) ==
              /\ c.cmd = Decoded(instr)
              /\ c.rs1 = rs.rs1 /\ c.rs2 = rs.rs2 /\ c.less = less /\ c.sha = ShiftAmount
           Kept(c) ==
              /\ c.cmd = bitmanip.cmd
              /\ c.rs1 = bitmanip.rs1 /\ c.rs2 = bitmanip.rs2
              /\ c.less = bitmanip.less /\ c.sha = bitmanip.sha
<1>1. bitmanip' = [control EXCEPT !.result = IF bitmanip.valid THEN SelectedResult(instr) ELSE 0]
  BY DEF Clock, CoProcessorsClock, BitmanipClock
<1>2. BitmanipFields \subseteq DOMAIN control
  BY DEF Shapes, BitmanipInvariant, BitmanipControl, BitmanipIdle
<1>3. ASSUME bitmanip.state = "S_IDLE", Start("bitmanip")
      PROVE  /\ Latched(control)
             /\ control.valid => Decoded(instr) \intersect MultiCycle = {}
             /\ control.state # "S_START_SHIFT" => control.start = bitmanip.start
             /\ control.state = "S_START_SHIFT" => control.start
             /\ control.state = "S_BUSY_SHIFT" => program.fast
  <2>1. control = BitmanipIdle(program.fast, TRUE, instr, less, rs.rs1, rs.rs2, ShiftAmount)
    BY <1>3, Zenon DEF BitmanipControl, BitmanipIdle
  <2> DEFINE shifts == Decoded(instr) \intersect MultiCycle # {}
  <2>2. CASE ~shifts
    BY <1>3, <2>1, <2>2 DEF BitmanipIdle, Shapes, BitmanipFields
  <2>3. CASE shifts /\ ~program.fast
    BY <1>3, <2>1, <2>3 DEF BitmanipIdle, Shapes, BitmanipFields
  <2>4. CASE shifts /\ program.fast
    BY <1>3, <2>1, <2>4 DEF BitmanipIdle, Shapes, BitmanipFields
  <2> QED BY <2>2, <2>3, <2>4
<1>4. ASSUME bitmanip.state = "S_IDLE", ~Start("bitmanip")
      PROVE  control.start = bitmanip.start
  BY <1>4 DEF BitmanipControl, BitmanipIdle, Shapes, BitmanipFields
<1>5. ASSUME bitmanip.state = "S_START_SHIFT"
      PROVE  Kept(control) /\ control.start = FALSE
  BY <1>5 DEF BitmanipControl, Shapes, BitmanipFields
<1>6. ASSUME bitmanip.state = "S_BUSY_SHIFT"
      PROVE  /\ Kept(control) /\ control.start = bitmanip.start
             /\ control.state = "S_BUSY_SHIFT" <=> ShiftRuns(program.fast)
  <2>1. CASE ShiftRuns(program.fast)
    BY <1>6, <2>1 DEF BitmanipControl, Shapes, BitmanipFields
  <2>2. CASE ~ShiftRuns(program.fast)
    BY <1>6, <2>2 DEF BitmanipControl, Shapes, BitmanipFields
  <2> QED BY <2>1, <2>2
<1> HIDE DEF control
<1>7. /\ bitmanip'.result = IF bitmanip.valid THEN SelectedResult(instr) ELSE 0
      /\ bitmanip'.state = control.state /\ bitmanip'.valid = control.valid
      /\ bitmanip'.start = control.start /\ bitmanip'.cmd = control.cmd
      /\ bitmanip'.rs1 = control.rs1 /\ bitmanip'.rs2 = control.rs2
      /\ bitmanip'.less = control.less /\ bitmanip'.sha = control.sha
  BY <1>1, <1>2 DEF BitmanipFields
<1> QED BY <1>3, <1>4, <1>5, <1>6, <1>7 DEF BitmanipInvariant

\* One place to the right, with a bit that enters from the left.
LEMMA ShiftedIn ==
    ASSUME NEW word \in Words, NEW b \in {0, 1}
    PROVE  LET shifted == b * 2 ^ (XLEN - 1) + ShiftRight(word, 1)
           IN  /\ shifted \in Words
               /\ \A j \in Positions :
                    Bit(shifted, j) = IF j + 1 < XLEN THEN Bit(word, j + 1) ELSE b
<1> DEFINE P == 2 ^ (XLEN - 1)
           low == ShiftRight(word, 1)
           shifted == b * P + low
<1>1. /\ XLEN \in Nat /\ XLEN >= 4 /\ Positions = 0 .. XLEN - 1 /\ XLEN - 1 \in 0 .. XLEN
      /\ 1 \in 0 .. XLEN /\ 2 ^ 0 = 1 /\ 2 ^ 1 = 2 /\ XLEN - (XLEN - 1) = 1
  <2>1. XLEN \in Nat /\ XLEN >= 4 /\ 2 ^ 0 = 1
    BY Powers
  <2>2. 1 \in 1 .. XLEN
    BY <2>1
  <2>3. 2 ^ 1 = 2 * 2 ^ (1 - 1)
    BY <2>2, Powers
  <2> QED BY <2>1, <2>3 DEF Positions
<1>2. P \in Nat /\ 2 ^ XLEN = 2 * P
  BY HighestBit
<1>3. low \in Words /\ \A j \in Positions : Bit(low, j) = IF j + 1 < XLEN THEN Bit(word, j + 1) ELSE 0
  BY <1>1, ShiftRightBits
<1>4. low \in Nat /\ low < P
  <2>1. word \in Int /\ word < 2 * P
    BY <1>2, WordRange
  <2>2. low = word \div 2
    BY <1>1 DEF ShiftRight
  <2>3. low \in Nat
    BY <1>3, WordRange
  <2> HIDE DEF P, low
  <2>4. word = 2 * (word \div 2) + (word % 2) /\ word % 2 >= 0 /\ word \div 2 \in Int
    BY <2>1, DivMod
  <2> QED BY <1>2, <2>1, <2>2, <2>3, <2>4
<1>5. shifted = low + P * b
  <2> HIDE DEF P, low
  <2> QED BY <1>2, <1>4
<1>6. b \in Nat /\ b < 2 ^ (XLEN - (XLEN - 1))
  BY <1>1
<1>7. /\ low + P * b \in Words
      /\ \A j \in Positions :
           Bit(low + P * b, j) = IF j < XLEN - 1 THEN Bit(low, j) ELSE Bit(b, j - (XLEN - 1))
  <2> HIDE DEF low
  <2> QED BY <1>1, <1>4, <1>6, JoinedBits
<1>8. Bit(b, 0) = b
  BY <1>1 DEF Bit
<1>9. ASSUME NEW j \in Positions
      PROVE  Bit(shifted, j) = IF j + 1 < XLEN THEN Bit(word, j + 1) ELSE b
  <2> HIDE DEF shifted, low
  <2>1. CASE j < XLEN - 1
    BY <1>1, <1>3, <1>5, <1>7, <2>1
  <2>2. CASE j = XLEN - 1
    BY <1>1, <1>5, <1>7, <1>8, <2>2
  <2> QED BY <1>1, <2>1, <2>2
<1> QED BY <1>5, <1>7, <1>9

LEMMA SerialStep ==
    ASSUME Shapes, Clock, ~program.fast
    PROVE  LET cmd == bitmanip.cmd
               lowest == Bit(bitshift.sreg, 0)
               new_bit == IF (Rotating /\ lowest = 1) \/ Counting THEN 1 ELSE 0
           IN  /\ bitmanip.start =>
                    /\ bitshift'.sreg = Loaded /\ bitshift'.cnt = 0 /\ bitshift'.bcnt = 0
                    /\ bitshift'.cnt_max = IF "cpop" \in cmd THEN XLEN ELSE bitmanip.sha
               /\ ~bitmanip.start /\ ShiftRuns(program.fast) =>
                    /\ bitshift'.sreg = new_bit * 2 ^ (XLEN - 1) + ShiftRight(bitshift.sreg, 1)
                    /\ bitshift'.cnt = (bitshift.cnt + 1) % (2 * XLEN)
                    /\ bitshift'.bcnt = (bitshift.bcnt + lowest) % (2 * XLEN)
                    /\ bitshift'.cnt_max = bitshift.cnt_max
               /\ ~bitmanip.start /\ ~ShiftRuns(program.fast) => bitshift' = bitshift
<1>1. bitshift' = SerialBitshift(program.fast)
  BY BitshiftRecord
<1>2. BitshiftFields \subseteq DOMAIN bitshift
  BY DEF Shapes
<1>3. CASE bitmanip.start
  BY <1>1, <1>3 DEF SerialBitshift, Loaded
<1>4. CASE ~bitmanip.start /\ ShiftRuns(program.fast)
  BY <1>1, <1>2, <1>4 DEF SerialBitshift, Rotating, Counting, BitshiftFields
<1>5. CASE ~bitmanip.start /\ ~ShiftRuns(program.fast)
  BY <1>1, <1>5 DEF SerialBitshift
<1> QED BY <1>3, <1>4, <1>5

\* The ones below a place are counted one by one.
LEMMA OnesBelow ==
    ASSUME NEW word \in Int, NEW n \in Positions
    PROVE  LET below(m) == {j \in 0 .. m - 1 : Bit(word, j) = 1}
           IN  /\ Cardinality(below(n)) \in 0 .. n
               /\ Cardinality(below(n + 1)) = Cardinality(below(n)) + Bit(word, n)
<1> DEFINE S == {j \in 0 .. n - 1 : Bit(word, j) = 1}
           T == {j \in 0 .. (n + 1) - 1 : Bit(word, j) = 1}
<1>1. n \in Nat /\ n \in 0 .. XLEN /\ 0 .. (n + 1) - 1 = (0 .. n - 1) \union {n}
  BY Powers DEF Positions
<1>2. IsFiniteSet(0 .. n - 1) /\ Cardinality(0 .. n - 1) = n
  <2>1. 0 \in Int /\ n - 1 \in Int
    BY <1>1
  <2>2. /\ IsFiniteSet(0 .. n - 1)
        /\ Cardinality(0 .. n - 1) = IF 0 > n - 1 THEN 0 ELSE (n - 1) - 0 + 1
    BY <2>1, FS_Interval
  <2> QED BY <1>1, <2>2
<1>3. IsFiniteSet(S) /\ Cardinality(S) <= n
  <2>1. S \subseteq 0 .. n - 1
    OBVIOUS
  <2> HIDE DEF S
  <2> QED BY <1>2, <2>1, FS_Subset
<1>4. Cardinality(S) \in 0 .. n
  BY <1>1, <1>3, FS_CardinalityType
<1>5. Bit(word, n) \in {0, 1}
  BY <1>1, BitRange
<1>6. CASE Bit(word, n) = 1
  <2>1. T = S \union {n} /\ n \notin S
    BY <1>1, <1>6
  <2> HIDE DEF S, T
  <2>2. Cardinality(T) = Cardinality(S) + 1
    BY <1>3, <2>1, FS_AddElement
  <2> QED BY <1>4, <1>6, <2>2 DEF S, T
<1>7. CASE Bit(word, n) = 0
  <2>1. T = S
    BY <1>1, <1>7
  <2> QED BY <1>4, <1>7, <2>1
<1> QED BY <1>5, <1>6, <1>7

LEMMA LoadedWord ==
    ASSUME bitmanip.rs1 \in Words
    PROVE  Loaded \in Words /\ Loaded \in Int
<1>1. Loaded \in Words
  BY ReversedBits DEF Loaded
<1> QED BY <1>1, WordRange

LEMMA ProgressBegins ==
    ASSUME Shapes, BitmanipInvariant, Clock, ~program.fast, bitmanip.state = "S_START_SHIFT",
           bitmanip.start, bitmanip.rs1 \in Words, bitmanip.sha \in Positions
    PROVE  Progress'
<1>1. bitmanip'.cmd = bitmanip.cmd /\ bitmanip'.rs1 = bitmanip.rs1 /\ bitmanip'.sha = bitmanip.sha
  BY BitmanipControlled
<1>2. Loaded' = Loaded /\ Counting' = Counting
  BY <1>1 DEF Loaded, Counting
<1>3. /\ bitshift'.sreg = Loaded /\ bitshift'.cnt = 0 /\ bitshift'.bcnt = 0
      /\ bitshift'.cnt_max = IF "cpop" \in bitmanip.cmd THEN XLEN ELSE bitmanip.sha
  BY SerialStep
<1>4. XLEN \in Nat /\ Positions = 0 .. XLEN - 1 /\ Loaded \in Words
  BY Powers, LoadedWord DEF Positions
<1>5. bitshift'.bcnt = Cardinality({j \in 0 .. bitshift'.cnt - 1 : Bit(Loaded', j) = 1})
  <2>1. {j \in 0 .. bitshift'.cnt - 1 : Bit(Loaded', j) = 1} = {}
    BY <1>3
  <2> QED BY <1>3, <2>1, FS_EmptySet
<1>6. (\A j \in Positions :
          Bit(bitshift.sreg, j) = IF j + bitshift.cnt < XLEN THEN Bit(Loaded, j + bitshift.cnt)
                                  ELSE Entering(j + bitshift.cnt - XLEN))'
  BY <1>2, <1>3, <1>4
<1>7. /\ bitshift'.cnt \in 0 .. XLEN /\ bitshift'.sreg \in Words
      /\ bitshift'.cnt_max = IF "cpop" \in bitmanip'.cmd THEN XLEN ELSE bitmanip'.sha
      /\ bitshift'.cnt <= bitshift'.cnt_max
      /\ \A j \in 0 .. bitshift'.cnt - 1 : Bit(Loaded', j) = 0
  BY <1>1, <1>3, <1>4
<1> QED BY <1>5, <1>6, <1>7 DEF Progress

LEMMA ProgressGoesOn ==
    ASSUME Shapes, BitmanipInvariant, Clock, ~program.fast, bitmanip.state = "S_BUSY_SHIFT",
           ~bitmanip.start, bitmanip.rs1 \in Words, bitmanip.sha \in Positions, Progress,
           ShiftRuns(program.fast)
    PROVE  Progress'
<1> DEFINE k == bitshift.cnt
           w == Loaded
           sreg == bitshift.sreg
           lowest == Bit(sreg, 0)
           new_bit == IF (Rotating /\ lowest = 1) \/ Counting THEN 1 ELSE 0
           below(m) == {j \in 0 .. m - 1 : Bit(w, j) = 1}
<1>1. bitmanip'.cmd = bitmanip.cmd /\ bitmanip'.rs1 = bitmanip.rs1 /\ bitmanip'.sha = bitmanip.sha
  BY BitmanipControlled
<1>2. Loaded' = w /\ Counting' = Counting /\ Rotating' = Rotating
  BY <1>1 DEF Loaded, Counting, Rotating
<1>3. /\ bitshift'.sreg = new_bit * 2 ^ (XLEN - 1) + ShiftRight(sreg, 1)
      /\ bitshift'.cnt = (k + 1) % (2 * XLEN)
      /\ bitshift'.bcnt = (bitshift.bcnt + lowest) % (2 * XLEN)
      /\ bitshift'.cnt_max = bitshift.cnt_max
  BY SerialStep
<1>4. XLEN \in Nat /\ XLEN >= 4 /\ Positions = 0 .. XLEN - 1 /\ w \in Words /\ w \in Int
  BY Powers, LoadedWord DEF Positions
<1>5. /\ k \in 0 .. XLEN /\ sreg \in Words
      /\ bitshift.cnt_max = IF "cpop" \in bitmanip.cmd THEN XLEN ELSE bitmanip.sha
      /\ ~Counting => k <= bitshift.cnt_max
      /\ Counting => \A j \in 0 .. k - 1 : Bit(w, j) = 0
      /\ \A j \in Positions :
            Bit(sreg, j) = IF j + k < XLEN THEN Bit(w, j + k) ELSE Entering(j + k - XLEN)
      /\ bitshift.bcnt = Cardinality(below(k))
  BY DEF Progress
<1>6. Counting => Bit(sreg, 0) = 0
  BY DEF ShiftRuns, Counting
<1>7. ~Counting => k # bitshift.cnt_max
  BY DEF ShiftRuns, Counting
<1> HIDE DEF w, sreg
<1>8. k \in Positions /\ lowest = Bit(w, k) /\ lowest \in {0, 1}
  <2>1. k < XLEN
    <3>1. CASE Counting
      <4>1. k = XLEN => Bit(sreg, 0) = 1
        BY <1>4, <1>5, <3>1 DEF Entering
      <4> QED BY <1>4, <1>5, <1>6, <3>1, <4>1
    <3>2. CASE ~Counting
      BY <1>4, <1>5, <1>7, <3>2
    <3> QED BY <3>1, <3>2
  <2>2. 0 \in Positions /\ 0 + k = k
    BY <1>4, <1>5
  <2>3. lowest = Bit(w, k)
    BY <1>5, <2>1, <2>2
  <2> QED BY <1>4, <1>5, <2>1, <2>3, BitRange
<1>9. Cardinality(below(k)) \in 0 .. k /\ Cardinality(below(k + 1)) = Cardinality(below(k)) + Bit(w, k)
  BY <1>4, <1>8, OnesBelow
<1>10. bitshift'.cnt = k + 1 /\ bitshift'.bcnt = Cardinality(below(k + 1))
  <2> DEFINE c == Cardinality(below(k + 1))
             d == 2 * XLEN
  <2>1. /\ k + 1 \in Int /\ 0 <= k + 1 /\ k + 1 < d /\ d \in Nat \ {0}
        /\ c \in Int /\ 0 <= c /\ c < d /\ c = bitshift.bcnt + lowest
    BY <1>4, <1>5, <1>8, <1>9
  <2> HIDE DEF c, d
  <2>2. k + 1 = d * 0 + (k + 1) /\ c = d * 0 + c
    BY <2>1
  <2>3. (k + 1) % d = k + 1 /\ c % d = c
    BY <2>1, <2>2, Division
  <2> QED BY <1>3, <2>1, <2>3 DEF c, d
<1>11. new_bit \in {0, 1} /\ new_bit = Entering(k)
  BY <1>8 DEF Entering, w
<1> HIDE DEF new_bit
<1>12. /\ bitshift'.sreg \in Words
       /\ \A j \in Positions :
            Bit(bitshift'.sreg, j) = IF j + 1 < XLEN THEN Bit(sreg, j + 1) ELSE new_bit
  BY <1>3, <1>5, <1>11, ShiftedIn
<1>13. \A i : Entering(i)' = Entering(i)
  BY <1>2 DEF Entering, w
<1>14. ASSUME NEW j \in Positions
       PROVE  Bit(bitshift'.sreg, j) = IF j + (k + 1) < XLEN THEN Bit(w, j + (k + 1))
                                       ELSE Entering(j + (k + 1) - XLEN)
  <2>1. CASE j + 1 < XLEN
    <3>1. /\ j + 1 \in Positions /\ (j + 1) + k = j + (k + 1)
          /\ (j + 1) + k - XLEN = j + (k + 1) - XLEN
      BY <1>4, <1>8, <2>1
    <3>2. Bit(sreg, j + 1) = IF (j + 1) + k < XLEN THEN Bit(w, (j + 1) + k)
                             ELSE Entering((j + 1) + k - XLEN)
      BY <1>5, <3>1
    <3> QED BY <1>12, <2>1, <3>1, <3>2
  <2>2. CASE ~(j + 1 < XLEN)
    <3>1. j + (k + 1) - XLEN = k /\ ~(j + (k + 1) < XLEN)
      BY <1>4, <1>8, <2>2
    <3> QED BY <1>11, <1>12, <2>2, <3>1
  <2> QED BY <2>1, <2>2
<1>15. /\ bitshift'.cnt \in 0 .. XLEN
       /\ ~Counting => bitshift'.cnt <= bitshift'.cnt_max
       /\ Counting => \A j \in 0 .. bitshift'.cnt - 1 : Bit(w, j) = 0
  <2>1. k + 1 \in 0 .. XLEN /\ 0 .. (k + 1) - 1 = (0 .. k - 1) \union {k}
    BY <1>4, <1>8
  <2>2. ~Counting => k + 1 <= bitshift.cnt_max
    BY <1>4, <1>5, <1>7, <1>8
  <2> QED BY <1>3, <1>5, <1>6, <1>8, <1>10, <2>1, <2>2
<1> QED BY <1>1, <1>2, <1>3, <1>5, <1>10, <1>12, <1>13, <1>14, <1>15 DEF Progress, w

LEMMA ProgressEnds ==
    ASSUME ~program.fast, bitmanip.rs1 \in Words, bitmanip.sha \in Positions, Progress,
           ~ShiftRuns(program.fast)
    PROVE  Counted
<1> DEFINE k == bitshift.cnt
           sreg == bitshift.sreg
<1>1. XLEN \in Nat /\ Positions = 0 .. XLEN - 1 /\ 0 \in Positions /\ bitmanip.sha \in 0 .. XLEN
  BY Powers DEF Positions
<1>2. /\ k \in 0 .. XLEN /\ sreg \in Words
      /\ bitshift.cnt_max = IF "cpop" \in bitmanip.cmd THEN XLEN ELSE bitmanip.sha
      /\ Counting => \A j \in 0 .. k - 1 : Bit(Loaded, j) = 0
      /\ \A j \in Positions :
            Bit(sreg, j) = IF j + k < XLEN THEN Bit(Loaded, j + k) ELSE Entering(j + k - XLEN)
      /\ bitshift.bcnt = Cardinality({j \in 0 .. k - 1 : Bit(Loaded, j) = 1})
  BY DEF Progress
<1>3. ASSUME Counting PROVE FirstOne(Loaded, k)
  <2>1. Bit(sreg, 0) # 0
    BY <1>3 DEF ShiftRuns, Counting
  <2>2. Bit(sreg, 0) \in {0, 1}
    BY <1>1, <1>2, WordRange, BitRange
  <2>3. k < XLEN => Bit(Loaded, k) = 1
    BY <1>1, <1>2, <2>1, <2>2
  <2> QED BY <1>2, <1>3, <2>3 DEF FirstOne
<1>4. ~Counting => k = bitshift.cnt_max
  BY DEF ShiftRuns, Counting
<1>5. ASSUME bitmanip.cmd = {"cpop"}
      PROVE  bitshift.bcnt = Cardinality(Ones(bitmanip.rs1))
  <2>1. k = XLEN /\ Loaded = bitmanip.rs1
    BY <1>2, <1>4, <1>5 DEF Counting, Loaded
  <2> QED BY <1>1, <1>2, <2>1 DEF Ones
<1>6. ASSUME ~Counting, Rotating, "cpop" \notin bitmanip.cmd
      PROVE  sreg = RotatedRight(Loaded, bitmanip.sha)
  <2>1. k = bitmanip.sha
    BY <1>2, <1>4, <1>6
  <2>2. Loaded \in Words
    BY LoadedWord
  <2>3. /\ RotatedRight(Loaded, k) \in Words
        /\ \A j \in Positions :
             Bit(RotatedRight(Loaded, k), j)
               = IF j + k < XLEN THEN Bit(Loaded, j + k) ELSE Bit(Loaded, j + k - XLEN)
    BY <1>1, <2>1, <2>2, RotatedBits DEF RotatedRight
  <2>4. \A j \in Positions : Bit(sreg, j) = Bit(RotatedRight(Loaded, k), j)
    BY <1>2, <1>6, <2>3 DEF Entering
  <2> QED BY <1>2, <2>1, <2>3, <2>4, SameBits
<1>7. /\ bitmanip.cmd = {"clz"} => Counting /\ Loaded = Reversed(bitmanip.rs1)
      /\ bitmanip.cmd = {"ctz"} => Counting /\ Loaded = bitmanip.rs1
      /\ bitmanip.cmd = {"ror"} =>
           ~Counting /\ Rotating /\ "cpop" \notin bitmanip.cmd /\ Loaded = bitmanip.rs1
      /\ bitmanip.cmd = {"rol"} =>
           ~Counting /\ Rotating /\ "cpop" \notin bitmanip.cmd /\ Loaded = Reversed(bitmanip.rs1)
  BY DEF Counting, Rotating, Loaded
<1> QED BY <1>3, <1>5, <1>6, <1>7 DEF Counted

\* With FAST_SHIFT_EN all of it is there one period after the operands.
LEMMA FastEnds ==
    ASSUME Shapes, Clock, program.fast, bitmanip.rs1 \in Words,
           bitmanip'.cmd = bitmanip.cmd, bitmanip'.rs1 = bitmanip.rs1, bitmanip'.sha = bitmanip.sha
    PROVE  Counted'
<1>1. /\ bitshift'.bcnt = Cardinality(Ones(bitmanip.rs1))
      /\ bitshift'.cnt = IF "clz" \in bitmanip.cmd THEN LeadingZeros(bitmanip.rs1)
                         ELSE TrailingZeros(bitmanip.rs1)
      /\ bitshift'.sreg = IF "rol" \in bitmanip.cmd
                          THEN RotatedRight(Reversed(bitmanip.rs1), bitmanip.sha)
                          ELSE RotatedRight(bitmanip.rs1, bitmanip.sha)
  BY BitshiftRecord
<1>2. /\ FirstOne(Reversed(bitmanip.rs1), LeadingZeros(bitmanip.rs1))
      /\ FirstOne(bitmanip.rs1, TrailingZeros(bitmanip.rs1))
  BY CountsOfZeros
<1>3. bitmanip.cmd = {"clz"} => FirstOne(Reversed(bitmanip.rs1), bitshift'.cnt)
  BY <1>1, <1>2
<1>4. bitmanip.cmd = {"ctz"} => FirstOne(bitmanip.rs1, bitshift'.cnt)
  BY <1>1, <1>2
<1> QED BY <1>1, <1>3, <1>4 DEF Counted

LEMMA BitmanipHeldStep ==
    ASSUME IInv, Awaited, Operands, BitmanipHeld, Clock, ~abandoned'
    PROVE  BitmanipHeld'
<1>1. Shapes /\ BitmanipInvariant /\ BitmanipInvariant'
  BY BitmanipStep DEF IInv
<1>2. program'.fast = program.fast
  BY <1>1, ProgramStep DEF Clock
<1>3. rs.rs1 \in Words /\ ShiftAmount \in Positions
  BY AmountRange DEF Operands
<1>4. bitmanip.state # "S_IDLE" \/ bitmanip.valid =>
        BitmanipLatched /\ bitmanip.rs1 \in Words /\ bitmanip.sha \in Positions
  BY <1>3 DEF BitmanipHeld, BitmanipLatched
<1>5. bitmanip.start <=> bitmanip.state = "S_START_SHIFT"
  BY DEF BitmanipHeld
<1>6. ASSUME state = "ALU_WAIT", bitmanip'.cmd = Decoded(instr),
             bitmanip'.rs1 = rs.rs1, bitmanip'.rs2 = rs.rs2,
             bitmanip'.less = LessThan(rs.rs1, rs.rs2), bitmanip'.sha = ShiftAmount
      PROVE  BitmanipLatched'
  <2>1. i_reg' = i_reg /\ rs' = rs
    BY <1>6, Waiting DEF IInv
  <2>2. instr' = instr
    BY <2>1 DEF instr
  <2>3. /\ Decoded(instr)' = Decoded(instr)
        /\ LessThan(rs.rs1, rs.rs2)' = LessThan(rs.rs1, rs.rs2) /\ ShiftAmount' = ShiftAmount
    BY <2>1, <2>2 DEF LessThan, Unsigned, ShiftAmount, Opb, IsImmediate, Immediate
  <2> QED BY <1>6, <2>1, <2>3 DEF BitmanipLatched
<1>7. CASE bitmanip.state = "S_IDLE" /\ ~Start("bitmanip")
  <2>1. bitmanip'.state = "S_IDLE" /\ ~bitmanip'.valid /\ bitmanip'.start = bitmanip.start
    BY <1>1, <1>7, BitmanipRecord, BitmanipControlled
  <2> QED BY <1>5, <1>7, <2>1 DEF BitmanipHeld
<1>8. CASE bitmanip.state = "S_IDLE" /\ Start("bitmanip")
  <2>1. state = "ALU_WAIT"
    BY <1>8 DEF Awaited, Start
  <2>2. /\ bitmanip'.cmd = Decoded(instr)
        /\ bitmanip'.rs1 = rs.rs1 /\ bitmanip'.rs2 = rs.rs2
        /\ bitmanip'.less = LessThan(rs.rs1, rs.rs2) /\ bitmanip'.sha = ShiftAmount
        /\ bitmanip'.valid => Decoded(instr) \intersect MultiCycle = {}
        /\ bitmanip'.state # "S_START_SHIFT" => bitmanip'.start = bitmanip.start
        /\ bitmanip'.state = "S_START_SHIFT" => bitmanip'.start
        /\ bitmanip'.state = "S_BUSY_SHIFT" => program.fast
    BY <1>1, <1>8, BitmanipControlled
  <2>3. BitmanipLatched'
    BY <1>6, <2>1, <2>2
  <2>4. bitmanip'.start <=> bitmanip'.state = "S_START_SHIFT"
    BY <1>5, <1>8, <2>2, Zenon
  <2>5. bitmanip'.valid => Counted'
    BY <2>2 DEF Counted, MultiCycle
  <2> QED BY <1>2, <2>2, <2>3, <2>4, <2>5 DEF BitmanipHeld
<1>9. CASE bitmanip.state # "S_IDLE"
  <2>1. state = "ALU_WAIT"
    BY <1>9 DEF Awaited, Working
  <2>2. /\ bitmanip'.cmd = bitmanip.cmd
        /\ bitmanip'.rs1 = bitmanip.rs1 /\ bitmanip'.rs2 = bitmanip.rs2
        /\ bitmanip'.less = bitmanip.less /\ bitmanip'.sha = bitmanip.sha
    BY <1>1, <1>9, BitmanipControlled
  <2>3. BitmanipLatched'
    BY <1>4, <1>6, <1>9, <2>1, <2>2 DEF BitmanipLatched
  <2>4. bitmanip.rs1 \in Words /\ bitmanip.sha \in Positions /\ ~bitmanip.valid
    BY <1>1, <1>4, <1>9 DEF BitmanipInvariant
  <2>5. CASE bitmanip.state = "S_START_SHIFT"
    <3>1. bitmanip'.state = "S_BUSY_SHIFT" /\ ~bitmanip'.valid /\ bitmanip'.start = FALSE
      BY <1>1, <2>4, <2>5, BitmanipRecord, BitmanipControlled, Zenon
    <3>2. ~program.fast => Progress'
      BY <1>1, <1>5, <2>4, <2>5, ProgressBegins
    <3> QED BY <1>2, <2>3, <3>1, <3>2 DEF BitmanipHeld
  <2>6. CASE bitmanip.state = "S_BUSY_SHIFT"
    <3>1. /\ ~bitmanip.start /\ bitmanip'.start = bitmanip.start
          /\ bitmanip'.state = "S_BUSY_SHIFT" <=> ShiftRuns(program.fast)
      BY <1>1, <1>5, <2>6, BitmanipControlled
    <3>2. /\ bitmanip'.state \in {"S_IDLE", "S_BUSY_SHIFT"}
          /\ bitmanip'.valid => bitmanip'.state = "S_IDLE"
      BY <1>1, <2>6, BitmanipRecord DEF BitmanipInvariant
    <3>3. CASE program.fast
      <4>1. Counted'
        BY <1>1, <2>2, <2>4, <3>3, FastEnds
      <4> QED BY <1>2, <2>3, <3>1, <3>2, <3>3, <4>1 DEF BitmanipHeld
    <3>4. CASE ~program.fast
      <4>1. Progress
        BY <2>6, <3>4 DEF BitmanipHeld
      <4>2. ShiftRuns(program.fast) => Progress'
        BY <1>1, <2>4, <2>6, <3>1, <3>4, <4>1, ProgressGoesOn
      <4>3. ~ShiftRuns(program.fast) => Counted'
        <5> SUFFICES ASSUME ~ShiftRuns(program.fast) PROVE Counted'
          OBVIOUS
        <5>1. Counted
          BY <2>4, <3>4, <4>1, ProgressEnds
        <5>2. bitshift' = bitshift
          BY <1>1, <3>1, <3>4, SerialStep
        <5> QED BY <2>2, <5>1, <5>2 DEF Counted
      <4> QED BY <1>2, <2>3, <3>1, <3>2, <3>4, <4>2, <4>3 DEF BitmanipHeld
    <3> QED BY <3>3, <3>4
  <2> QED BY <1>1, <1>9, <2>5, <2>6 DEF BitmanipInvariant
<1> QED BY <1>7, <1>8, <1>9

\* The amount of sh1add, sh2add and sh3add.
Places == IF Bits(instr.funct3, 2, 1) = 0 THEN 1 ELSE Bits(instr.funct3, 2, 1)

BitmanipAnswer ==
    LET a == rs.rs1
        b == rs.rs2
        less == LessThan(a, b)
        result == bitmanip.result
        Is(op) == Decoded(instr) = {op}
    IN  /\ \A op \in Operations : Is(op) => result \in Words
        /\ Is("andn") => result = And(a, Not(b))
        /\ Is("orn") => result = Or(a, Not(b))
        /\ Is("xnor") => result = Xor(a, Not(b))
        /\ Is("min") => result = IF less THEN a ELSE b
        /\ Is("max") => result = IF less THEN b ELSE a
        /\ Is("clz") => FirstOne(Reversed(a), result)
        /\ Is("ctz") => FirstOne(a, result)
        /\ Is("cpop") => result = Cardinality(Ones(a))
        /\ Is("sextb") => result = SignExtended(a, BYTE)
        /\ Is("sexth") => result = SignExtended(a, 2 * BYTE)
        /\ Is("zexth") => result = Low(a, 2 * BYTE)
        /\ Is("ror") => result = RotatedRight(a, ShiftAmount)
        /\ Is("rol") => result = Reversed(RotatedRight(Reversed(a), ShiftAmount))
        /\ Is("orcb") => result = OrCombined(a)
        /\ Is("rev8") => result = ByteSwapped(a)
        /\ \A op \in {"sh1add", "sh2add", "sh3add"} :
              Is(op) => result = (b + ShiftLeft(a, Places)) % 2 ^ XLEN

\* An instruction that is decoded as one operation gives the result of that one.
LEMMA OneSelected ==
    ASSUME NEW i, NEW op, bitmanip.cmd = {op}, OperationResult(op, i) \in Words
    PROVE  SelectedResult(i) = OperationResult(op, i)
<1>1. UNION {Ones(OperationResult(o, i)) : o \in bitmanip.cmd} = Ones(OperationResult(op, i))
  OBVIOUS
<1> QED BY <1>1, WordOfOnes DEF SelectedResult

LEMMA SignExtendedWord ==
    ASSUME NEW a \in Nat, NEW n \in 0 .. XLEN
    PROVE  SignExtended(a, n) \in Words
<1> DEFINE low == Low(a, n)
           d == 2 ^ n
           m == 2 ^ XLEN
<1>1. XLEN \in 0 .. XLEN /\ low \in Words
  BY Powers, LowBits
<1>2. d \in Int /\ m \in Nat \ {0} /\ low \in Int
  BY <1>1, Powers, WordRange
<1> HIDE DEF d, m, low
<1>3. low - d \in Int
  BY <1>2
<1>4. (low - d) % m \in Int /\ 0 <= (low - d) % m /\ (low - d) % m < m
  BY <1>2, <1>3, DivMod
<1>5. (low - d) % m \in Words
  BY <1>2, <1>4 DEF Words, m
<1> QED BY <1>1, <1>5 DEF SignExtended, low, d, m

LEMMA SumWord ==
    ASSUME NEW a \in Int, NEW b \in Int
    PROVE  (a + b) % 2 ^ XLEN \in Words
<1> DEFINE m == 2 ^ XLEN
           s == a + b
<1>1. m \in Nat \ {0} /\ s \in Int
  <2>1. XLEN \in 0 .. XLEN
    BY Powers
  <2> QED BY <2>1, Powers
<1> HIDE DEF m, s
<1>2. s % m \in Int /\ 0 <= s % m /\ s % m < m
  BY <1>1, DivMod
<1> QED BY <1>1, <1>2 DEF Words, m, s

LEMMA OperationWord ==
    ASSUME Operands, BitmanipLatched, Counted, NEW op \in Operations, bitmanip.cmd = {op}
    PROVE  OperationResult(op, instr) \in Words
<1>1. /\ bitmanip.rs1 \in Words /\ bitmanip.rs2 \in Words /\ bitmanip.rs1 \in Nat
      /\ bitmanip.rs2 \in Nat /\ bitmanip.sha \in 0 .. XLEN /\ Reversed(bitmanip.rs1) \in Words
  BY AmountRange, WordRange, ReversedBits DEF Operands, BitmanipLatched
<1>2. XLEN \in Nat /\ BYTE \in 0 .. XLEN /\ 2 * BYTE \in 0 .. XLEN
  BY WordSizes
<1>3. op \in {"andn", "orn", "xnor"} => OperationResult(op, instr) \in Words
  BY LogicBits DEF OperationResult
<1>4. op \in {"clz", "ctz"} => OperationResult(op, instr) \in Words
  BY PlacesAreWords DEF OperationResult, Counted, FirstOne
<1>5. op = "cpop" => OperationResult(op, instr) \in Words
  <2>1. Ones(bitmanip.rs1) \subseteq 0 .. XLEN - 1
    BY DEF Ones, Positions
  <2>2. IsFiniteSet(0 .. XLEN - 1) /\ Cardinality(0 .. XLEN - 1) = XLEN
    <3>1. 0 \in Int /\ XLEN - 1 \in Int
      BY <1>2
    <3>2. /\ IsFiniteSet(0 .. XLEN - 1)
          /\ Cardinality(0 .. XLEN - 1) = IF 0 > XLEN - 1 THEN 0 ELSE (XLEN - 1) - 0 + 1
      BY <3>1, FS_Interval
    <3> QED BY <1>2, <3>2
  <2>3. /\ IsFiniteSet(Ones(bitmanip.rs1)) /\ Cardinality(Ones(bitmanip.rs1)) <= XLEN
    BY <2>1, <2>2, FS_Subset
  <2>4. Cardinality(Ones(bitmanip.rs1)) \in 0 .. XLEN
    BY <1>2, <2>3, FS_CardinalityType
  <2> QED BY <2>4, PlacesAreWords DEF OperationResult, Counted
<1>6. op \in {"min", "max"} => OperationResult(op, instr) \in Words
  BY <1>1 DEF OperationResult
<1>7. op \in {"sextb", "sexth"} => OperationResult(op, instr) \in Words
  BY <1>1, <1>2, SignExtendedWord DEF OperationResult
<1>8. op = "zexth" => OperationResult(op, instr) \in Words
  BY <1>1, <1>2, LowBits DEF OperationResult
<1>9. op \in {"ror", "rol"} => OperationResult(op, instr) \in Words
  <2>1. op = "ror" => bitshift.sreg \in Words
    BY <1>1, RotatedBits DEF Counted, RotatedRight
  <2>2. Reversed(bitshift.sreg) \in Words
    BY ReversedBits
  <2> QED BY <2>1, <2>2 DEF OperationResult
<1>10. op \in {"orcb", "rev8"} => OperationResult(op, instr) \in Words
  BY OnesOfWord DEF OperationResult, OrCombined, ByteSwapped
<1>11. op \in {"sh1add", "sh2add", "sh3add"} => OperationResult(op, instr) \in Words
  <2> DEFINE places == IF Bits(instr.funct3, 2, 1) = 0 THEN 1 ELSE Bits(instr.funct3, 2, 1)
             left == ShiftLeft(bitmanip.rs1, places)
  <2>1. places \in 0 .. XLEN
    <3>1. instr.funct3 \in 0 .. 7
      BY DEF Operands, Entries, Instructions, instr
    <3>2. Bits(instr.funct3, 2, 1) \in 0 .. 3
      BY <3>1 DEF Bits
    <3> QED BY <3>2, Powers
  <2>2. left \in Int /\ bitmanip.rs2 \in Int
    BY <1>1, <2>1, ShiftLeftBits, WordRange
  <2> HIDE DEF left
  <2>3. (bitmanip.rs2 + left) % 2 ^ XLEN \in Words
    BY <2>2, SumWord
  <2> QED BY <2>3 DEF OperationResult, ShiftedAdd, left
<1> QED BY <1>3, <1>4, <1>5, <1>6, <1>7, <1>8, <1>9, <1>10, <1>11 DEF Operations

LEMMA BitmanipAnswers ==
    ASSUME IInv, Operands, BitmanipHeld, Clock, Valid("bitmanip"), rs' = rs, i_reg' = i_reg
    PROVE  BitmanipAnswer'
<1> DEFINE a == rs.rs1
           b == rs.rs2
           less == LessThan(a, b)
           Value(op) == OperationResult(op, instr)
<1>1. bitmanip.valid /\ BitmanipLatched /\ Counted
  BY DEF Valid, BitmanipHeld
<1>2. bitmanip'.result = SelectedResult(instr)
  BY <1>1, BitmanipControlled DEF IInv
<1>3. /\ bitmanip.cmd = Decoded(instr) /\ bitmanip.rs1 = a /\ bitmanip.rs2 = b
      /\ bitmanip.less = less /\ bitmanip.sha = ShiftAmount
  BY <1>1 DEF BitmanipLatched
<1>4. ASSUME NEW op \in Operations, Decoded(instr) = {op}
      PROVE  bitmanip'.result = Value(op) /\ Value(op) \in Words
  BY <1>1, <1>2, <1>3, <1>4, OperationWord, OneSelected
<1>5. /\ instr' = instr /\ rs'.rs1 = a /\ rs'.rs2 = b
  BY DEF instr
<1>6. /\ Decoded(instr)' = Decoded(instr) /\ LessThan(rs.rs1, rs.rs2)' = less
      /\ ShiftAmount' = ShiftAmount /\ Places' = Places
  BY <1>5 DEF LessThan, Unsigned, ShiftAmount, Opb, IsImmediate, Immediate, Places
<1>7. /\ Value("andn") = And(a, Not(b)) /\ Value("orn") = Or(a, Not(b))
      /\ Value("xnor") = Xor(a, Not(b))
      /\ Value("sextb") = SignExtended(a, BYTE) /\ Value("sexth") = SignExtended(a, 2 * BYTE)
      /\ Value("zexth") = Low(a, 2 * BYTE)
      /\ Value("orcb") = OrCombined(a) /\ Value("rev8") = ByteSwapped(a)
      /\ \A op \in {"sh1add", "sh2add", "sh3add"} :
            Value(op) = (b + ShiftLeft(a, Places)) % 2 ^ XLEN
  BY <1>3 DEF OperationResult, ShiftedAdd, Places
<1>8. /\ bitmanip.cmd = {"min"} => Value("min") = IF less THEN a ELSE b
      /\ bitmanip.cmd = {"max"} => Value("max") = IF less THEN b ELSE a
  <2>1. less \in BOOLEAN
    <3>1. a \in Words /\ b \in Words
      BY DEF Operands
    <3>2. a \in Int /\ b \in Int /\ 2 ^ XLEN \in Int
      BY <3>1, WordRange, HighestBit
    <3>3. Signed(a) \in Int /\ Signed(b) \in Int
      BY <3>1, <3>2, HighestBit
    <3>4. (a < b) \in BOOLEAN
      BY <3>2
    <3>5. (Signed(a) < Signed(b)) \in BOOLEAN
      BY <3>3
    <3>6. less = (a < b) \/ less = (Signed(a) < Signed(b))
      BY Zenon DEF LessThan
    <3> HIDE DEF less, a, b
    <3> QED BY <3>4, <3>5, <3>6, Zenon
  <2>2. Value("min") = (IF less # ("max" \in bitmanip.cmd) THEN a ELSE b) /\ Value("max") = Value("min")
    BY <1>3 DEF OperationResult
  <2> HIDE DEF less, Value
  <2>3. bitmanip.cmd = {"min"} => ("max" \in bitmanip.cmd) = FALSE
    OBVIOUS
  <2>4. bitmanip.cmd = {"max"} => ("max" \in bitmanip.cmd) = TRUE
    OBVIOUS
  <2> QED BY <2>1, <2>2, <2>3, <2>4
<1>9. /\ bitmanip.cmd = {"clz"} => FirstOne(Reversed(a), Value("clz"))
      /\ bitmanip.cmd = {"ctz"} => FirstOne(a, Value("ctz"))
      /\ bitmanip.cmd = {"cpop"} => Value("cpop") = Cardinality(Ones(a))
      /\ bitmanip.cmd = {"ror"} => Value("ror") = RotatedRight(a, ShiftAmount)
      /\ bitmanip.cmd = {"rol"} => Value("rol") = Reversed(RotatedRight(Reversed(a), ShiftAmount))
  BY <1>1, <1>3 DEF OperationResult, Counted
<1> HIDE DEF a, b, less, Value
<1> DEFINE Is(op) == Decoded(instr) = {op}
           result == bitmanip'.result
<1>10. /\ \A op \in Operations : Is(op) => result \in Words
       /\ Is("andn") => result = And(a, Not(b))
       /\ Is("orn") => result = Or(a, Not(b))
       /\ Is("xnor") => result = Xor(a, Not(b))
       /\ Is("sextb") => result = SignExtended(a, BYTE)
       /\ Is("sexth") => result = SignExtended(a, 2 * BYTE)
       /\ Is("zexth") => result = Low(a, 2 * BYTE)
       /\ Is("orcb") => result = OrCombined(a)
       /\ Is("rev8") => result = ByteSwapped(a)
       /\ \A op \in {"sh1add", "sh2add", "sh3add"} :
             Is(op) => result = (b + ShiftLeft(a, Places)) % 2 ^ XLEN
  BY <1>4, <1>7 DEF Operations
<1>11. /\ Is("min") => result = IF less THEN a ELSE b
       /\ Is("max") => result = IF less THEN b ELSE a
       /\ Is("clz") => FirstOne(Reversed(a), result)
       /\ Is("ctz") => FirstOne(a, result)
       /\ Is("cpop") => result = Cardinality(Ones(a))
       /\ Is("ror") => result = RotatedRight(a, ShiftAmount)
       /\ Is("rol") => result = Reversed(RotatedRight(Reversed(a), ShiftAmount))
  BY <1>3, <1>4, <1>8, <1>9 DEF Operations
<1> QED BY <1>5, <1>6, <1>10, <1>11 DEF BitmanipAnswer, a, b, less

-----------------------------------------------------------------------------
(* When a result is written it is that of the instruction.                 *)

FloatAnswer ==
    LET a == OperandData(rs.rs1)
        b == OperandData(rs.rs2)
        less == LessThan(rs.rs1, rs.rs2)
    IN  /\ OperationOf(instr) = "class" => fpu.result = ClassResult(a)
        /\ OperationOf(instr) = "comp" =>
              fpu.result = Comparison(instr.funct3, a, b, rs.rs1 = rs.rs2, less)
        /\ OperationOf(instr) = "sgnj" => fpu.result = SignInjected(instr.funct3, a, b)
        /\ OperationOf(instr) = "minmax" => fpu.result = MinMax(instr.funct3, a, b, less)

Answered ==
    ctrl.wb =>
      /\ ctrl.copro <=> CoProcessorOf(instr) # "none"
      /\ CoProcessorOf(instr) # "none" =>
            /\ CoProcessorOf(instr) \in CoProcessors
            /\ \A cp \in CoProcessors \ {CoProcessorOf(instr)} : Result(cp) = 0
      /\ CoProcessorOf(instr) = "shifter" =>
            Result("shifter") = Shifted(rs.rs1, ShiftAmount, Right, Arithmetic)
      /\ CoProcessorOf(instr) = "bitmanip" => BitmanipAnswer
      /\ CoProcessorOf(instr) = "fpu" => FloatAnswer

LEMMA FloatAnswers ==
    ASSUME IInv, Awaited, FloatHeld, Clock, Valid("fpu"), rs' = rs, i_reg' = i_reg
    PROVE  FloatAnswer'
<1>1. fpu'.result = FpuResult(instr)
  BY FloatControl DEF IInv, Valid, OutputGate
<1>2. /\ fpu.op = OperationOf(instr)
      /\ fpu.a = OperandData(rs.rs1) /\ fpu.b = OperandData(rs.rs2)
      /\ fpu.equal = (rs.rs1 = rs.rs2) /\ fpu.less = LessThan(rs.rs1, rs.rs2)
  BY DEF FloatHeld, Valid
<1>3. /\ instr' = instr
      /\ LessThan(rs.rs1, rs.rs2)' = LessThan(rs.rs1, rs.rs2)
  BY DEF instr, LessThan, Unsigned
<1> DEFINE a == OperandData(rs.rs1)
           b == OperandData(rs.rs2)
           less == LessThan(rs.rs1, rs.rs2)
<1>4. /\ OperationOf(instr) = "class" => fpu'.result = ClassResult(a)
      /\ OperationOf(instr) = "comp" =>
            fpu'.result = Comparison(instr.funct3, a, b, rs.rs1 = rs.rs2, less)
      /\ OperationOf(instr) = "sgnj" => fpu'.result = SignInjected(instr.funct3, a, b)
      /\ OperationOf(instr) = "minmax" => fpu'.result = MinMax(instr.funct3, a, b, less)
  BY <1>1, <1>2 DEF FpuResult
<1> QED BY <1>3, <1>4 DEF FloatAnswer

LEMMA AnsweredStep ==
    ASSUME IInv, Awaited, Operands, Shifting, BitmanipHeld, FloatHeld, Clock, ~abandoned'
    PROVE  Answered'
<1> SUFFICES ASSUME ctrl'.wb PROVE Answered'
  BY DEF Answered
<1>1. CASE EXECUTE
  <2>1. i_reg' = i_reg /\ CoProcessorOf(instr) = "none" /\ ctrl' = [Off EXCEPT !.wb = TRUE]
    BY <1>1 DEF EXECUTE, Off
  <2>2. ~ctrl'.copro
    BY <2>1 DEF Off
  <2>3. CoProcessorOf(instr)' = "none"
    BY <2>1 DEF instr
  <2> QED BY <2>2, <2>3 DEF Answered
<1>2. CASE ALU_WAIT
  <2>1. /\ state = "ALU_WAIT" /\ i_reg' = i_reg /\ rs' = rs /\ ctrl'.copro /\ idone
        /\ CoProcessorOf(instr) \in CoProcessors
    BY <1>2, Waiting DEF ALU_WAIT, IInv
  <2>2. /\ CoProcessorOf(instr)' = CoProcessorOf(instr)
        /\ ShiftAmount' = ShiftAmount /\ Right' = Right /\ Arithmetic' = Arithmetic
    BY <2>1 DEF ShiftAmount, Opb, IsImmediate, Immediate, Right, Arithmetic, instr
  <2>3. /\ Valid(CoProcessorOf(instr))
        /\ \A cp \in CoProcessors \ {CoProcessorOf(instr)} : Result(cp)' = 0
    BY <2>1, OneAnswers
  <2>4. CoProcessorOf(instr) # "none"
    BY <2>1 DEF CoProcessors
  <2>5. CoProcessorOf(instr) = "shifter" =>
           Result("shifter")' = Shifted(rs.rs1, ShiftAmount, Right, Arithmetic)
    BY <2>3, ShiftAnswer
  <2>6. CoProcessorOf(instr) = "fpu" => FloatAnswer'
    BY <2>1, <2>3, FloatAnswers
  <2>7. CoProcessorOf(instr) = "bitmanip" => BitmanipAnswer'
    BY <2>1, <2>3, BitmanipAnswers
  <2> QED BY <2>1, <2>2, <2>3, <2>4, <2>5, <2>6, <2>7 DEF Answered
<1>3. EXECUTE \/ ALU_WAIT
  BY DEF Clock, ExecuteEngine, SYS_WAIT, DispatchWaits, Dispatch, DispatchTraps, TRAP_ENTER,
         TRAP_EXECUTE, Off
<1> QED BY <1>1, <1>2, <1>3

\* As long as no trapped instruction has left a co-processor running, each of
\* them is at work with the operands of the instruction that waits for it.
Holds == Operands /\ (abandoned \/ (Shifting /\ BitmanipHeld /\ FloatHeld /\ Answered))

LEMMA HoldsInit == Init => Holds
<1> SUFFICES ASSUME Init PROVE Holds
  OBVIOUS
<1>1. ~shifter.busy /\ ~fpu.busy /\ ~fpu.valid /\ ~ctrl.wb
  BY DEF Init, ShifterInit, FpuInit, Off
<1>2. bitmanip.state = "S_IDLE" /\ ~bitmanip.valid /\ ~bitmanip.start
  BY DEF Init, BitmanipInit
<1> QED BY <1>1, <1>2, OperandsInit DEF Holds, Shifting, BitmanipHeld, FloatHeld, Answered

LEMMA HoldsStep == IInv /\ Holds /\ [Clock]_vars => Holds'
<1> SUFFICES ASSUME IInv, Holds, [Clock]_vars PROVE Holds'
  OBVIOUS
<1>1. CASE Clock
  <2>1. Operands'
    BY <1>1, OperandsStep DEF IInv, Holds
  <2>2. ASSUME ~abandoned' PROVE Shifting' /\ BitmanipHeld' /\ FloatHeld' /\ Answered'
    <3>1. ~abandoned
      BY <1>1, <2>2, Zenon DEF Clock, Registers
    <3>2. Awaited /\ Awaited'
      BY <1>1, <2>2, <3>1, InvariantStep DEF IInv
    <3> QED BY <1>1, <2>2, <3>1, <3>2, ShiftingStep, BitmanipHeldStep, FloatHeldStep,
               AnsweredStep DEF Holds
  <2> QED BY <2>1, <2>2 DEF Holds
<1>2. CASE UNCHANGED vars
  <2>1. /\ program' = program /\ i_reg' = i_reg /\ rs' = rs /\ state' = state /\ ctrl' = ctrl
        /\ abandoned' = abandoned /\ shifter' = shifter /\ bitmanip' = bitmanip /\ fpu' = fpu
        /\ cmd_ff' = cmd_ff /\ bitshift' = bitshift
    BY <1>2 DEF vars, control_vars, fpu_vars
  <2>2. instr' = instr /\ Opb' = Opb
    BY <2>1 DEF instr, Opb, IsImmediate, Immediate
  <2>3. /\ ShiftAmount' = ShiftAmount /\ Right' = Right /\ Arithmetic' = Arithmetic
        /\ LessThan(rs.rs1, rs.rs2)' = LessThan(rs.rs1, rs.rs2)
    BY <2>1, <2>2 DEF ShiftAmount, Right, Arithmetic, LessThan, Unsigned
  <2>4. \A cp \in CoProcessors : Result(cp)' = Result(cp)
    BY <2>1 DEF Result, ShifterResult
  <2>5. FloatAnswer' = FloatAnswer
    BY <2>1, <2>2, <2>3 DEF FloatAnswer
  <2>8. BitmanipAnswer' = BitmanipAnswer
    BY <2>1, <2>2, <2>3 DEF BitmanipAnswer, Places
  <2>9. BitmanipHeld' = BitmanipHeld
    <3>1. BitmanipLatched' = BitmanipLatched
      BY <2>1, <2>2, <2>3 DEF BitmanipLatched
    <3>2. Counted' = Counted
      BY <2>1 DEF Counted
    <3>3. Loaded' = Loaded /\ Counting' = Counting /\ Rotating' = Rotating
      BY <2>1 DEF Loaded, Counting, Rotating
    <3>4. Progress' = Progress
      BY <2>1, <3>3 DEF Progress, Entering
    <3> QED BY <2>1, <3>1, <3>2, <3>4 DEF BitmanipHeld
  <2>6. Operands' = Operands /\ Shifting' = Shifting /\ FloatHeld' = FloatHeld
    BY <2>1, <2>2, <2>3 DEF Operands, Shifting, FloatHeld
  <2>7. Answered' = Answered
    BY <2>1, <2>2, <2>3, <2>4, <2>5, <2>8 DEF Answered, CoProcessors
  <2> QED BY <2>1, <2>6, <2>7, <2>9 DEF Holds
<1> QED BY <1>1, <1>2

\* Whenever an instruction writes its result, every co-processor but its own is
\* silent, and its own gives the result for the operands that the register file
\* had when the instruction was dispatched, however many periods ago.
THEOREM Answering == Spec => []Holds
BY HoldsInit, HoldsStep, Invariant, PTL DEF Spec

-----------------------------------------------------------------------------
(* The operations of the base instructions.                                *)

\* Sums and differences of words are those of the integers they stand for.
LEMMA SignedSum ==
    ASSUME NEW a \in Words, NEW b \in Words
    PROVE  /\ (Signed(a) + Signed(b)) % 2 ^ XLEN = (a + b) % 2 ^ XLEN
           /\ (Signed(a) - Signed(b)) % 2 ^ XLEN = (a - b) % 2 ^ XLEN
<1> DEFINE m == 2 ^ XLEN
<1>1. m \in Nat \ {0} /\ a \in Int /\ b \in Int
  BY Powers, WordRange
<1>2. Signed(a) \in {a, a - m} /\ Signed(b) \in {b, b - m}
  BY HighestBit
<1> HIDE DEF m
<1>3. PICK k \in {0, 1} : Signed(a) = a - k * m
  BY <1>1, <1>2
<1>4. PICK l \in {0, 1} : Signed(b) = b - l * m
  BY <1>1, <1>2
<1> DEFINE s == a + b
           d == a - b
           i == -k - l
           j == l - k
<1>5. /\ s \in Int /\ d \in Int /\ i \in Int /\ j \in Int
      /\ Signed(a) + Signed(b) = s + m * i /\ Signed(a) - Signed(b) = d + m * j
  BY <1>1, <1>3, <1>4
<1> HIDE DEF s, d, i, j
<1>6. (s + m * i) % m = s % m /\ (d + m * j) % m = d % m
  BY <1>1, <1>5, MultipleAdded
<1> QED BY <1>5, <1>6 DEF s, d, m

LEMMA BaseAnswers ==
    ASSUME Operands, Answered, ctrl.wb,
           IsAluOperation(instr), IsLegal(instr), ~IsBitmanip(instr)
    PROVE  AluResult = BaseResult
<1> DEFINE n == SecondOperand % XLEN
<1>1. /\ rs.rs1 = a0 /\ Opb = SecondOperand /\ ShiftAmount = n
      /\ a0 \in Words /\ SecondOperand \in Words /\ n \in Positions /\ n \in 0 .. XLEN
  <2>1. rs.rs1 = a0 /\ rs.rs2 = a1
    BY DEF Operands, a0, a1
  <2>2. Opb = SecondOperand
    BY <2>1 DEF Opb, SecondOperand, IsImmediate, IsAluOperation, opcode_alu_c, opcode_alui_c
  <2>3. rs.rs1 \in Words
    BY DEF Operands
  <2> QED BY <2>1, <2>2, <2>3, AmountRange DEF ShiftAmount
<1>2. /\ instr.funct3 \in 0 .. 7
      /\ IsImmediate <=> instr.opcode # opcode_alu_c
  BY DEF Operands, Entries, Instructions, instr, IsImmediate, IsAluOperation, opcode_alu_c,
         opcode_alui_c
<1>3. /\ instr.funct3 = 5 => instr.funct7 \in {0, 32}
      /\ instr.funct3 = 0 /\ ~IsImmediate => instr.funct7 \in {0, 32}
  BY <1>2 DEF IsLegal, IsAluOperation, IsBitmanip, IsBaseFunct7, IsShiftFunct3, IsImmediate,
         opcode_alu_c, opcode_alui_c, opcode_fop_c
<1>4. Bits(0, 5, 5) = 0 /\ Bits(32, 5, 5) = 1
  BY DEF Bits
<1> HIDE DEF n
<1>5. CASE IsShiftFunct3(instr)
  <2>1. CoProcessorOf(instr) = "shifter" /\ instr.funct3 \in {1, 5}
    BY <1>5 DEF CoProcessorOf, IsShiftFunct3, IsAluOperation, opcode_alu_c, opcode_alui_c,
                opcode_fop_c
  <2>2. Result("shifter") = Shifted(a0, n, Right, Arithmetic)
    BY <1>1, <2>1 DEF Answered
  <2>3. Result("shifter") \in Words
    BY <1>1, <2>2, ShiftedBits
  <2>4. AluResult = Shifted(a0, n, Right, Arithmetic)
    <3>1. /\ "shifter" \in CoProcessors /\ ctrl.copro
          /\ \A cp \in CoProcessors \ {"shifter"} : Result(cp) = 0
      BY <2>1 DEF Answered
    <3> QED BY <2>2, <2>3, <3>1, OnlyResult
  <2>5. CASE instr.funct3 = 1
    <3>1. ~Right
      BY <2>5 DEF Right, Bits
    <3>2. BaseResult = ShiftLeft(a0, n)
      BY <2>5 DEF BaseResult, n
    <3> QED BY <2>4, <3>1, <3>2 DEF Shifted
  <2>6. CASE instr.funct3 = 5
    <3>1. Right
      BY <2>6 DEF Right, Bits
    <3>2. BaseResult = IF instr.funct7 = 0 THEN a0 \div 2 ^ n
                       ELSE (Signed(a0) \div 2 ^ n) % 2 ^ XLEN
      BY <2>6 DEF BaseResult, n
    <3>3. AluResult = ShiftedRight(a0, n, Arithmetic)
      BY <2>4, <3>1 DEF Shifted
    <3>4. CASE instr.funct7 = 0
      <4>1. ~Arithmetic
        BY <1>4, <3>4 DEF Arithmetic
      <4> QED BY <3>2, <3>3, <3>4, <4>1 DEF ShiftedRight, ShiftRight
    <3>5. CASE instr.funct7 = 32
      <4>1. Arithmetic
        BY <1>4, <3>5 DEF Arithmetic
      <4>2. ShiftedRight(a0, n, TRUE) = (Signed(a0) \div 2 ^ n) % 2 ^ XLEN
        BY <1>1, SignedShift
      <4> QED BY <3>2, <3>3, <3>5, <4>1, <4>2 DEF ShiftedRight
    <3> QED BY <1>3, <2>6, <3>4, <3>5
  <2> QED BY <2>1, <2>5, <2>6
<1>6. CASE ~IsShiftFunct3(instr)
  <2>1. CoProcessorOf(instr) = "none"
    BY <1>6 DEF CoProcessorOf, IsAluOperation, opcode_alu_c, opcode_alui_c, opcode_fop_c
  <2>2. AluResult = CoreResult
    BY <2>1 DEF Answered, AluResult
  <2>3. instr.funct3 \in {0, 2, 3, 4, 6, 7}
    BY <1>2, <1>6 DEF IsShiftFunct3
  <2>4. CASE instr.funct3 = 0
    <3> DEFINE b == SecondOperand
               subtracts == ~IsImmediate /\ instr.funct7 # 0
    <3>1. CoreResult = IF subtracts THEN (a0 - b) % 2 ^ XLEN ELSE (a0 + b) % 2 ^ XLEN
      BY <1>1, <1>3, <1>4, <2>4 DEF CoreResult
    <3>2. BaseResult = (Signed(a0) + (IF subtracts THEN -Signed(b) ELSE Signed(b))) % 2 ^ XLEN
      BY <1>2, <2>4 DEF BaseResult
    <3>3. Signed(a0) \in Int /\ Signed(b) \in Int
      BY <1>1, HighestBit, WordRange, Powers
    <3>4. Signed(a0) + (-Signed(b)) = Signed(a0) - Signed(b)
      BY <3>3
    <3>5. /\ (Signed(a0) + Signed(b)) % 2 ^ XLEN = (a0 + b) % 2 ^ XLEN
          /\ (Signed(a0) - Signed(b)) % 2 ^ XLEN = (a0 - b) % 2 ^ XLEN
      BY <1>1, SignedSum
    <3> HIDE DEF b, subtracts
    <3>6. CASE subtracts
      <4>1. BaseResult = (Signed(a0) + (-Signed(b))) % 2 ^ XLEN
        BY <3>2, <3>6
      <4> QED BY <2>2, <3>1, <3>4, <3>5, <3>6, <4>1
    <3>7. CASE ~subtracts
      <4>1. BaseResult = (Signed(a0) + Signed(b)) % 2 ^ XLEN
        BY <3>2, <3>7
      <4> QED BY <2>2, <3>1, <3>5, <3>7, <4>1
    <3> QED BY <3>6, <3>7
  <2>5. CASE instr.funct3 = 2
    <3>1. ~Unsigned
      BY <2>5 DEF Unsigned, Bits
    <3> QED BY <1>1, <2>2, <2>5, <3>1 DEF CoreResult, BaseResult, LessThan
  <2>6. CASE instr.funct3 = 3
    <3>1. Unsigned
      BY <2>6 DEF Unsigned, Bits
    <3> QED BY <1>1, <2>2, <2>6, <3>1 DEF CoreResult, BaseResult, LessThan
  <2>7. CASE instr.funct3 \in {4, 6, 7}
    BY <1>1, <2>2, <2>7 DEF CoreResult, BaseResult
  <2> QED BY <2>3, <2>4, <2>5, <2>6, <2>7
<1> QED BY <1>5, <1>6

\* The shifts, the additions, the comparisons and the logic of the base
\* instructions give what C computes from the operands the instruction was
\* dispatched with, serial or fast, after however many periods: the control
\* unit, the arbiter, the shifter and the ALU together.
THEOREM BaseOperationsAreThoseOfC == Spec => []BaseOperations
<1>1. Holds => BaseOperations
  BY BaseAnswers DEF Holds, BaseOperations, Undisturbed, Writes
<1> QED BY <1>1, Answering, PTL

-----------------------------------------------------------------------------
(* The emulations of bit manipulation.                                     *)

-----------------------------------------------------------------------------
(* The emulation functions give the same.                                  *)

LEMMA ZerosEmulated ==
    ASSUME NEW a \in Words, NEW n
    PROVE  /\ FirstOne(Reversed(a), n) => n = IF a = 0 THEN XLEN ELSE riscv_emulate_clz(a)
           /\ FirstOne(a, n) => n = IF a = 0 THEN XLEN ELSE riscv_emulate_ctz(a)
<1>1. XLEN \in Nat /\ XLEN >= 4 /\ Positions = 0 .. XLEN - 1 /\ 0 \in Positions /\ XLEN - 1 \in Positions
  BY Powers DEF Positions
<1>3. ASSUME FirstOne(Reversed(a), n)
      PROVE  n = IF a = 0 THEN XLEN ELSE riscv_emulate_clz(a)
  <2>1. Reversed(a) \in Words
    BY ReversedWord
  <2>2. ASSUME NEW c \in Positions
        PROVE  Bit(ShiftLeft(a, c), XLEN - 1) = Bit(Reversed(a), c)
    <3>1. c \in 0 .. XLEN /\ XLEN - 1 >= c
      BY <1>1
    <3>2. Bit(ShiftLeft(a, c), XLEN - 1) = Bit(a, XLEN - 1 - c)
      BY <1>1, <3>1, ShiftLeftBits
    <3> QED BY <3>2, ReversedWord
  <2>3. riscv_emulate_clz(a) = Min({c \in Positions : Bit(Reversed(a), c) = 1})
    <3>1. {c \in Positions : Bit(ShiftLeft(a, c), XLEN - 1) = 1}
             = {c \in Positions : Bit(Reversed(a), c) = 1}
      BY <2>2
    <3> QED BY <3>1 DEF riscv_emulate_clz
  <2>4. Reversed(a) = 0 <=> a = 0
    <3>1. ASSUME a = 0 PROVE Reversed(a) = 0
      <4>1. \A j \in Positions : Bit(Reversed(a), j) = Bit(0, j)
        BY <3>1, ReversedWord, ZeroBits
      <4> QED BY <2>1, <4>1, ZeroBits, SameBits
    <3>2. ASSUME Reversed(a) = 0 PROVE a = 0
      <4>1. ASSUME NEW j \in Positions PROVE Bit(a, j) = Bit(0, j)
        <5>1. XLEN - 1 - j \in Positions /\ XLEN - 1 - (XLEN - 1 - j) = j
          BY <1>1
        <5>2. Bit(Reversed(a), XLEN - 1 - j) = Bit(a, j)
          BY <5>1, ReversedWord
        <5> QED BY <3>2, <5>1, <5>2, ZeroBits
      <4> QED BY <4>1, ZeroBits, SameBits
    <3> QED BY <3>1, <3>2
  <2>5. /\ n = XLEN <=> Reversed(a) = 0
        /\ n < XLEN => Min({c \in Positions : Bit(Reversed(a), c) = 1}) = n
    BY <1>3, <2>1, FirstOneFound
  <2>6. n \in 0 .. XLEN
    BY <1>3 DEF FirstOne
  <2> QED BY <1>1, <2>3, <2>4, <2>5, <2>6
<1>4. ASSUME FirstOne(a, n)
      PROVE  n = IF a = 0 THEN XLEN ELSE riscv_emulate_ctz(a)
  <2>1. ASSUME NEW c \in Positions
        PROVE  Bit(ShiftRight(a, c), 0) = Bit(a, c)
    <3>1. c \in 0 .. XLEN /\ 0 + c < XLEN /\ 0 + c = c
      BY <1>1
    <3> QED BY <1>1, <3>1, ShiftRightBits
  <2>2. riscv_emulate_ctz(a) = Min({c \in Positions : Bit(a, c) = 1})
    <3>1. {c \in Positions : Bit(ShiftRight(a, c), 0) = 1} = {c \in Positions : Bit(a, c) = 1}
      BY <2>1
    <3> QED BY <3>1 DEF riscv_emulate_ctz
  <2>3. /\ n = XLEN <=> a = 0
        /\ n < XLEN => Min({c \in Positions : Bit(a, c) = 1}) = n
    BY <1>4, FirstOneFound
  <2>4. n \in 0 .. XLEN
    BY <1>4 DEF FirstOne
  <2> QED BY <1>1, <2>2, <2>3, <2>4
<1> QED BY <1>3, <1>4

LEMMA OnesEmulated ==
    ASSUME NEW a \in Words
    PROVE  riscv_emulate_cpop(a) = Cardinality(Ones(a))
<1>1. XLEN \in Nat /\ XLEN >= 4 /\ Positions = 0 .. XLEN - 1 /\ 0 \in Positions
  BY Powers DEF Positions
<1>2. ASSUME NEW c \in Positions
      PROVE  Bit(ShiftRight(a, c), 0) = Bit(a, c)
  <2>1. c \in 0 .. XLEN /\ 0 + c < XLEN /\ 0 + c = c
    BY <1>1
  <2> QED BY <1>1, <2>1, ShiftRightBits
<1>3. {c \in Positions : Bit(ShiftRight(a, c), 0) = 1} = {c \in Positions : Bit(a, c) = 1}
  BY <1>2
<1> QED BY <1>3 DEF riscv_emulate_cpop, Ones

\* The bits of C's cast are those of the low part with its sign in front.
LEMMA SignEmulated ==
    ASSUME NEW a \in Words, NEW n \in 1 .. XLEN
    PROVE  LET tmp == Low(a, n)
           IN  SignExtended(a, n)
                 = IF Bit(tmp, n - 1) = 1 THEN tmp + 2 ^ XLEN - 2 ^ n ELSE tmp
<1> DEFINE tmp == Low(a, n)
           d == 2 ^ n
           m == 2 ^ XLEN
<1>1. n \in 0 .. XLEN /\ XLEN \in 0 .. XLEN /\ n - 1 \in Positions /\ n - 1 < n /\ a \in Nat
  BY Powers, WordRange DEF Positions
<1>2. Bit(tmp, n - 1) = Bit(a, n - 1) /\ tmp \in Words /\ tmp < d
  BY <1>1, LowBits
<1>3. d \in Nat \ {0} /\ m \in Nat \ {0} /\ d <= m /\ tmp \in Int /\ 0 <= tmp
  <2>1. tmp \in Int /\ 0 <= tmp
    BY <1>2, WordRange
  <2>2. n \in 0 .. XLEN /\ XLEN \in 0 .. XLEN /\ n \in 0 .. XLEN
    BY <1>1
  <2>3. d \in Nat /\ d >= 1 /\ m \in Nat /\ m >= 1 /\ d <= m
    BY <2>2, Powers
  <2> QED BY <2>1, <2>3
<1>4. (tmp - d) % m = tmp + m - d
  <2> HIDE DEF tmp, d, m
  <2>1. tmp - d = m * (-1) + (tmp + m - d) /\ tmp - d \in Int /\ tmp + m - d \in Int
        /\ 0 <= tmp + m - d /\ tmp + m - d < m /\ -1 \in Int
    BY <1>2, <1>3
  <2> QED BY <1>3, <2>1, Division
<1> QED BY <1>2, <1>4 DEF SignExtended

LEMMA RotationsEmulated ==
    ASSUME NEW a \in Words, NEW s \in Int
    PROVE  /\ RotatedRight(a, s % XLEN) = riscv_emulate_ror(a, s)
           /\ Reversed(RotatedRight(Reversed(a), s % XLEN)) = riscv_emulate_rol(a, s)
<1> DEFINE n == s % XLEN
           k == XLEN - n
           ror == Or(ShiftRight(a, n), ShiftLeft(a, k))
           rol == Or(ShiftLeft(a, n), ShiftRight(a, k))
<1>1. XLEN \in Nat \ {0} /\ Positions = 0 .. XLEN - 1 /\ a \in Int
  BY Powers, WordRange DEF Positions
<1>2. n \in Positions /\ n \in 0 .. XLEN /\ k \in 0 .. XLEN
  <2>1. n \in Int /\ 0 <= n /\ n < XLEN
    BY <1>1, DivMod
  <2> QED BY <1>1, <2>1
<1>3. riscv_emulate_ror(a, s) = ror /\ riscv_emulate_rol(a, s) = rol
  BY DEF riscv_emulate_ror, riscv_emulate_rol
<1> HIDE DEF n
<1>4. ror \in Words /\ rol \in Words
  BY LogicBits
<1>5. \A j \in 0 .. XLEN : Bit(a, j) \in {0, 1}
  BY <1>1, BitRange
<1>6. RotatedRight(a, n) = ror
  <2>1. ASSUME NEW j \in Positions
        PROVE  Bit(ror, j) = IF j + n < XLEN THEN Bit(a, j + n) ELSE Bit(a, j + n - XLEN)
    <3>1. /\ Bit(ShiftRight(a, n), j) = IF j + n < XLEN THEN Bit(a, j + n) ELSE 0
          /\ Bit(ShiftLeft(a, k), j) = IF j >= k THEN Bit(a, j - k) ELSE 0
      BY <1>2, ShiftRightBits, ShiftLeftBits
    <3>2. Bit(ror, j) = IF Bit(ShiftRight(a, n), j) = 1 \/ Bit(ShiftLeft(a, k), j) = 1 THEN 1 ELSE 0
      BY LogicBits
    <3>3. CASE j + n < XLEN
      <4>1. ~(j >= k) /\ j + n \in 0 .. XLEN
        BY <1>1, <1>2, <3>3
      <4> QED BY <1>5, <3>1, <3>2, <3>3, <4>1
    <3>4. CASE ~(j + n < XLEN)
      <4>1. j >= k /\ j - k \in 0 .. XLEN /\ j - k = j + n - XLEN
        BY <1>1, <1>2, <3>4
      <4> QED BY <1>5, <3>1, <3>2, <3>4, <4>1
    <3> QED BY <3>3, <3>4
  <2>2. /\ RotatedRight(a, n) \in Words
        /\ \A j \in Positions :
             Bit(RotatedRight(a, n), j)
               = IF j + n < XLEN THEN Bit(a, j + n) ELSE Bit(a, j + n - XLEN)
    BY <1>2, RotatedBits DEF RotatedRight
  <2> QED BY <1>4, <2>1, <2>2, SameBits
<1>7. Reversed(RotatedRight(Reversed(a), n)) = rol
  <2> DEFINE r == Reversed(a)
             t == RotatedRight(r, n)
  <2>1. r \in Words /\ \A j \in Positions : Bit(r, j) = Bit(a, XLEN - 1 - j)
    BY ReversedWord
  <2>2. /\ t \in Words
        /\ \A j \in Positions : Bit(t, j) = IF j + n < XLEN THEN Bit(r, j + n) ELSE Bit(r, j + n - XLEN)
    BY <1>2, <2>1, RotatedBits DEF RotatedRight
  <2> HIDE DEF r, t
  <2>3. Reversed(t) \in Words /\ \A j \in Positions : Bit(Reversed(t), j) = Bit(t, XLEN - 1 - j)
    BY <2>2, ReversedWord
  <2>4. ASSUME NEW j \in Positions PROVE Bit(Reversed(t), j) = Bit(rol, j)
    <3>1. /\ Bit(ShiftLeft(a, n), j) = IF j >= n THEN Bit(a, j - n) ELSE 0
          /\ Bit(ShiftRight(a, k), j) = IF j + k < XLEN THEN Bit(a, j + k) ELSE 0
      BY <1>2, ShiftRightBits, ShiftLeftBits
    <3>2. Bit(rol, j) = IF Bit(ShiftLeft(a, n), j) = 1 \/ Bit(ShiftRight(a, k), j) = 1 THEN 1 ELSE 0
      BY LogicBits
    <3> DEFINE i == XLEN - 1 - j
    <3>3. i \in Positions /\ Bit(Reversed(t), j) = Bit(t, i)
      BY <1>1, <2>3
    <3>4. CASE j >= n
      <4>1. i + n < XLEN /\ i + n \in Positions /\ XLEN - 1 - (i + n) = j - n /\ j - n \in 0 .. XLEN
            /\ ~(j + k < XLEN)
        BY <1>1, <1>2, <3>3, <3>4
      <4>2. Bit(t, i) = Bit(a, j - n)
        BY <2>1, <2>2, <3>3, <4>1
      <4> QED BY <1>5, <3>1, <3>2, <3>3, <3>4, <4>1, <4>2
    <3>5. CASE ~(j >= n)
      <4>1. /\ ~(i + n < XLEN) /\ i + n - XLEN \in Positions /\ XLEN - 1 - (i + n - XLEN) = j + k
            /\ j + k \in 0 .. XLEN /\ j + k < XLEN
        BY <1>1, <1>2, <3>3, <3>5
      <4>2. Bit(t, i) = Bit(a, j + k)
        BY <2>1, <2>2, <3>3, <4>1
      <4> QED BY <1>5, <3>1, <3>2, <3>3, <3>5, <4>1, <4>2
    <3> QED BY <3>4, <3>5
  <2> QED BY <1>4, <2>3, <2>4, SameBits DEF t, r
<1> QED BY <1>3, <1>6, <1>7 DEF n

\* The four bytes of a word.
LEMMA BytePlaces ==
    ASSUME NEW j \in Positions
    PROVE  /\ j \div BYTE \in {0, 1, 2, 3}
           /\ j = BYTE * (j \div BYTE) + (j % BYTE) /\ j % BYTE \in 0 .. BYTE - 1
           /\ \A c \in {0, 1, 2, 3} : j \div BYTE = c <=> j \in c * BYTE .. (c + 1) * BYTE - 1
<1>1. BYTE \in Nat \ {0} /\ j \in Int /\ 0 <= j /\ j < 4 * BYTE
  BY WordSizes DEF Positions
<1>2. ASSUME NEW c \in {0, 1, 2, 3}, BYTE * c <= j, j < BYTE * c + BYTE
      PROVE  j \div BYTE = c
  <2>1. j = BYTE * c + (j - BYTE * c) /\ j - BYTE * c \in Int /\ 0 <= j - BYTE * c
        /\ j - BYTE * c < BYTE /\ c \in Int
    BY <1>1, <1>2
  <2> QED BY <1>1, <2>1, Division
<1>3. \E c \in {0, 1, 2, 3} : BYTE * c <= j /\ j < BYTE * c + BYTE
  BY <1>1
<1>4. j \div BYTE \in {0, 1, 2, 3}
  BY <1>2, <1>3
<1>5. j = BYTE * (j \div BYTE) + (j % BYTE) /\ j % BYTE \in 0 .. BYTE - 1
  BY <1>1, DivMod
<1>6. ASSUME NEW c \in {0, 1, 2, 3}
      PROVE  j \div BYTE = c <=> j \in c * BYTE .. (c + 1) * BYTE - 1
  <2> DEFINE r == j % BYTE
  <2>1. j = BYTE * (j \div BYTE) + r /\ 0 <= r /\ r < BYTE /\ r \in Int
    BY <1>1, <1>5
  <2> HIDE DEF r
  <2>2. j \div BYTE = c => j \in c * BYTE .. (c + 1) * BYTE - 1
    BY <1>1, <2>1
  <2>3. j \in c * BYTE .. (c + 1) * BYTE - 1 => BYTE * c <= j /\ j < BYTE * c + BYTE
    BY <1>1
  <2> QED BY <1>2, <2>2, <2>3
<1> QED BY <1>4, <1>5, <1>6

LEMMA MaskedByte ==
    ASSUME NEW a \in Words, NEW c \in {0, 1, 2, 3}, NEW j \in Positions
    PROVE  /\ Bit(ByteMask(c), j) = IF j \div BYTE = c THEN 1 ELSE 0
           /\ Bit(And(a, ByteMask(c)), j) = IF j \div BYTE = c THEN Bit(a, j) ELSE 0
<1>1. Bit(ByteMask(c), j) = IF j \div BYTE = c THEN 1 ELSE 0
  BY BytePlaces, OnesOfWord DEF ByteMask
<1>2. Bit(a, j) \in {0, 1}
  <2>1. a \in Int /\ j \in 0 .. XLEN
    BY WordRange, Powers DEF Positions
  <2> QED BY <2>1, BitRange
<1> QED BY <1>1, <1>2, LogicBits

LEMMA BytesCombined ==
    ASSUME NEW a \in Words
    PROVE  OrCombined(a) = riscv_emulate_orcb(a)
<1> DEFINE masked(c) == And(a, ByteMask(c))
           tmp(c) == IF masked(c) # 0 THEN ByteMask(c) ELSE 0
           combined == Or(Or(tmp(0), tmp(1)), Or(tmp(2), tmp(3)))
           some(c) == \E k \in Positions : k \div BYTE = c /\ Bit(a, k) = 1
<1>1. riscv_emulate_orcb(a) = combined
  BY DEF riscv_emulate_orcb
<1>2. ASSUME NEW c \in {0, 1, 2, 3}
      PROVE  masked(c) # 0 <=> some(c)
  <2>1. masked(c) \in Words
    BY LogicBits
  <2>2. \A k \in Positions : Bit(masked(c), k) = IF k \div BYTE = c THEN Bit(a, k) ELSE 0
    BY MaskedByte
  <2> HIDE DEF masked
  <2>3. ASSUME ~some(c) PROVE masked(c) = 0
    <3>1. ASSUME NEW k \in Positions PROVE Bit(masked(c), k) = Bit(0, k)
      <4>1. Bit(a, k) \in {0, 1}
        <5>1. a \in Int /\ k \in 0 .. XLEN
          BY WordRange, Powers DEF Positions
        <5> QED BY <5>1, BitRange
      <4> QED BY <2>2, <2>3, <4>1, ZeroBits
    <3> QED BY <2>1, <3>1, ZeroBits, SameBits
  <2>4. ASSUME masked(c) = 0 PROVE ~some(c)
    BY <2>2, <2>4, ZeroBits
  <2> QED BY <2>3, <2>4
<1>3. ASSUME NEW c \in {0, 1, 2, 3}, NEW j \in Positions
      PROVE  Bit(tmp(c), j) = IF some(c) /\ j \div BYTE = c THEN 1 ELSE 0
  <2>1. Bit(ByteMask(c), j) = IF j \div BYTE = c THEN 1 ELSE 0
    BY MaskedByte
  <2> HIDE DEF masked, some
  <2> QED BY <1>2, <2>1, ZeroBits
<1> HIDE DEF tmp
<1>4. ASSUME NEW j \in Positions
      PROVE  Bit(combined, j) = IF some(j \div BYTE) THEN 1 ELSE 0
  <2>1. Bit(combined, j) = IF \E c \in {0, 1, 2, 3} : Bit(tmp(c), j) = 1 THEN 1 ELSE 0
    <3>1. /\ Bit(Or(tmp(0), tmp(1)), j) = IF Bit(tmp(0), j) = 1 \/ Bit(tmp(1), j) = 1 THEN 1 ELSE 0
          /\ Bit(Or(tmp(2), tmp(3)), j) = IF Bit(tmp(2), j) = 1 \/ Bit(tmp(3), j) = 1 THEN 1 ELSE 0
      BY LogicBits
    <3>2. Bit(combined, j) = IF \/ Bit(Or(tmp(0), tmp(1)), j) = 1
                                \/ Bit(Or(tmp(2), tmp(3)), j) = 1 THEN 1 ELSE 0
      BY LogicBits
    <3> QED BY <3>1, <3>2
  <2>2. j \div BYTE \in {0, 1, 2, 3}
    BY BytePlaces
  <2> HIDE DEF some, combined
  <2> QED BY <1>3, <2>1, <2>2
<1>5. ASSUME NEW j \in Positions
      PROVE  Bit(OrCombined(a), j) = IF some(j \div BYTE) THEN 1 ELSE 0
  BY OnesOfWord DEF OrCombined
<1>6. OrCombined(a) \in Words /\ combined \in Words
  BY OnesOfWord, LogicBits DEF OrCombined
<1> HIDE DEF some, combined
<1> QED BY <1>1, <1>4, <1>5, <1>6, SameBits

\* Each of the four terms moves one byte to its place.
LEMMA BytesSwapped ==
    ASSUME NEW a \in Words
    PROVE  ByteSwapped(a) = riscv_emulate_rev8(a)
<1> DEFINE masked(c) == And(a, ByteMask(c))
           tmp_a == ShiftLeft(masked(0), 3 * BYTE)
           tmp_b == ShiftLeft(masked(1), BYTE)
           tmp_c == ShiftRight(masked(2), BYTE)
           tmp_d == ShiftRight(masked(3), 3 * BYTE)
           swapped == Or(Or(tmp_a, tmp_b), Or(tmp_c, tmp_d))
           from(j) == (3 - (j \div BYTE)) * BYTE + (j % BYTE)
<1>1. riscv_emulate_rev8(a) = swapped
  BY DEF riscv_emulate_rev8
<1>2. /\ BYTE \in Nat \ {0} /\ XLEN = 4 * BYTE /\ Positions = 0 .. XLEN - 1
      /\ BYTE \in 0 .. XLEN /\ 3 * BYTE \in 0 .. XLEN /\ a \in Int
  BY WordSizes, WordRange DEF Positions
<1>3. ASSUME NEW c \in {0, 1, 2, 3}
      PROVE  /\ masked(c) \in Words
             /\ \A k \in Positions :
                  Bit(masked(c), k) = IF k \div BYTE = c THEN Bit(a, k) ELSE 0
  BY LogicBits, MaskedByte
<1> HIDE DEF masked
<1>4. ASSUME NEW j \in Positions
      PROVE  /\ from(j) \in Positions /\ from(j) \div BYTE = 3 - (j \div BYTE)
             /\ from(from(j)) = j
  <2> DEFINE c == j \div BYTE
             r == j % BYTE
             i == from(j)
  <2>1. c \in {0, 1, 2, 3} /\ j = BYTE * c + r /\ r \in 0 .. BYTE - 1 /\ i = (3 - c) * BYTE + r
    BY BytePlaces
  <2> HIDE DEF c, r, i
  <2>2. i \in Int /\ i = BYTE * (3 - c) + r /\ 3 - c \in Int /\ r \in Int /\ 0 <= r /\ r < BYTE
    BY <1>2, <2>1
  <2>3. i \div BYTE = 3 - c /\ i % BYTE = r
    <3> DEFINE q == 3 - c
    <3>1. i \in Int /\ q \in Int /\ r \in Int /\ i = BYTE * q + r /\ 0 <= r /\ r < BYTE
          /\ BYTE \in Nat \ {0}
      BY <1>2, <2>2
    <3> HIDE DEF q
    <3>2. i \div BYTE = q /\ i % BYTE = r
      BY <3>1, Division
    <3> QED BY <3>2 DEF q
  <2>4. i \in Positions
    BY <1>2, <2>1
  <2>5. (3 - (i \div BYTE)) * BYTE + (i % BYTE) = j
    BY <1>2, <2>1, <2>3
  <2> QED BY <2>3, <2>4, <2>5 DEF c, i
<1>5. ASSUME NEW j \in Positions
      PROVE  Bit(ByteSwapped(a), j) = IF Bit(a, from(j)) = 1 THEN 1 ELSE 0
  <2>1. Bit(ByteSwapped(a), j) = IF j \in {from(i) : i \in Ones(a)} THEN 1 ELSE 0
    BY OnesOfWord DEF ByteSwapped
  <2> HIDE DEF from
  <2>2. j \in {from(i) : i \in Ones(a)} <=> from(j) \in Ones(a)
    BY <1>4 DEF Ones
  <2> QED BY <1>4, <2>1, <2>2 DEF Ones
<1>6. ASSUME NEW j \in Positions
      PROVE  Bit(swapped, j) = IF Bit(a, from(j)) = 1 THEN 1 ELSE 0
  <2> DEFINE c == j \div BYTE
             i == from(j)
  <2>1. /\ c \in {0, 1, 2, 3} /\ j \in c * BYTE .. (c + 1) * BYTE - 1
        /\ i = j + (3 - 2 * c) * BYTE /\ i \in Positions /\ i \div BYTE = 3 - c
    <3> DEFINE r == j % BYTE
    <3>1. c \in {0, 1, 2, 3} /\ j = BYTE * c + r /\ r \in 0 .. BYTE - 1
          /\ j \in c * BYTE .. (c + 1) * BYTE - 1
      BY BytePlaces
    <3>2. i = (3 - c) * BYTE + r
      OBVIOUS
    <3>3. i \in Positions /\ i \div BYTE = 3 - c
      BY <1>4
    <3> HIDE DEF r, c, i
    <3>4. i = j + (3 - 2 * c) * BYTE
      BY <1>2, <3>1, <3>2
    <3> QED BY <3>1, <3>3, <3>4
  <2>2. /\ Bit(tmp_a, j) = IF j >= 3 * BYTE THEN Bit(masked(0), j - 3 * BYTE) ELSE 0
        /\ Bit(tmp_b, j) = IF j >= BYTE THEN Bit(masked(1), j - BYTE) ELSE 0
        /\ Bit(tmp_c, j) = IF j + BYTE < XLEN THEN Bit(masked(2), j + BYTE) ELSE 0
        /\ Bit(tmp_d, j) = IF j + 3 * BYTE < XLEN THEN Bit(masked(3), j + 3 * BYTE) ELSE 0
    BY <1>2, <1>3, ShiftLeftBits, ShiftRightBits
  <2>3. /\ Bit(Or(tmp_a, tmp_b), j) = IF Bit(tmp_a, j) = 1 \/ Bit(tmp_b, j) = 1 THEN 1 ELSE 0
        /\ Bit(Or(tmp_c, tmp_d), j) = IF Bit(tmp_c, j) = 1 \/ Bit(tmp_d, j) = 1 THEN 1 ELSE 0
        /\ Bit(swapped, j) = IF Bit(Or(tmp_a, tmp_b), j) = 1 \/ Bit(Or(tmp_c, tmp_d), j) = 1
                             THEN 1 ELSE 0
    BY LogicBits
  <2> HIDE DEF c, i, from, tmp_a, tmp_b, tmp_c, tmp_d, swapped
  <2>4. ASSUME NEW m \in {0, 1, 2, 3}, NEW k \in Positions, k \div BYTE = m
        PROVE  Bit(masked(m), k) = Bit(a, k)
    BY <1>3, <2>4
  <2>5. ASSUME NEW m \in {0, 1, 2, 3}, NEW k \in Positions, k \notin m * BYTE .. (m + 1) * BYTE - 1
        PROVE  Bit(masked(m), k) = 0
    BY <1>3, <2>5, BytePlaces
  <2>6. CASE c = 3
    <3>1. /\ j >= 3 * BYTE /\ j - 3 * BYTE = i /\ i \div BYTE = 0
          /\ j >= BYTE /\ j - BYTE \in Positions /\ j - BYTE \notin 1 * BYTE .. (1 + 1) * BYTE - 1
          /\ ~(j + BYTE < XLEN) /\ ~(j + 3 * BYTE < XLEN)
      BY <1>2, <2>1, <2>6
    <3>2. Bit(tmp_a, j) = Bit(a, i) /\ Bit(tmp_b, j) = 0 /\ Bit(tmp_c, j) = 0 /\ Bit(tmp_d, j) = 0
      BY <2>1, <2>2, <2>4, <2>5, <3>1
    <3> QED BY <2>3, <3>2 DEF i
  <2>7. CASE c = 2
    <3>1. /\ ~(j >= 3 * BYTE) /\ j >= BYTE /\ j - BYTE = i /\ i \div BYTE = 1
          /\ j + BYTE < XLEN /\ j + BYTE \in Positions /\ j + BYTE \notin 2 * BYTE .. (2 + 1) * BYTE - 1
          /\ ~(j + 3 * BYTE < XLEN)
      BY <1>2, <2>1, <2>7
    <3>2. Bit(tmp_a, j) = 0 /\ Bit(tmp_b, j) = Bit(a, i) /\ Bit(tmp_c, j) = 0 /\ Bit(tmp_d, j) = 0
      BY <2>1, <2>2, <2>4, <2>5, <3>1
    <3> QED BY <2>3, <3>2 DEF i
  <2>8. CASE c = 1
    <3>1. /\ ~(j >= 3 * BYTE) /\ j >= BYTE /\ j - BYTE \in Positions
          /\ j - BYTE \notin 1 * BYTE .. (1 + 1) * BYTE - 1
          /\ j + BYTE < XLEN /\ j + BYTE = i /\ i \div BYTE = 2
          /\ ~(j + 3 * BYTE < XLEN)
      BY <1>2, <2>1, <2>8
    <3>2. Bit(tmp_a, j) = 0 /\ Bit(tmp_b, j) = 0 /\ Bit(tmp_c, j) = Bit(a, i) /\ Bit(tmp_d, j) = 0
      BY <2>1, <2>2, <2>4, <2>5, <3>1
    <3> QED BY <2>3, <3>2 DEF i
  <2>9. CASE c = 0
    <3>1. /\ ~(j >= 3 * BYTE) /\ ~(j >= BYTE)
          /\ j + BYTE < XLEN /\ j + BYTE \in Positions /\ j + BYTE \notin 2 * BYTE .. (2 + 1) * BYTE - 1
          /\ j + 3 * BYTE < XLEN /\ j + 3 * BYTE = i /\ i \div BYTE = 3
      BY <1>2, <2>1, <2>9
    <3>2. Bit(tmp_a, j) = 0 /\ Bit(tmp_b, j) = 0 /\ Bit(tmp_c, j) = 0 /\ Bit(tmp_d, j) = Bit(a, i)
      BY <2>1, <2>2, <2>4, <2>5, <3>1
    <3> QED BY <2>3, <3>2 DEF i
  <2> QED BY <2>1, <2>6, <2>7, <2>8, <2>9
<1>7. ByteSwapped(a) \in Words /\ swapped \in Words
  BY OnesOfWord, LogicBits DEF ByteSwapped
<1> HIDE DEF swapped, from
<1>8. \A j \in Positions : Bit(ByteSwapped(a), j) = Bit(swapped, j)
  BY <1>5, <1>6
<1> QED BY <1>1, <1>7, <1>8, SameBits

-----------------------------------------------------------------------------
(* How the intrinsics for bit manipulation are decoded.                    *)

\* The register of the second operand.
LEMMA RegisterA1 == REG_ADDR("a1") = 11
<1>1. "a1" \in {XNames[12], CallingNames[12]}
  BY DEF XNames, CallingNames
<1>2. ASSUME NEW n \in 0 .. 31, "a1" \in {XNames[n + 1], CallingNames[n + 1]}
      PROVE  n = 11
  BY <1>2, SMTT(60) DEF XNames, CallingNames
<1>3. 11 \in 0 .. 31 /\ 11 + 1 = 12
  OBVIOUS
<1> QED BY <1>1, <1>2, <1>3 DEF REG_ADDR

\* The fields that the decoders look at.
HasFields(i, funct7, rs2, funct3, opcode) ==
    i.funct7 = funct7 /\ i.rs2 = rs2 /\ i.funct3 = funct3 /\ i.opcode = opcode

LEMMA BitmanipEncoded ==
    /\ HasFields(riscv_intrinsic_clz, 48, 0, 1, 19)
    /\ HasFields(riscv_intrinsic_ctz, 48, 1, 1, 19)
    /\ HasFields(riscv_intrinsic_cpop, 48, 2, 1, 19)
    /\ HasFields(riscv_intrinsic_sextb, 48, 4, 1, 19)
    /\ HasFields(riscv_intrinsic_sexth, 48, 5, 1, 19)
    /\ HasFields(riscv_intrinsic_rori20, 48, 20, 5, 19)
    /\ HasFields(riscv_intrinsic_orcb, 20, 7, 5, 19)
    /\ HasFields(riscv_intrinsic_rev8, 52, 24, 5, 19)
    /\ HasFields(riscv_intrinsic_zexth, 4, 0, 4, 51)
    /\ HasFields(riscv_intrinsic_min, 5, 11, 4, 51)
    /\ HasFields(riscv_intrinsic_minu, 5, 11, 5, 51)
    /\ HasFields(riscv_intrinsic_max, 5, 11, 6, 51)
    /\ HasFields(riscv_intrinsic_maxu, 5, 11, 7, 51)
    /\ HasFields(riscv_intrinsic_andn, 32, 11, 7, 51)
    /\ HasFields(riscv_intrinsic_orn, 32, 11, 6, 51)
    /\ HasFields(riscv_intrinsic_xnor, 32, 11, 4, 51)
    /\ HasFields(riscv_intrinsic_rol, 48, 11, 1, 51)
    /\ HasFields(riscv_intrinsic_ror, 48, 11, 5, 51)
    /\ HasFields(riscv_intrinsic_sh1add, 16, 11, 2, 51)
    /\ HasFields(riscv_intrinsic_sh2add, 16, 11, 4, 51)
    /\ HasFields(riscv_intrinsic_sh3add, 16, 11, 6, 51)
<1> USE DEF HasFields, CUSTOM_INSTR_R1_TYPE, CUSTOM_INSTR_R2_TYPE, CMD_WORD_R2_TYPE
<1>1. /\ HasFields(riscv_intrinsic_clz, 48, 0, 1, 19)
      /\ HasFields(riscv_intrinsic_ctz, 48, 1, 1, 19)
      /\ HasFields(riscv_intrinsic_cpop, 48, 2, 1, 19)
      /\ HasFields(riscv_intrinsic_sextb, 48, 4, 1, 19)
      /\ HasFields(riscv_intrinsic_sexth, 48, 5, 1, 19)
      /\ HasFields(riscv_intrinsic_rori20, 48, 20, 5, 19)
      /\ HasFields(riscv_intrinsic_orcb, 20, 7, 5, 19)
      /\ HasFields(riscv_intrinsic_rev8, 52, 24, 5, 19)
      /\ HasFields(riscv_intrinsic_zexth, 4, 0, 4, 51)
  BY DEF riscv_intrinsic_clz, riscv_intrinsic_ctz, riscv_intrinsic_cpop, riscv_intrinsic_sextb,
         riscv_intrinsic_sexth, riscv_intrinsic_rori20, riscv_intrinsic_orcb,
         riscv_intrinsic_rev8, riscv_intrinsic_zexth
<1>2. /\ HasFields(riscv_intrinsic_min, 5, 11, 4, 51)
      /\ HasFields(riscv_intrinsic_minu, 5, 11, 5, 51)
      /\ HasFields(riscv_intrinsic_max, 5, 11, 6, 51)
      /\ HasFields(riscv_intrinsic_maxu, 5, 11, 7, 51)
      /\ HasFields(riscv_intrinsic_andn, 32, 11, 7, 51)
      /\ HasFields(riscv_intrinsic_orn, 32, 11, 6, 51)
      /\ HasFields(riscv_intrinsic_xnor, 32, 11, 4, 51)
  BY RegisterA1
     DEF riscv_intrinsic_min, riscv_intrinsic_minu, riscv_intrinsic_max, riscv_intrinsic_maxu,
         riscv_intrinsic_andn, riscv_intrinsic_orn, riscv_intrinsic_xnor
<1>3. /\ HasFields(riscv_intrinsic_rol, 48, 11, 1, 51)
      /\ HasFields(riscv_intrinsic_ror, 48, 11, 5, 51)
      /\ HasFields(riscv_intrinsic_sh1add, 16, 11, 2, 51)
      /\ HasFields(riscv_intrinsic_sh2add, 16, 11, 4, 51)
      /\ HasFields(riscv_intrinsic_sh3add, 16, 11, 6, 51)
  BY RegisterA1
     DEF riscv_intrinsic_rol, riscv_intrinsic_ror, riscv_intrinsic_sh1add,
         riscv_intrinsic_sh2add, riscv_intrinsic_sh3add
<1> QED BY <1>1, <1>2, <1>3

\* The tests of the decoder, one by one.
LEMMA DecoderTests ==
    ASSUME NEW i
    PROVE  LET group  == Bits(i.funct7, 5, 4)
               bit7   == Bits(i.funct7, 2, 2)
               counts == group = 3 /\ bit7 = 0
               f3     == i.funct3
               number == Bits(i.rs2, 2, 0)
           IN  /\ DecodedAs(i, "andn") <=> group = 2 /\ Bits(f3, 1, 0) = 3
               /\ DecodedAs(i, "orn") <=> group = 2 /\ Bits(f3, 1, 0) = 2
               /\ DecodedAs(i, "xnor") <=> group = 2 /\ Bits(f3, 1, 0) = 0
               /\ DecodedAs(i, "max") <=> group = 0 /\ Bits(i.funct7, 0, 0) = 1 /\ Bits(f3, 1, 1) = 1
               /\ DecodedAs(i, "min") <=> group = 0 /\ Bits(i.funct7, 0, 0) = 1 /\ Bits(f3, 1, 1) = 0
               /\ DecodedAs(i, "zexth") <=> group = 0 /\ Bits(i.funct7, 0, 0) = 0
               /\ DecodedAs(i, "orcb") <=> group = 1 /\ bit7 = 1
               /\ DecodedAs(i, "clz") <=> counts /\ number = 0
               /\ DecodedAs(i, "ctz") <=> counts /\ number = 1
               /\ DecodedAs(i, "cpop") <=> counts /\ number = 2
               /\ DecodedAs(i, "sextb") <=> counts /\ Bits(f3, 2, 2) = 0 /\ number = 4
               /\ DecodedAs(i, "sexth") <=> counts /\ Bits(f3, 2, 2) = 0 /\ number = 5
               /\ DecodedAs(i, "rol") <=> counts /\ f3 = 1 /\ Bits(i.opcode, 5, 5) = 1
               /\ DecodedAs(i, "ror") <=> counts /\ f3 = 5
               /\ DecodedAs(i, "rev8") <=> group = 3 /\ bit7 = 1
               /\ DecodedAs(i, "sh1add") <=> group = 1 /\ bit7 = 0 /\ Bits(f3, 2, 1) = 1
               /\ DecodedAs(i, "sh2add") <=> group = 1 /\ bit7 = 0 /\ Bits(f3, 2, 1) = 2
               /\ DecodedAs(i, "sh3add") <=> group = 1 /\ bit7 = 0 /\ Bits(f3, 2, 1) = 3
BY DEF DecodedAs

\* None of these instructions is taken for two operations.
LEMMA DecodedOnce ==
    ASSUME NEW i
    PROVE  /\ HasFields(i, 48, 0, 1, 19) => Decoded(i) = {"clz"}
           /\ HasFields(i, 48, 1, 1, 19) => Decoded(i) = {"ctz"}
           /\ HasFields(i, 48, 2, 1, 19) => Decoded(i) = {"cpop"}
           /\ HasFields(i, 48, 4, 1, 19) => Decoded(i) = {"sextb"}
           /\ HasFields(i, 48, 5, 1, 19) => Decoded(i) = {"sexth"}
           /\ HasFields(i, 48, 20, 5, 19) => Decoded(i) = {"ror"}
           /\ HasFields(i, 20, 7, 5, 19) => Decoded(i) = {"orcb"}
           /\ HasFields(i, 52, 24, 5, 19) => Decoded(i) = {"rev8"}
           /\ HasFields(i, 4, 0, 4, 51) => Decoded(i) = {"zexth"}
           /\ \A funct3 \in {4, 5} : HasFields(i, 5, 11, funct3, 51) => Decoded(i) = {"min"}
           /\ \A funct3 \in {6, 7} : HasFields(i, 5, 11, funct3, 51) => Decoded(i) = {"max"}
           /\ HasFields(i, 32, 11, 7, 51) => Decoded(i) = {"andn"}
           /\ HasFields(i, 32, 11, 6, 51) => Decoded(i) = {"orn"}
           /\ HasFields(i, 32, 11, 4, 51) => Decoded(i) = {"xnor"}
           /\ HasFields(i, 48, 11, 1, 51) => Decoded(i) = {"rol"}
           /\ HasFields(i, 48, 11, 5, 51) => Decoded(i) = {"ror"}
           /\ HasFields(i, 16, 11, 2, 51) => Decoded(i) = {"sh1add"}
           /\ HasFields(i, 16, 11, 4, 51) => Decoded(i) = {"sh2add"}
           /\ HasFields(i, 16, 11, 6, 51) => Decoded(i) = {"sh3add"}
<1>1. /\ Bits(48, 5, 4) = 3 /\ Bits(48, 2, 2) = 0
      /\ Bits(20, 5, 4) = 1 /\ Bits(20, 2, 2) = 1
      /\ Bits(52, 5, 4) = 3 /\ Bits(52, 2, 2) = 1
      /\ Bits(4, 5, 4) = 0 /\ Bits(4, 0, 0) = 0
      /\ Bits(5, 5, 4) = 0 /\ Bits(5, 0, 0) = 1
      /\ Bits(32, 5, 4) = 2
      /\ Bits(16, 5, 4) = 1 /\ Bits(16, 2, 2) = 0
  BY DEF Bits
<1>2. /\ Bits(1, 2, 2) = 0 /\ Bits(5, 2, 2) = 1
      /\ Bits(0, 2, 0) = 0 /\ Bits(1, 2, 0) = 1 /\ Bits(2, 2, 0) = 2 /\ Bits(4, 2, 0) = 4
      /\ Bits(5, 2, 0) = 5 /\ Bits(20, 2, 0) = 4 /\ Bits(11, 2, 0) = 3
      /\ Bits(4, 1, 0) = 0 /\ Bits(6, 1, 0) = 2 /\ Bits(7, 1, 0) = 3
      /\ Bits(4, 1, 1) = 0 /\ Bits(5, 1, 1) = 0 /\ Bits(6, 1, 1) = 1 /\ Bits(7, 1, 1) = 1
      /\ Bits(2, 2, 1) = 1 /\ Bits(4, 2, 1) = 2 /\ Bits(6, 2, 1) = 3
      /\ Bits(19, 5, 5) = 0 /\ Bits(51, 5, 5) = 1
  BY DEF Bits
<1> DEFINE Only(op) == \A o \in Operations : DecodedAs(i, o) <=> o = op
<1> USE DEF HasFields, Operations
<1>3. /\ HasFields(i, 48, 0, 1, 19) => Only("clz")
      /\ HasFields(i, 48, 1, 1, 19) => Only("ctz")
      /\ HasFields(i, 48, 2, 1, 19) => Only("cpop")
  BY <1>1, <1>2, DecoderTests
<1>4. /\ HasFields(i, 48, 4, 1, 19) => Only("sextb")
      /\ HasFields(i, 48, 5, 1, 19) => Only("sexth")
      /\ HasFields(i, 48, 20, 5, 19) => Only("ror")
  BY <1>1, <1>2, DecoderTests
<1>5. /\ HasFields(i, 20, 7, 5, 19) => Only("orcb")
      /\ HasFields(i, 52, 24, 5, 19) => Only("rev8")
      /\ HasFields(i, 4, 0, 4, 51) => Only("zexth")
  BY <1>1, <1>2, DecoderTests
<1>6. /\ \A funct3 \in {4, 5} : HasFields(i, 5, 11, funct3, 51) => Only("min")
      /\ \A funct3 \in {6, 7} : HasFields(i, 5, 11, funct3, 51) => Only("max")
  BY <1>1, <1>2, DecoderTests
<1>7. /\ HasFields(i, 32, 11, 7, 51) => Only("andn")
      /\ HasFields(i, 32, 11, 6, 51) => Only("orn")
      /\ HasFields(i, 32, 11, 4, 51) => Only("xnor")
  BY <1>1, <1>2, DecoderTests
<1>8. /\ HasFields(i, 48, 11, 1, 51) => Only("rol")
      /\ HasFields(i, 48, 11, 5, 51) => Only("ror")
  BY <1>1, <1>2, DecoderTests
<1>9. /\ HasFields(i, 16, 11, 2, 51) => Only("sh1add")
      /\ HasFields(i, 16, 11, 4, 51) => Only("sh2add")
      /\ HasFields(i, 16, 11, 6, 51) => Only("sh3add")
  BY <1>1, <1>2, DecoderTests
<1>10. \A op \in Operations : Only(op) => Decoded(i) = {op}
  BY DEF Decoded
<1>11. /\ {"andn", "orn", "xnor", "max", "min", "zexth", "orcb", "clz", "ctz", "cpop"} \subseteq Operations
       /\ {"sextb", "sexth", "rol", "ror", "rev8", "sh1add", "sh2add", "sh3add"} \subseteq Operations
  OBVIOUS
<1> HIDE DEF HasFields, Only, Operations
<1> QED BY <1>10, <1>11, <1>3, <1>4, <1>5, <1>6, <1>7, <1>8, <1>9

\* All of them go to the bit manipulation unit.
LEMMA BitmanipIsSent ==
    ASSUME NEW i
    PROVE  /\ \A rs2 \in {0, 1, 2, 4, 5} : HasFields(i, 48, rs2, 1, 19) => CoProcessorOf(i) = "bitmanip"
           /\ HasFields(i, 48, 20, 5, 19) => CoProcessorOf(i) = "bitmanip"
           /\ HasFields(i, 20, 7, 5, 19) => CoProcessorOf(i) = "bitmanip"
           /\ HasFields(i, 52, 24, 5, 19) => CoProcessorOf(i) = "bitmanip"
           /\ HasFields(i, 4, 0, 4, 51) => CoProcessorOf(i) = "bitmanip"
           /\ \A funct3 \in 4 .. 7 : HasFields(i, 5, 11, funct3, 51) => CoProcessorOf(i) = "bitmanip"
           /\ \A funct3 \in {4, 6, 7} : HasFields(i, 32, 11, funct3, 51) => CoProcessorOf(i) = "bitmanip"
           /\ \A funct3 \in {1, 5} : HasFields(i, 48, 11, funct3, 51) => CoProcessorOf(i) = "bitmanip"
           /\ \A funct3 \in {2, 4, 6} : HasFields(i, 16, 11, funct3, 51) => CoProcessorOf(i) = "bitmanip"
<1>1. Bits(1, 1, 0) = 1 /\ Bits(5, 1, 0) = 1 /\ \A funct3 \in 4 .. 7 : Bits(funct3, 2, 2) = 1
  BY DEF Bits
<1> QED BY <1>1 DEF HasFields, CoProcessorOf, IsAluOperation, IsBitmanip, is_bitmanip_imm,
                    is_bitmanip_reg, opcode_alu_c, opcode_alui_c, opcode_fop_c

\* The amount of RORI by 20: the immediate is not negative, and its upper part
\* does not matter.
LEMMA ImmediateAmount ==
    ASSUME HasFields(instr, 48, 20, 5, 19)
    PROVE  ShiftAmount = 20 % XLEN
<1>1. XLEN \in {16, 32, 64, 128, 256, 512}
  <2>1. PICK n \in 4 .. 9 : XLEN = 2 ^ n
    BY AmountBits
  <2>2. n = 4 \/ n = 5 \/ n = 6 \/ n = 7 \/ n = 8 \/ n = 9
    OBVIOUS
  <2>3. \/ XLEN = 2 ^ 4 \/ XLEN = 2 ^ 5 \/ XLEN = 2 ^ 6
        \/ XLEN = 2 ^ 7 \/ XLEN = 2 ^ 8 \/ XLEN = 2 ^ 9
    BY <2>1, <2>2, Zenon
  <2> QED BY <2>3
<1>2. Min({12, XLEN}) = 12
  BY <1>1 DEF Min
<1>3. 48 * 2 ^ 5 + 20 = 1556 /\ 1556 % 2 ^ 12 = 1556 /\ (1556 \div 2 ^ 11) % 2 = 0 /\ 12 - 1 = 11
  OBVIOUS
<1>4. 1556 % XLEN = 20 % XLEN
  BY <1>1
<1>5. Low(1556, 12) = 1556 /\ Bit(1556, 11) = 0
  BY <1>3 DEF Low, Bit
<1>6. Immediate = SignExtended(1556, 12)
  BY <1>2, <1>3 DEF Immediate, HasFields
<1>7. Immediate = 1556
  BY <1>3, <1>5, <1>6 DEF SignExtended
<1>8. Opb = Immediate
  BY DEF Opb, IsImmediate, HasFields, opcode_alui_c
<1> QED BY <1>4, <1>7, <1>8 DEF ShiftAmount

\* The result of the one operation that the instruction is decoded as.
LEMMA BitmanipWritten ==
    ASSUME Operands, Answered, ctrl.wb, CoProcessorOf(instr) = "bitmanip",
           bitmanip.result \in Words
    PROVE  AluResult = bitmanip.result
<1>1. /\ "bitmanip" \in CoProcessors /\ ctrl.copro
      /\ \A cp \in CoProcessors \ {"bitmanip"} : Result(cp) = 0
  BY DEF Answered
<1>2. Result("bitmanip") = bitmanip.result
  BY DEF Result
<1> QED BY <1>1, <1>2, OnlyResult

LEMMA BitmanipValues ==
    ASSUME Operands, Answered, ctrl.wb
    PROVE  BitmanipLikeEmulated
<1> DEFINE less == LessThan(a0, a1)
           Is(op) == Decoded(instr) = {op} /\ CoProcessorOf(instr) = "bitmanip"
<1>1. /\ rs.rs1 = a0 /\ rs.rs2 = a1 /\ a0 \in Words /\ a1 \in Words /\ a0 \in Nat /\ a1 \in Int
  BY WordRange DEF Operands, a0, a1
<1>2. ASSUME CoProcessorOf(instr) = "bitmanip"
      PROVE  BitmanipAnswer
  BY <1>2 DEF Answered
<1>3. ASSUME NEW op \in Operations, Is(op)
      PROVE  AluResult = bitmanip.result
  BY <1>2, <1>3, BitmanipWritten DEF BitmanipAnswer
<1>4. /\ Is("andn") => bitmanip.result = And(a0, Not(a1))
      /\ Is("orn") => bitmanip.result = Or(a0, Not(a1))
      /\ Is("xnor") => bitmanip.result = Xor(a0, Not(a1))
      /\ Is("min") => bitmanip.result = IF less THEN a0 ELSE a1
      /\ Is("max") => bitmanip.result = IF less THEN a1 ELSE a0
      /\ Is("clz") => FirstOne(Reversed(a0), bitmanip.result)
      /\ Is("ctz") => FirstOne(a0, bitmanip.result)
      /\ Is("cpop") => bitmanip.result = Cardinality(Ones(a0))
      /\ Is("sextb") => bitmanip.result = SignExtended(a0, BYTE)
      /\ Is("sexth") => bitmanip.result = SignExtended(a0, 2 * BYTE)
      /\ Is("zexth") => bitmanip.result = Low(a0, 2 * BYTE)
      /\ Is("ror") => bitmanip.result = RotatedRight(a0, ShiftAmount)
      /\ Is("rol") => bitmanip.result = Reversed(RotatedRight(Reversed(a0), ShiftAmount))
      /\ Is("orcb") => bitmanip.result = OrCombined(a0)
      /\ Is("rev8") => bitmanip.result = ByteSwapped(a0)
      /\ \A op \in {"sh1add", "sh2add", "sh3add"} :
            Is(op) => bitmanip.result = (a1 + ShiftLeft(a0, Places)) % 2 ^ XLEN
  BY <1>1, <1>2 DEF BitmanipAnswer
<1>5. instr.opcode = 51 => ShiftAmount = a1 % XLEN
  BY <1>1 DEF ShiftAmount, Opb, IsImmediate, opcode_alui_c
<1>6. /\ instr.funct3 \in {4, 6} => less = (Signed(a0) < Signed(a1))
      /\ instr.funct3 \in {5, 7} => less = (a0 < a1)
  <2>1. Bits(4, 0, 0) = 0 /\ Bits(6, 0, 0) = 0 /\ Bits(5, 0, 0) = 1 /\ Bits(7, 0, 0) = 1
    BY DEF Bits
  <2>2. (instr.funct3 \in {4, 6} => ~Unsigned) /\ (instr.funct3 \in {5, 7} => Unsigned)
    BY <2>1 DEF Unsigned
  <2> QED BY <2>2, Zenon DEF LessThan
<1>7. /\ instr.funct3 = 2 => Places = 1
      /\ instr.funct3 = 4 => Places = 2
      /\ instr.funct3 = 6 => Places = 3
  BY DEF Places, Bits
<1> HIDE DEF less
<1>8. /\ instr = riscv_intrinsic_clz =>
           AluResult = IF a0 = 0 THEN XLEN ELSE riscv_emulate_clz(a0)
      /\ instr = riscv_intrinsic_ctz =>
           AluResult = IF a0 = 0 THEN XLEN ELSE riscv_emulate_ctz(a0)
      /\ instr = riscv_intrinsic_cpop => AluResult = riscv_emulate_cpop(a0)
  <2>1. /\ instr = riscv_intrinsic_clz => Is("clz")
        /\ instr = riscv_intrinsic_ctz => Is("ctz")
        /\ instr = riscv_intrinsic_cpop => Is("cpop")
    BY BitmanipEncoded, DecodedOnce, BitmanipIsSent
  <2> HIDE DEF Is
  <2>2. {"clz", "ctz", "cpop"} \subseteq Operations
    BY DEF Operations
  <2>3. /\ Is("clz") => bitmanip.result = IF a0 = 0 THEN XLEN ELSE riscv_emulate_clz(a0)
        /\ Is("ctz") => bitmanip.result = IF a0 = 0 THEN XLEN ELSE riscv_emulate_ctz(a0)
        /\ Is("cpop") => bitmanip.result = riscv_emulate_cpop(a0)
    BY <1>1, <1>4, ZerosEmulated, OnesEmulated
  <2> QED BY <1>3, <2>1, <2>2, <2>3
<1>9. /\ instr = riscv_intrinsic_sextb => AluResult = riscv_emulate_sextb(a0)
      /\ instr = riscv_intrinsic_sexth => AluResult = riscv_emulate_sexth(a0)
      /\ instr = riscv_intrinsic_zexth => AluResult = riscv_emulate_zexth(a0)
  <2>1. /\ instr = riscv_intrinsic_sextb => Is("sextb")
        /\ instr = riscv_intrinsic_sexth => Is("sexth")
        /\ instr = riscv_intrinsic_zexth => Is("zexth")
    BY BitmanipEncoded, DecodedOnce, BitmanipIsSent
  <2> HIDE DEF Is
  <2>2. {"sextb", "sexth", "zexth"} \subseteq Operations
    BY DEF Operations
  <2>3. BYTE \in 1 .. XLEN /\ 2 * BYTE \in 1 .. XLEN
    BY WordSizes
  <2>4. /\ SignExtended(a0, BYTE) = riscv_emulate_sextb(a0)
        /\ SignExtended(a0, 2 * BYTE) = riscv_emulate_sexth(a0)
    BY <1>1, <2>3, SignEmulated DEF riscv_emulate_sextb, riscv_emulate_sexth
  <2>5. Low(a0, 2 * BYTE) = riscv_emulate_zexth(a0)
    BY DEF riscv_emulate_zexth
  <2> QED BY <1>3, <1>4, <2>1, <2>2, <2>4, <2>5
<1>10. /\ instr = riscv_intrinsic_min => AluResult = riscv_emulate_min(a0, a1)
       /\ instr = riscv_intrinsic_minu => AluResult = riscv_emulate_minu(a0, a1)
       /\ instr = riscv_intrinsic_max => AluResult = riscv_emulate_max(a0, a1)
       /\ instr = riscv_intrinsic_maxu => AluResult = riscv_emulate_maxu(a0, a1)
  <2>1. /\ instr = riscv_intrinsic_min => Is("min") /\ instr.funct3 = 4
        /\ instr = riscv_intrinsic_minu => Is("min") /\ instr.funct3 = 5
        /\ instr = riscv_intrinsic_max => Is("max") /\ instr.funct3 = 6
        /\ instr = riscv_intrinsic_maxu => Is("max") /\ instr.funct3 = 7
    <3>1. 4 \in 4 .. 7 /\ 5 \in 4 .. 7 /\ 6 \in 4 .. 7 /\ 7 \in 4 .. 7
      OBVIOUS
    <3>2. \A i, f7, r2, f3, op : HasFields(i, f7, r2, f3, op) => i.funct3 = f3
      BY DEF HasFields
    <3> QED BY <3>1, <3>2, BitmanipEncoded, DecodedOnce, BitmanipIsSent
  <2> HIDE DEF Is
  <2>2. {"min", "max"} \subseteq Operations
    BY DEF Operations
  <2> QED BY <1>3, <1>4, <1>6, <2>1, <2>2
             DEF riscv_emulate_min, riscv_emulate_minu, riscv_emulate_max, riscv_emulate_maxu
<1>11. /\ instr = riscv_intrinsic_andn => AluResult = riscv_emulate_andn(a0, a1)
       /\ instr = riscv_intrinsic_orn => AluResult = riscv_emulate_orn(a0, a1)
       /\ instr = riscv_intrinsic_xnor => AluResult = riscv_emulate_xnor(a0, a1)
  <2>1. /\ instr = riscv_intrinsic_andn => Is("andn")
        /\ instr = riscv_intrinsic_orn => Is("orn")
        /\ instr = riscv_intrinsic_xnor => Is("xnor")
    BY BitmanipEncoded, DecodedOnce, BitmanipIsSent
  <2> HIDE DEF Is
  <2>2. {"andn", "orn", "xnor"} \subseteq Operations
    BY DEF Operations
  <2> QED BY <1>3, <1>4, <2>1, <2>2
             DEF riscv_emulate_andn, riscv_emulate_orn, riscv_emulate_xnor
<1>12. /\ instr = riscv_intrinsic_rol => AluResult = riscv_emulate_rol(a0, a1)
       /\ instr = riscv_intrinsic_ror => AluResult = riscv_emulate_ror(a0, a1)
       /\ instr = riscv_intrinsic_rori20 => AluResult = riscv_emulate_ror(a0, 20)
  <2>1. /\ instr = riscv_intrinsic_rol => Is("rol") /\ ShiftAmount = a1 % XLEN
        /\ instr = riscv_intrinsic_ror => Is("ror") /\ ShiftAmount = a1 % XLEN
        /\ instr = riscv_intrinsic_rori20 => Is("ror") /\ ShiftAmount = 20 % XLEN
    <3>1. \A i, f7, r2, f3, op : HasFields(i, f7, r2, f3, op) => i.opcode = op
      BY DEF HasFields
    <3> QED BY <1>5, <3>1, ImmediateAmount, BitmanipEncoded, DecodedOnce, BitmanipIsSent
  <2> HIDE DEF Is
  <2>2. {"rol", "ror"} \subseteq Operations /\ 20 \in Int
    BY DEF Operations
  <2>3. \A s \in Int : /\ RotatedRight(a0, s % XLEN) = riscv_emulate_ror(a0, s)
                       /\ Reversed(RotatedRight(Reversed(a0), s % XLEN)) = riscv_emulate_rol(a0, s)
    BY <1>1, RotationsEmulated
  <2> QED BY <1>1, <1>3, <1>4, <2>1, <2>2, <2>3
<1>13. /\ instr = riscv_intrinsic_orcb => AluResult = riscv_emulate_orcb(a0)
       /\ instr = riscv_intrinsic_rev8 => AluResult = riscv_emulate_rev8(a0)
  <2>1. /\ instr = riscv_intrinsic_orcb => Is("orcb")
        /\ instr = riscv_intrinsic_rev8 => Is("rev8")
    BY BitmanipEncoded, DecodedOnce, BitmanipIsSent
  <2> HIDE DEF Is
  <2>2. {"orcb", "rev8"} \subseteq Operations
    BY DEF Operations
  <2> QED BY <1>1, <1>3, <1>4, <2>1, <2>2, BytesCombined, BytesSwapped
<1>14. /\ instr = riscv_intrinsic_sh1add => AluResult = riscv_emulate_sh1add(a0, a1)
       /\ instr = riscv_intrinsic_sh2add => AluResult = riscv_emulate_sh2add(a0, a1)
       /\ instr = riscv_intrinsic_sh3add => AluResult = riscv_emulate_sh3add(a0, a1)
  <2>1. /\ instr = riscv_intrinsic_sh1add => Is("sh1add") /\ Places = 1
        /\ instr = riscv_intrinsic_sh2add => Is("sh2add") /\ Places = 2
        /\ instr = riscv_intrinsic_sh3add => Is("sh3add") /\ Places = 3
    <3>1. \A i, f7, r2, f3, op : HasFields(i, f7, r2, f3, op) => i.funct3 = f3
      BY DEF HasFields
    <3> QED BY <1>7, <3>1, BitmanipEncoded, DecodedOnce, BitmanipIsSent
  <2> HIDE DEF Is
  <2>2. {"sh1add", "sh2add", "sh3add"} \subseteq Operations
    BY DEF Operations
  <2> QED BY <1>3, <1>4, <2>1, <2>2
             DEF riscv_emulate_sh1add, riscv_emulate_sh2add, riscv_emulate_sh3add
<1> QED BY <1>8, <1>9, <1>10, <1>11, <1>12, <1>13, <1>14 DEF BitmanipLikeEmulated, Gives

\* Every instruction for bit manipulation writes what its emulation in C returns,
\* for all operands: counts of zeros and ones, signs, minimum and maximum, logic,
\* rotations, bytes and shifted sums, whether the unit shifts one position in a
\* period or all at once.
THEOREM BitmanipIsEmulated == Spec => []BitmanipLikeEmulated
<1>1. Holds => BitmanipLikeEmulated
  <2> SUFFICES ASSUME Holds PROVE BitmanipLikeEmulated
    OBVIOUS
  <2>1. CASE Undisturbed
    BY <2>1, BitmanipValues DEF Holds, Undisturbed, Writes
  <2>2. CASE ~Undisturbed
    BY <2>2 DEF BitmanipLikeEmulated, Gives
  <2> QED BY <2>1, <2>2
<1> QED BY <1>1, Answering, PTL

-----------------------------------------------------------------------------
(* The parts of a float.                                                   *)

LEMMA FloatPowers ==
    /\ EXP \in 0 .. XLEN /\ MAN \in 0 .. XLEN /\ MAN - 1 \in 0 .. XLEN /\ XLEN - 1 \in 0 .. XLEN
    /\ 2 ^ (XLEN - 1) = 2 ^ MAN * 2 ^ EXP
    /\ 2 ^ XLEN = 2 * 2 ^ (XLEN - 1) /\ 2 ^ (XLEN - 1) \in Nat \ {0}
    /\ 2 ^ MAN \in Nat \ {0} /\ 2 ^ EXP \in Nat \ {0}
    /\ 2 ^ EXP >= 2
    /\ AllOnes \in Nat /\ AllOnes >= 1
    /\ 2 ^ (MAN - 1) \in Nat \ {0} /\ 2 ^ (MAN - 1) < 2 ^ MAN
<1>1. /\ EXP \in Nat /\ MAN \in Nat /\ EXP >= 2 /\ MAN >= 3 /\ XLEN = 1 + EXP + MAN
      /\ XLEN \in Nat
  BY FloatSizes, Powers
<1>2. /\ EXP \in 0 .. XLEN /\ MAN \in 0 .. XLEN /\ MAN - 1 \in 0 .. XLEN /\ XLEN - 1 \in 0 .. XLEN
      /\ EXP \in 1 .. XLEN /\ MAN \in 1 .. XLEN /\ EXP - 1 \in 0 .. XLEN /\ XLEN \in 1 .. XLEN
      /\ MAN \in 0 .. XLEN - 1 /\ XLEN - 1 - MAN = EXP
  BY <1>1
<1>3. /\ \A n \in 0 .. XLEN : 2 ^ n \in Nat /\ 2 ^ n >= 1
      /\ \A n \in 1 .. XLEN : 2 ^ n = 2 * 2 ^ (n - 1)
      /\ \A n \in 0 .. XLEN : \A m \in 0 .. n : 2 ^ n = 2 ^ m * 2 ^ (n - m)
  BY Powers
<1>4. 2 ^ (XLEN - 1) = 2 ^ MAN * 2 ^ EXP
  BY <1>2, <1>3
<1> DEFINE P == 2 ^ MAN
           E == 2 ^ EXP
           H == 2 ^ (XLEN - 1)
           p == 2 ^ (MAN - 1)
           e == 2 ^ (EXP - 1)
<1>5. /\ P \in Nat /\ P >= 1 /\ E \in Nat /\ E >= 1 /\ H \in Nat /\ H >= 1
      /\ p \in Nat /\ p >= 1 /\ e \in Nat /\ e >= 1 /\ P = 2 * p /\ E = 2 * e /\ 2 ^ XLEN = 2 * H
  BY <1>2, <1>3
<1> HIDE DEF P, E, H, p, e
<1>6. P \in Nat \ {0} /\ E \in Nat \ {0} /\ E >= 2 /\ p < P /\ H \in Nat \ {0} /\ p \in Nat \ {0}
  BY <1>5
<1>7. E - 1 \in Nat /\ E - 1 >= 1
  BY <1>6
<1> QED BY <1>2, <1>4, <1>5, <1>6, <1>7 DEF AllOnes, P, E, H, p

\* The sign and the magnitude make up the word, exponent and mantissa the
\* magnitude.
LEMMA FloatParts ==
    ASSUME NEW w \in Words
    PROVE  /\ SignOf(w) \in {0, 1}
           /\ Magnitude(w) \in Nat /\ Magnitude(w) < 2 ^ (XLEN - 1)
           /\ w = SignOf(w) * 2 ^ (XLEN - 1) + Magnitude(w)
           /\ ExponentOf(w) \in 0 .. AllOnes
           /\ MantissaOf(w) \in 0 .. 2 ^ MAN - 1
           /\ Magnitude(w) = 2 ^ MAN * ExponentOf(w) + MantissaOf(w)
<1> DEFINE H == 2 ^ (XLEN - 1)
           P == 2 ^ MAN
           E == 2 ^ EXP
           s == SignOf(w)
           r == w - s * H
<1>1. /\ w \in Int /\ 0 <= w /\ w < 2 * H /\ H \in Nat \ {0} /\ P \in Nat \ {0} /\ E \in Nat \ {0}
      /\ H = P * E
  BY FloatPowers, WordRange
<1>2. s = IF w >= H THEN 1 ELSE 0
  BY HighestBit DEF SignOf
<1> HIDE DEF s, H
<1>3. s \in {0, 1} /\ s \in Int /\ r \in Int /\ 0 <= r /\ r < H /\ w = H * s + r
  BY <1>1, <1>2
<1> HIDE DEF r
<1>4. w % H = r
  BY <1>1, <1>3, Division
<1>5. Magnitude(w) = r
  BY <1>4 DEF Magnitude, Low, H
<1> HIDE DEF P, E
<1>6. w % H = P * ((w \div P) % E) + (w % P)
  BY <1>1, DividedTwice
<1>7. w \div P \in Int /\ w % P \in Int /\ 0 <= w % P /\ w % P < P
  BY <1>1, DivMod
<1>8. (w \div P) % E \in Int /\ 0 <= (w \div P) % E /\ (w \div P) % E < E
  BY <1>1, <1>7, DivMod
<1>9. ExponentOf(w) = (w \div P) % E /\ MantissaOf(w) = w % P /\ AllOnes = E - 1
  BY DEF ExponentOf, MantissaOf, Low, P, E, AllOnes
<1>10. ExponentOf(w) \in 0 .. AllOnes /\ MantissaOf(w) \in 0 .. P - 1
  BY <1>1, <1>7, <1>8, <1>9
<1>11. w = s * H + r
  BY <1>1, <1>3
<1> QED BY <1>3, <1>4, <1>5, <1>6, <1>9, <1>10, <1>11 DEF s, H, P

\* A word of these parts, and the sign and the magnitude are these.
LEMMA FloatMade ==
    ASSUME NEW sign \in {0, 1}, NEW magnitude \in Nat, magnitude < 2 ^ (XLEN - 1)
    PROVE  /\ FloatWord(sign, 0, magnitude) \in Words
           /\ SignOf(FloatWord(sign, 0, magnitude)) = sign
           /\ Magnitude(FloatWord(sign, 0, magnitude)) = magnitude
<1> DEFINE H == 2 ^ (XLEN - 1)
           w == FloatWord(sign, 0, magnitude)
<1>1. H \in Nat \ {0} /\ 2 ^ XLEN = 2 * H /\ 2 ^ MAN \in Nat
  BY FloatPowers
<1>2. w = sign * H + magnitude
  BY <1>1 DEF FloatWord
<1> HIDE DEF w
<1>3. magnitude < H
  OBVIOUS
<1> HIDE DEF H
<1>4. w \in Words
  BY <1>1, <1>2, <1>3 DEF Words
<1>5. /\ SignOf(w) \in {0, 1} /\ Magnitude(w) \in Nat /\ Magnitude(w) < H
      /\ w = SignOf(w) * H + Magnitude(w)
  BY <1>4, FloatParts DEF H
<1> DEFINE s == SignOf(w)
           r == Magnitude(w)
<1>6. s \in {0, 1} /\ r \in Nat /\ r < H /\ w = s * H + r
  BY <1>5
<1> HIDE DEF s, r
<1>7. s = sign /\ r = magnitude
  <2>1. (s = 0 => w = r) /\ (s = 1 => w = H + r)
    BY <1>1, <1>6
  <2>2. (sign = 0 => w = magnitude) /\ (sign = 1 => w = H + magnitude)
    BY <1>1, <1>2
  <2> QED BY <1>1, <1>3, <1>6, <2>1, <2>2
<1> QED BY <1>4, <1>7 DEF w, s, r

\* A word is the only one with its sign and its magnitude.
LEMMA SameParts ==
    ASSUME NEW a \in Words, NEW b \in Words, SignOf(a) = SignOf(b), Magnitude(a) = Magnitude(b)
    PROVE  a = b
BY FloatParts

\* The class of a number is a matter of its magnitude.
LEMMA FloatClasses ==
    ASSUME NEW w \in Words
    PROVE  /\ Infinity \in Nat /\ 2 ^ MAN <= Infinity /\ Infinity < 2 ^ (XLEN - 1)
           /\ ExponentOf(w) = 0 <=> Magnitude(w) < 2 ^ MAN
           /\ IsZero(w) <=> Magnitude(w) = 0
           /\ IsInfinite(w) <=> Magnitude(w) = Infinity
           /\ IsNaN(w) <=> Magnitude(w) > Infinity
           /\ fpclassify(w) = "FP_SUBNORMAL" <=> Magnitude(w) > 0 /\ Magnitude(w) < 2 ^ MAN
<1> DEFINE P == 2 ^ MAN
           e == ExponentOf(w)
           m == MantissaOf(w)
           M == Magnitude(w)
           I == Infinity
           H == 2 ^ (XLEN - 1)
           A == AllOnes
<1>1. /\ P \in Nat \ {0} /\ A \in Nat /\ A >= 1 /\ e \in 0 .. A /\ m \in 0 .. P - 1
      /\ M = P * e + m
  BY FloatParts, FloatPowers
<1>2. I = P * A
  BY FloatPowers DEF Infinity, FloatWord
<1>3. H = P * (A + 1)
  BY FloatPowers DEF AllOnes
<1>4. fpclassify(w) =
        CASE e = 0 /\ m = 0 -> "FP_ZERO"
          [] e = 0 /\ m # 0 -> "FP_SUBNORMAL"
          [] e = A /\ m = 0 -> "FP_INFINITE"
          [] e = A /\ m # 0 -> "FP_NAN"
          [] OTHER -> "FP_NORMAL"
  BY DEF fpclassify
<1> HIDE DEF P, A, e, m, M, I, H
<1>5. I \in Nat /\ P <= I /\ I < H
  <2>1. A = 1 + (A - 1) /\ A - 1 \in Nat
    BY <1>1
  <2>2. P * A = P + P * (A - 1) /\ P * (A - 1) \in Nat
    BY <1>1, <2>1
  <2>3. P * (A + 1) = P * A + P
    BY <1>1
  <2> QED BY <1>1, <1>2, <1>3, <2>2, <2>3
<1>6. M \in Nat /\ (e = 0 <=> M < P) /\ (e = 0 /\ m = 0 <=> M = 0)
  <2>1. CASE e = 0
    BY <1>1, <2>1
  <2>2. CASE e # 0
    <3>1. e - 1 \in Nat /\ P * (e - 1) \in Nat /\ P * e = P + P * (e - 1)
      BY <1>1, <2>2
    <3> QED BY <1>1, <2>2, <3>1
  <2> QED BY <2>1, <2>2
<1>7. (e = A /\ m = 0 <=> M = I) /\ (e = A /\ m # 0 <=> M > I)
  <2>1. CASE e = A
    BY <1>1, <1>2, <1>5, <2>1
  <2>2. CASE e # A
    <3>1. A - e - 1 \in Nat /\ P * (A - e - 1) \in Nat
          /\ P * A = P * e + P + P * (A - e - 1)
      BY <1>1, <2>2
    <3>2. P * e \in Nat
      BY <1>1
    <3>3. M < I
      BY <1>1, <1>2, <3>1, <3>2
    <3> QED BY <1>5, <1>6, <2>2, <3>3
  <2> QED BY <2>1, <2>2
<1>8. /\ fpclassify(w) = "FP_ZERO" <=> e = 0 /\ m = 0
      /\ fpclassify(w) = "FP_SUBNORMAL" <=> e = 0 /\ m # 0
      /\ fpclassify(w) = "FP_INFINITE" <=> e = A /\ m = 0
      /\ fpclassify(w) = "FP_NAN" <=> e = A /\ m # 0
  BY <1>1, <1>4
<1>9. /\ IsZero(w) <=> M = 0
      /\ IsInfinite(w) <=> M = I
      /\ IsNaN(w) <=> M > I
      /\ fpclassify(w) = "FP_SUBNORMAL" <=> M > 0 /\ M < P
  BY <1>6, <1>7, <1>8 DEF IsZero, IsInfinite, IsNaN
<1> QED BY <1>5, <1>6, <1>9 DEF P, I, H, M, e

\* The FPU and the emulation flush subnormal numbers alike, to a zero of the
\* same sign.
LEMMA Flushed ==
    ASSUME NEW w \in Words
    PROVE  /\ OperandData(w) = subnormal_flush(w)
           /\ OperandData(w) \in Words
           /\ SignOf(OperandData(w)) = SignOf(w)
           /\ Magnitude(OperandData(w)) = IF Magnitude(w) < 2 ^ MAN THEN 0 ELSE Magnitude(w)
<1> DEFINE zero == FloatWord(SignOf(w), 0, 0)
<1>1. SignOf(w) \in {0, 1} /\ Magnitude(w) \in Nat
  BY FloatParts
<1>2. zero \in Words /\ SignOf(zero) = SignOf(w) /\ Magnitude(zero) = 0
  <2>1. 0 \in Nat /\ 0 < 2 ^ (XLEN - 1)
    BY FloatPowers
  <2> QED BY <1>1, <2>1, FloatMade
<1>3. OperandData(w) = IF Magnitude(w) < 2 ^ MAN THEN zero ELSE w
  BY FloatClasses DEF OperandData
<1>4. subnormal_flush(w) = IF Magnitude(w) > 0 /\ Magnitude(w) < 2 ^ MAN THEN zero ELSE w
  BY FloatClasses DEF subnormal_flush
<1> HIDE DEF zero
<1>5. Magnitude(w) = 0 => zero = w
  BY <1>2, SameParts
<1>6. OperandData(w) = subnormal_flush(w)
  BY <1>1, <1>3, <1>4, <1>5
<1> QED BY <1>2, <1>3, <1>6

-----------------------------------------------------------------------------
(* Comparisons, minimum and maximum, signs and classes of floats.          *)

LEMMA ClassesOf ==
    ASSUME NEW w \in Words
    PROVE  /\ SignOf(w) \in {0, 1} /\ Magnitude(w) \in Nat /\ Infinity \in Nat /\ Infinity > 0
           /\ ClassOf(w) \in NaNs <=> Magnitude(w) > Infinity
           /\ ClassOf(w) = "neg_inf" <=> Magnitude(w) = Infinity /\ SignOf(w) = 1
           /\ ClassOf(w) = "pos_inf" <=> Magnitude(w) = Infinity /\ SignOf(w) = 0
           /\ ClassOf(w) = "neg_zero" <=> Magnitude(w) = 0 /\ SignOf(w) = 1
           /\ ClassOf(w) = "pos_zero" <=> Magnitude(w) = 0 /\ SignOf(w) = 0
<1> DEFINE s == SignOf(w)
           M == Magnitude(w)
           I == Infinity
<1>1. s \in {0, 1} /\ M \in Nat /\ I \in Nat /\ I > 0
  BY FloatParts, FloatClasses, FloatPowers
<1>2. /\ IsInfinite(w) <=> M = I
      /\ IsZero(w) <=> M = 0
      /\ IsNaN(w) <=> M > I
  BY FloatClasses
<1>3. ClassOf(w) = CASE IsInfinite(w) -> IF s = 1 THEN "neg_inf" ELSE "pos_inf"
                     [] IsZero(w) -> IF s = 1 THEN "neg_zero" ELSE "pos_zero"
                     [] IsNaN(w) -> IF Bit(w, MAN - 1) = 1 THEN "qnan" ELSE "snan"
                     [] OTHER -> IF s = 1 THEN "neg_norm" ELSE "pos_norm"
  BY DEF ClassOf
<1> HIDE DEF s, M, I
<1>4. /\ ClassOf(w) \in NaNs <=> M > I
      /\ ClassOf(w) = "neg_inf" <=> M = I /\ s = 1
      /\ ClassOf(w) = "pos_inf" <=> M = I /\ s = 0
      /\ ClassOf(w) = "neg_zero" <=> M = 0 /\ s = 1
      /\ ClassOf(w) = "pos_zero" <=> M = 0 /\ s = 0
  <2>1. CASE M = I
    BY <1>1, <1>2, <1>3, <2>1 DEF NaNs
  <2>2. CASE M = 0
    BY <1>1, <1>2, <1>3, <2>2 DEF NaNs
  <2>3. CASE M > I
    BY <1>1, <1>2, <1>3, <2>3 DEF NaNs
  <2>4. CASE M # I /\ M # 0 /\ ~(M > I)
    BY <1>1, <1>2, <1>3, <2>4 DEF NaNs
  <2> QED BY <2>1, <2>2, <2>3, <2>4
<1> QED BY <1>1, <1>4 DEF s, M, I

\* Words of the same sign compare as their magnitudes do, with signs or without.
LEMMA Ordered ==
    ASSUME NEW x \in Words, NEW y \in Words, SignOf(x) = SignOf(y)
    PROVE  LessThan(x, y) <=> Magnitude(x) < Magnitude(y)
<1> DEFINE s == SignOf(x)
           H == 2 ^ (XLEN - 1)
           Mx == Magnitude(x)
           My == Magnitude(y)
<1>1. /\ s \in {0, 1} /\ H \in Nat /\ Mx \in Nat /\ My \in Nat /\ Mx < H /\ My < H
      /\ x = s * H + Mx /\ y = s * H + My
  BY FloatParts, FloatPowers
<1>2. /\ Signed(x) = IF x >= H THEN x - 2 * H ELSE x
      /\ Signed(y) = IF y >= H THEN y - 2 * H ELSE y
  BY HighestBit
<1> HIDE DEF s, H, Mx, My
<1>3. CASE s = 0
  <2>1. x = Mx /\ y = My
    BY <1>1, <1>3
  <2>2. Signed(x) = Mx /\ Signed(y) = My
    BY <1>1, <1>2, <2>1
  <2> QED BY <2>1, <2>2 DEF LessThan, Mx, My
<1>4. CASE s = 1
  <2>1. x = H + Mx /\ y = H + My
    BY <1>1, <1>4
  <2>2. Signed(x) = Mx - H /\ Signed(y) = My - H
    BY <1>1, <1>2, <2>1
  <2>3. (x < y <=> Mx < My) /\ (Signed(x) < Signed(y) <=> Mx < My)
    BY <1>1, <2>1, <2>2
  <2> QED BY <2>3 DEF LessThan, Mx, My
<1> QED BY <1>1, <1>3, <1>4

\* The comparator of the FPU orders two numbers as isless does, but for a
\* negative one and itself.
LEMMA Compared ==
    ASSUME NEW x \in Words, NEW y \in Words
    PROVE  LET a == OperandData(x)
               b == OperandData(y)
           IN  /\ Order(a) \in Int /\ Order(b) \in Int
               /\ ComparedEqual(a, b, x = y) <=> Order(a) = Order(b)
               /\ Order(a) < Order(b) => ComparedLess(a, b, LessThan(x, y))
               /\ ComparedLess(a, b, LessThan(x, y)) =>
                     Order(a) < Order(b) \/ (x = y /\ SignOf(x) = 1)
<1> DEFINE a == OperandData(x)
           b == OperandData(y)
           s == SignOf(x)
           t == SignOf(y)
           Mx == Magnitude(x)
           My == Magnitude(y)
           Ma == Magnitude(a)
           Mb == Magnitude(b)
           P == 2 ^ MAN
           less == LessThan(x, y)
           outOfOrder == SameOutOfOrder(a, b)
<1>1. /\ s \in {0, 1} /\ t \in {0, 1} /\ Mx \in Nat /\ My \in Nat /\ P \in Nat /\ P > 0
      /\ Infinity \in Nat /\ P <= Infinity
  BY FloatParts, FloatClasses, FloatPowers
<1>2. /\ a \in Words /\ b \in Words /\ SignOf(a) = s /\ SignOf(b) = t
      /\ Ma = IF Mx < P THEN 0 ELSE Mx
      /\ Mb = IF My < P THEN 0 ELSE My
  BY Flushed
<1>3. /\ x = y => s = t /\ Mx = My
      /\ s = t /\ Mx = My => x = y
  BY SameParts
<1>4. s = t => (less <=> Mx < My)
  BY Ordered
<1>5. /\ Order(a) = IF s = 1 THEN -Ma ELSE Ma
      /\ Order(b) = IF t = 1 THEN -Mb ELSE Mb
  BY <1>2 DEF Order
<1> HIDE DEF a, b
<1>6. outOfOrder <=> \/ Ma = Infinity /\ Mb = Infinity /\ s = t
                     \/ Ma = 0 /\ Mb = 0
  <2>1. /\ ClassOf(a) = "neg_inf" <=> Ma = Infinity /\ s = 1
        /\ ClassOf(a) = "pos_inf" <=> Ma = Infinity /\ s = 0
        /\ ClassOf(a) = "neg_zero" <=> Ma = 0 /\ s = 1
        /\ ClassOf(a) = "pos_zero" <=> Ma = 0 /\ s = 0
    BY <1>2, ClassesOf
  <2>2. /\ ClassOf(b) = "neg_inf" <=> Mb = Infinity /\ t = 1
        /\ ClassOf(b) = "pos_inf" <=> Mb = Infinity /\ t = 0
        /\ ClassOf(b) = "neg_zero" <=> Mb = 0 /\ t = 1
        /\ ClassOf(b) = "pos_zero" <=> Mb = 0 /\ t = 0
    BY <1>2, ClassesOf
  <2>3. /\ ClassOf(a) \in Infinities /\ ClassOf(a) = ClassOf(b)
             <=> Ma = Infinity /\ Mb = Infinity /\ s = t
        /\ ClassOf(a) \in Zeros /\ ClassOf(b) \in Zeros <=> Ma = 0 /\ Mb = 0
    BY <1>1, <2>1, <2>2 DEF Infinities, Zeros
  <2> QED BY <2>3 DEF SameOutOfOrder
<1>7. /\ ComparedEqual(a, b, x = y) <=> outOfOrder \/ x = y
      /\ ComparedLess(a, b, less) <=>
           /\ ~outOfOrder
           /\ (s = 1 /\ t = 0) \/ (s = 0 /\ t = 0 /\ less) \/ (s = 1 /\ t = 1 /\ ~less)
  <2>1. ComparedLess(a, b, less) <=>
          /\ ~outOfOrder
          /\ CASE s = 1 /\ t = 0 -> TRUE
               [] s = 0 /\ t = 1 -> FALSE
               [] s = 0 /\ t = 0 -> less
               [] s = 1 /\ t = 1 -> ~less
    BY <1>2 DEF ComparedLess
  <2> HIDE DEF s, t, less, outOfOrder
  <2>2. ComparedLess(a, b, less) <=>
          /\ ~outOfOrder
          /\ (s = 1 /\ t = 0) \/ (s = 0 /\ t = 0 /\ less) \/ (s = 1 /\ t = 1 /\ ~less)
    <3>1. CASE s = 0 /\ t = 0
      BY <2>1, <3>1
    <3>2. CASE s = 0 /\ t = 1
      BY <2>1, <3>2
    <3>3. CASE s = 1 /\ t = 0
      BY <2>1, <3>3
    <3>4. CASE s = 1 /\ t = 1
      BY <2>1, <3>4
    <3> QED BY <1>1, <3>1, <3>2, <3>3, <3>4
  <2>3. ComparedEqual(a, b, x = y) <=> outOfOrder \/ x = y
    BY DEF ComparedEqual, outOfOrder
  <2> QED BY <2>2, <2>3
<1> HIDE DEF s, t, Mx, My, Ma, Mb, P, less, outOfOrder
<1>8. Ma \in Nat /\ Mb \in Nat /\ Order(a) \in Int /\ Order(b) \in Int
  BY <1>1, <1>2, <1>5
<1>9. ComparedEqual(a, b, x = y) <=> Order(a) = Order(b)
  BY <1>1, <1>2, <1>3, <1>5, <1>6, <1>7
<1>10. Order(a) < Order(b) => ComparedLess(a, b, less)
  BY <1>1, <1>2, <1>4, <1>5, <1>6, <1>7
<1>11. ComparedLess(a, b, less) => Order(a) < Order(b) \/ (x = y /\ s = 1)
  BY <1>1, <1>2, <1>3, <1>4, <1>5, <1>6, <1>7
<1> QED BY <1>8, <1>9, <1>10, <1>11 DEF a, b, less, s

LEMMA ComparisonResults ==
    ASSUME NEW x \in Words, NEW y \in Words
    PROVE  LET a == OperandData(x)
               b == OperandData(y)
               result(funct3) == Comparison(funct3, a, b, x = y, LessThan(x, y))
           IN  /\ result(2) = riscv_emulate_feqs(x, y)
               /\ ~(x = y /\ SignOf(x) = 1) => result(1) = riscv_emulate_flts(x, y)
               /\ result(0) = riscv_emulate_fles(x, y)
<1> DEFINE a == OperandData(x)
           b == OperandData(y)
           less == LessThan(x, y)
           numbers == Comparable(a, b)
<1>1. a = subnormal_flush(x) /\ b = subnormal_flush(y) /\ a \in Words /\ b \in Words
  BY Flushed
<1>2. /\ Order(a) \in Int /\ Order(b) \in Int
      /\ ComparedEqual(a, b, x = y) <=> Order(a) = Order(b)
      /\ Order(a) < Order(b) => ComparedLess(a, b, less)
      /\ ComparedLess(a, b, less) => Order(a) < Order(b) \/ (x = y /\ SignOf(x) = 1)
  BY Compared
<1> HIDE DEF a, b
<1>3. {ClassOf(a), ClassOf(b)} \intersect NaNs = {} <=> numbers
  <2>1. (ClassOf(a) \in NaNs <=> IsNaN(a)) /\ (ClassOf(b) \in NaNs <=> IsNaN(b))
    BY <1>1, ClassesOf, FloatClasses
  <2> QED BY <2>1 DEF Comparable
<1>4. Bits(0, 1, 0) = 0 /\ Bits(1, 1, 0) = 1 /\ Bits(2, 1, 0) = 2
  BY DEF Bits
<1>5. /\ Comparison(0, a, b, x = y, less) =
           IF (ComparedLess(a, b, less) \/ ComparedEqual(a, b, x = y)) /\ numbers THEN 1 ELSE 0
      /\ Comparison(1, a, b, x = y, less) = IF ComparedLess(a, b, less) /\ numbers THEN 1 ELSE 0
      /\ Comparison(2, a, b, x = y, less) = IF ComparedEqual(a, b, x = y) /\ numbers THEN 1 ELSE 0
  BY <1>3, <1>4 DEF Comparison
<1>6. x = y => a = b
  BY DEF a, b
<1> HIDE DEF less, numbers
<1>7. Comparison(2, a, b, x = y, less) = riscv_emulate_feqs(x, y)
  BY <1>1, <1>2, <1>5 DEF riscv_emulate_feqs, isless, numbers
<1>8. ~(x = y /\ SignOf(x) = 1) => Comparison(1, a, b, x = y, less) = riscv_emulate_flts(x, y)
  BY <1>1, <1>2, <1>5 DEF riscv_emulate_flts, isless, numbers
<1>9. Comparison(0, a, b, x = y, less) = riscv_emulate_fles(x, y)
  BY <1>1, <1>2, <1>5, <1>6 DEF riscv_emulate_fles, isless, numbers
<1> QED BY <1>7, <1>8, <1>9 DEF a, b, less

LEMMA QuietNaNWord == QuietNaN \in Words
<1>1. /\ 0 \in {0, 1} /\ Infinity \in Nat /\ 2 ^ (MAN - 1) \in Nat
      /\ Infinity + 2 ^ (MAN - 1) < 2 ^ (XLEN - 1)
      /\ 2 ^ (XLEN - 1) \in Nat /\ AllOnes * 2 ^ MAN \in Nat
  <2> DEFINE P == 2 ^ MAN
             p == 2 ^ (MAN - 1)
             A == AllOnes
  <2>1. /\ P \in Nat /\ p \in Nat /\ p < P /\ A \in Nat
        /\ Infinity = A * P /\ 2 ^ (XLEN - 1) = P * (A + 1)
    BY FloatPowers DEF Infinity, FloatWord, AllOnes
  <2> HIDE DEF P, p, A
  <2>2. A * P \in Nat /\ P * (A + 1) = A * P + P
    BY <2>1
  <2> QED BY <2>1, <2>2 DEF p, P, A
<1>2. QuietNaN = FloatWord(0, 0, Infinity + 2 ^ (MAN - 1))
  BY <1>1, FloatPowers DEF QuietNaN, Infinity, FloatWord
<1> QED BY <1>1, <1>2, FloatMade

LEMMA MinMaxResults ==
    ASSUME NEW x \in Words, NEW y \in Words
    PROVE  LET result(funct3) ==
                 MinMax(funct3, OperandData(x), OperandData(y), LessThan(x, y))
           IN  /\ result(0) = riscv_emulate_fmins(x, y)
               /\ result(1) = riscv_emulate_fmaxs(x, y)
               /\ result(0) \in Words /\ result(1) \in Words
<1> DEFINE a == OperandData(x)
           b == OperandData(y)
           less == ComparedLess(a, b, LessThan(x, y))
           before == isless(a, b)
           maximum(funct3) == Bits(funct3, 0, 0) = 1
           second(funct3) ==
             CASE ClassOf(a) = "neg_zero" /\ ClassOf(b) = "pos_zero" -> maximum(funct3)
               [] ClassOf(a) = "pos_zero" /\ ClassOf(b) = "neg_zero" -> ~maximum(funct3)
               [] OTHER -> less = maximum(funct3)
           result(funct3) == MinMax(funct3, a, b, LessThan(x, y))
           negative == Negated(0)
<1>1. a = subnormal_flush(x) /\ b = subnormal_flush(y) /\ a \in Words /\ b \in Words
  BY Flushed
<1>2. /\ before => less
      /\ less => before \/ a = b
      /\ before \in BOOLEAN
  BY Compared DEF isless
<1>3. \A funct3 : result(funct3) =
        CASE ClassOf(a) \in NaNs /\ ClassOf(b) \in NaNs -> QuietNaN
          [] ClassOf(a) \notin NaNs /\ ClassOf(b) \in NaNs -> a
          [] ClassOf(a) \in NaNs /\ ClassOf(b) \notin NaNs -> b
          [] OTHER -> IF second(funct3) THEN b ELSE a
  BY DEF MinMax
<1>4. maximum(0) = FALSE /\ maximum(1) = TRUE
  BY DEF Bits
<1> HIDE DEF maximum
<1>5. less \in BOOLEAN
  BY DEF ComparedLess
<1> HIDE DEF a, b, less, before, result
<1>6. (ClassOf(a) \in NaNs <=> IsNaN(a)) /\ (ClassOf(b) \in NaNs <=> IsNaN(b))
  BY <1>1, ClassesOf, FloatClasses
<1>7. 0 \in Words /\ SignOf(0) = 0 /\ Magnitude(0) = 0 /\ negative \in Words
      /\ SignOf(negative) = 1 /\ Magnitude(negative) = 0
  <2>1. 0 \in Nat /\ 0 < 2 ^ (XLEN - 1) /\ FloatWord(0, 0, 0) = 0
    BY FloatPowers DEF FloatWord
  <2>2. 0 \in Words /\ SignOf(0) = 0 /\ Magnitude(0) = 0
    BY <2>1, FloatMade
  <2>3. negative = FloatWord(1, 0, 0)
    BY <2>2 DEF Negated
  <2> QED BY <2>1, <2>2, <2>3, FloatMade
<1>8. /\ ClassOf(a) = "neg_zero" <=> a = negative
      /\ ClassOf(a) = "pos_zero" <=> a = 0
      /\ ClassOf(b) = "neg_zero" <=> b = negative
      /\ ClassOf(b) = "pos_zero" <=> b = 0
  <2>1. ASSUME NEW w \in Words
        PROVE  (ClassOf(w) = "neg_zero" <=> w = negative) /\ (ClassOf(w) = "pos_zero" <=> w = 0)
    <3> HIDE DEF negative
    <3>1. /\ ClassOf(w) = "neg_zero" <=> Magnitude(w) = 0 /\ SignOf(w) = 1
          /\ ClassOf(w) = "pos_zero" <=> Magnitude(w) = 0 /\ SignOf(w) = 0
      BY ClassesOf
    <3> QED BY <1>7, <3>1, SameParts
  <2> QED BY <1>1, <2>1
<1>9. negative # 0
  BY <1>7
<1> HIDE DEF negative
<1>10. OppositeZeros(a, b) <=> (a = negative /\ b = 0) \/ (a = 0 /\ b = negative)
  <2>1. {a, b} = {0, negative} <=> (a = negative /\ b = 0) \/ (a = 0 /\ b = negative)
    BY <1>9
  <2> QED BY <2>1 DEF OppositeZeros, negative
<1>11. /\ second(0) <=> (a = 0 /\ b = negative)
                         \/ (~OppositeZeros(a, b) /\ ~less)
       /\ second(1) <=> (a = negative /\ b = 0)
                         \/ (~OppositeZeros(a, b) /\ less)
  <2>1. CASE a = negative /\ b = 0
    BY <1>4, <1>8, <1>9, <1>10, <2>1
  <2>2. CASE a = 0 /\ b = negative
    BY <1>4, <1>8, <1>9, <1>10, <2>2
  <2>3. CASE ~OppositeZeros(a, b)
    BY <1>4, <1>5, <1>8, <1>10, <2>3
  <2> QED BY <1>10, <2>1, <2>2, <2>3
<1> HIDE DEF second
<1>12. /\ riscv_emulate_fmins(x, y) =
            CASE IsNaN(a) \/ IsNaN(b) -> NotANumber(a, b)
              [] OppositeZeros(a, b) -> negative
              [] OTHER -> IF before THEN a ELSE b
       /\ riscv_emulate_fmaxs(x, y) =
            CASE IsNaN(a) \/ IsNaN(b) -> NotANumber(a, b)
              [] OppositeZeros(a, b) -> 0
              [] OTHER -> IF before THEN b ELSE a
  BY <1>1 DEF riscv_emulate_fmins, riscv_emulate_fmaxs, before, negative
<1>13. (IsNaN(a) \/ IsNaN(b)) /\ OppositeZeros(a, b) => FALSE
  BY <1>6, <1>8, <1>10 DEF NaNs
<1>14. CASE IsNaN(a) \/ IsNaN(b)
  <2>1. result(0) = NotANumber(a, b) /\ result(1) = NotANumber(a, b)
    BY <1>3, <1>6, <1>14 DEF NotANumber
  <2>2. NotANumber(a, b) \in Words
    BY <1>1, QuietNaNWord DEF NotANumber
  <2>3. /\ riscv_emulate_fmins(x, y) = NotANumber(a, b)
        /\ riscv_emulate_fmaxs(x, y) = NotANumber(a, b)
    BY <1>12, <1>13, <1>14
  <2> QED BY <2>1, <2>2, <2>3 DEF result, a, b
<1>15. CASE ~IsNaN(a) /\ ~IsNaN(b)
  <2>1. \A funct3 : result(funct3) = IF second(funct3) THEN b ELSE a
    BY <1>3, <1>6, <1>15
  <2>2. CASE OppositeZeros(a, b)
    <3>1. riscv_emulate_fmins(x, y) = negative /\ riscv_emulate_fmaxs(x, y) = 0
      BY <1>12, <1>15, <2>2
    <3>2. result(0) = negative /\ result(1) = 0
      BY <1>9, <1>10, <1>11, <2>1, <2>2
    <3> QED BY <1>7, <3>1, <3>2 DEF result, a, b
  <2>3. CASE ~OppositeZeros(a, b)
    <3>1. /\ riscv_emulate_fmins(x, y) = IF before THEN a ELSE b
          /\ riscv_emulate_fmaxs(x, y) = IF before THEN b ELSE a
      BY <1>12, <1>15, <2>3
    <3>2. (second(0) <=> ~less) /\ (second(1) <=> less)
      BY <1>5, <1>10, <1>11, <2>3
    <3>3. /\ result(0) = IF before THEN a ELSE b
          /\ result(1) = IF before THEN b ELSE a
      BY <1>2, <2>1, <3>2
    <3> QED BY <1>1, <3>1, <3>3 DEF result, a, b
  <2> QED BY <2>2, <2>3
<1> QED BY <1>14, <1>15

LEMMA SignResults ==
    ASSUME NEW x \in Words, NEW y \in Words
    PROVE  LET result(funct3) == SignInjected(funct3, OperandData(x), OperandData(y))
           IN  /\ result(0) = riscv_emulate_fsgnjs(x, y)
               /\ result(1) = riscv_emulate_fsgnjns(x, y)
               /\ result(2) = riscv_emulate_fsgnjxs(x, y)
               /\ result(0) \in Words /\ result(1) \in Words /\ result(2) \in Words
<1> DEFINE a == OperandData(x)
           b == OperandData(y)
           s == SignOf(a)
           t == SignOf(y)
           made(sign) == FloatWord(sign, 0, Magnitude(a))
           result(funct3) == SignInjected(funct3, a, b)
<1>1. a = subnormal_flush(x) /\ a \in Words /\ SignOf(b) = t
  BY Flushed
<1>2. Bits(0, 1, 0) = 0 /\ Bits(1, 1, 0) = 1 /\ Bits(2, 1, 0) = 2
  BY DEF Bits
<1>3. /\ result(0) = made(t) /\ result(1) = made(1 - t)
      /\ result(2) = made(IF s = t THEN 0 ELSE 1)
  BY <1>1, <1>2 DEF SignInjected
<1> HIDE DEF a, b
<1>4. s \in {0, 1} /\ t \in {0, 1}
  BY <1>1, FloatParts
<1>5. Magnitude(a) \in Nat /\ Magnitude(a) < 2 ^ (XLEN - 1)
  BY <1>1, FloatParts
<1>6. \A sign \in {0, 1} : made(sign) \in Words
  BY <1>5, FloatMade
<1>7. made(s) = a
  <2>1. made(s) \in Words /\ SignOf(made(s)) = s /\ Magnitude(made(s)) = Magnitude(a)
    BY <1>4, <1>5, FloatMade
  <2> QED BY <1>1, <2>1, SameParts
<1>8. Negated(a) = made(1 - s)
  BY DEF Negated
<1>9. /\ riscv_emulate_fsgnjs(x, y) = IF s = t THEN a ELSE Negated(a)
      /\ riscv_emulate_fsgnjns(x, y) = IF s = t THEN Negated(a) ELSE a
      /\ riscv_emulate_fsgnjxs(x, y) = made(IF s = t THEN 0 ELSE 1)
  BY <1>1 DEF riscv_emulate_fsgnjs, riscv_emulate_fsgnjns, riscv_emulate_fsgnjxs
<1> HIDE DEF s, t, made, result
<1>10. s # t => 1 - s = t /\ s = 1 - t
  BY <1>4
<1>11. /\ result(0) = riscv_emulate_fsgnjs(x, y)
       /\ result(1) = riscv_emulate_fsgnjns(x, y)
       /\ result(2) = riscv_emulate_fsgnjxs(x, y)
  BY <1>3, <1>7, <1>8, <1>9, <1>10
<1>12. result(0) \in Words /\ result(1) \in Words /\ result(2) \in Words
  BY <1>3, <1>4, <1>6
<1> QED BY <1>11, <1>12 DEF result, a, b

LEMMA ClassResults ==
    ASSUME NEW x \in Words
    PROVE  /\ ClassResult(OperandData(x)) = riscv_emulate_fclasss(x)
           /\ ClassResult(OperandData(x)) \in Words
<1> DEFINE a == OperandData(x)
           s == SignOf(a)
           class == fpclassify(a)
           position == CHOOSE k \in 1 .. 10 : ClassNames[k] = ClassOf(a)
<1>1. a = subnormal_flush(x) /\ a \in Words
  BY Flushed
<1>2. class # "FP_SUBNORMAL"
  <2>1. Magnitude(a) = 0 \/ ~(Magnitude(a) < 2 ^ MAN)
    BY Flushed
  <2> HIDE DEF a
  <2> QED BY <1>1, <2>1, FloatClasses
<1> HIDE DEF a
<1>3. class \in {"FP_ZERO", "FP_INFINITE", "FP_NAN", "FP_NORMAL"}
  <2>1. class \in {"FP_ZERO", "FP_SUBNORMAL", "FP_INFINITE", "FP_NAN", "FP_NORMAL"}
    BY DEF fpclassify
  <2> QED BY <1>2, <2>1
<1>4. ClassOf(a) = CASE class = "FP_INFINITE" -> IF s = 1 THEN "neg_inf" ELSE "pos_inf"
                     [] class = "FP_ZERO" -> IF s = 1 THEN "neg_zero" ELSE "pos_zero"
                     [] class = "FP_NAN" -> IF Bit(a, MAN - 1) = 1 THEN "qnan" ELSE "snan"
                     [] OTHER -> IF s = 1 THEN "neg_norm" ELSE "pos_norm"
  BY DEF ClassOf, IsInfinite, IsZero, IsNaN
<1>5. riscv_emulate_fclasss(x) =
        CASE class = "FP_INFINITE"  -> IF s = 1 THEN 2 ^ 0 ELSE 2 ^ 7
          [] class = "FP_NORMAL"    -> IF s = 1 THEN 2 ^ 1 ELSE 2 ^ 6
          [] class = "FP_SUBNORMAL" -> IF s = 1 THEN 2 ^ 2 ELSE 2 ^ 5
          [] class = "FP_ZERO"      -> IF s = 1 THEN 2 ^ 3 ELSE 2 ^ 4
          [] class = "FP_NAN"       -> IF Bit(a, MAN - 1) = 1 THEN 2 ^ 9 ELSE 2 ^ 8
  BY <1>1 DEF riscv_emulate_fclasss
<1> HIDE DEF class, s
<1>6. /\ ClassOf(a) = "neg_inf" => position - 1 = 0
      /\ ClassOf(a) = "neg_norm" => position - 1 = 1
      /\ ClassOf(a) = "neg_zero" => position - 1 = 3
      /\ ClassOf(a) = "pos_zero" => position - 1 = 4
      /\ ClassOf(a) = "pos_norm" => position - 1 = 6
      /\ ClassOf(a) = "pos_inf" => position - 1 = 7
      /\ ClassOf(a) = "snan" => position - 1 = 8
      /\ ClassOf(a) = "qnan" => position - 1 = 9
  BY DEF ClassNames
<1>7. ClassOf(a) \in {"neg_inf", "neg_norm", "neg_zero", "pos_zero", "pos_norm", "pos_inf",
                      "snan", "qnan"} => position \in 1 .. 10
  BY DEF ClassNames
<1> HIDE DEF position
<1>8. ClassResult(a) = riscv_emulate_fclasss(x) /\ position \in 1 .. 10
  <2> DEFINE exponent == position - 1
  <2>1. ClassResult(a) = 2 ^ exponent
    BY DEF ClassResult, position
  <2>2. riscv_emulate_fclasss(x) =
          2 ^ CASE class = "FP_INFINITE"  -> IF s = 1 THEN 0 ELSE 7
                [] class = "FP_NORMAL"    -> IF s = 1 THEN 1 ELSE 6
                [] class = "FP_ZERO"      -> IF s = 1 THEN 3 ELSE 4
                [] class = "FP_NAN"       -> IF Bit(a, MAN - 1) = 1 THEN 9 ELSE 8
    BY <1>3, <1>5
  <2>3. exponent = CASE class = "FP_INFINITE"  -> IF s = 1 THEN 0 ELSE 7
                     [] class = "FP_NORMAL"    -> IF s = 1 THEN 1 ELSE 6
                     [] class = "FP_ZERO"      -> IF s = 1 THEN 3 ELSE 4
                     [] class = "FP_NAN"       -> IF Bit(a, MAN - 1) = 1 THEN 9 ELSE 8
    BY <1>3, <1>4, <1>6
  <2>4. position \in 1 .. 10
    BY <1>3, <1>4, <1>7
  <2> QED BY <2>1, <2>2, <2>3, <2>4
<1>9. 2 ^ (position - 1) \in Words
  <2>1. XLEN \in Nat /\ XLEN >= 10
    BY Powers, FloatSizes
  <2>2. position \in 1 .. XLEN /\ position \in 0 .. XLEN /\ position - 1 \in 0 .. XLEN
        /\ XLEN \in 0 .. XLEN
    BY <1>8, <2>1
  <2> DEFINE single == 2 ^ (position - 1)
             double == 2 ^ position
             all == 2 ^ XLEN
  <2>3. single \in Nat /\ single >= 1 /\ double = 2 * single /\ double <= all /\ all \in Nat
    BY <2>1, <2>2, Powers
  <2> HIDE DEF single, double, all
  <2>4. single \in 0 .. all - 1
    BY <2>3
  <2> QED BY <2>4 DEF Words, single, all
<1>10. ClassResult(a) = 2 ^ (position - 1)
  BY DEF ClassResult, position
<1> QED BY <1>8, <1>9, <1>10 DEF a

\* How the instructions of the intrinsics are decoded.
LEMMA FloatDecoded ==
    /\ \A i \in {riscv_intrinsic_fmins, riscv_intrinsic_fmaxs} :
          CoProcessorOf(i) = "fpu" /\ OperationOf(i) = "minmax"
    /\ \A i \in {riscv_intrinsic_feqs, riscv_intrinsic_flts, riscv_intrinsic_fles} :
          CoProcessorOf(i) = "fpu" /\ OperationOf(i) = "comp"
    /\ \A i \in {riscv_intrinsic_fsgnjs, riscv_intrinsic_fsgnjns, riscv_intrinsic_fsgnjxs} :
          CoProcessorOf(i) = "fpu" /\ OperationOf(i) = "sgnj"
    /\ CoProcessorOf(riscv_intrinsic_fclasss) = "fpu"
    /\ OperationOf(riscv_intrinsic_fclasss) = "class"
    /\ riscv_intrinsic_fmins.funct3 = 0 /\ riscv_intrinsic_fmaxs.funct3 = 1
    /\ riscv_intrinsic_fles.funct3 = 0 /\ riscv_intrinsic_flts.funct3 = 1
    /\ riscv_intrinsic_feqs.funct3 = 2
    /\ riscv_intrinsic_fsgnjs.funct3 = 0 /\ riscv_intrinsic_fsgnjns.funct3 = 1
    /\ riscv_intrinsic_fsgnjxs.funct3 = 2
<1> USE DEF CUSTOM_INSTR_R2_TYPE, CMD_WORD_R2_TYPE
<1>1. ASSUME NEW i, i.opcode = opcode_fop_c
      PROVE  CoProcessorOf(i) = "fpu"
  BY <1>1 DEF CoProcessorOf, IsAluOperation, opcode_alu_c, opcode_alui_c, opcode_fop_c
<1>2. /\ \A i \in {riscv_intrinsic_fmins, riscv_intrinsic_fmaxs} :
            i.opcode = opcode_fop_c /\ i.funct7 = 20
      /\ \A i \in {riscv_intrinsic_feqs, riscv_intrinsic_flts, riscv_intrinsic_fles} :
            i.opcode = opcode_fop_c /\ i.funct7 = 80
      /\ \A i \in {riscv_intrinsic_fsgnjs, riscv_intrinsic_fsgnjns, riscv_intrinsic_fsgnjxs} :
            i.opcode = opcode_fop_c /\ i.funct7 = 16
      /\ riscv_intrinsic_fclasss.opcode = opcode_fop_c
      /\ riscv_intrinsic_fclasss.funct7 = 112
  BY DEF riscv_intrinsic_fmins, riscv_intrinsic_fmaxs, riscv_intrinsic_feqs, riscv_intrinsic_flts,
         riscv_intrinsic_fles, riscv_intrinsic_fsgnjs, riscv_intrinsic_fsgnjns,
         riscv_intrinsic_fsgnjxs, riscv_intrinsic_fclasss, opcode_fop_c
<1>3. ASSUME NEW i
      PROVE  /\ i.funct7 = 20 => OperationOf(i) = "minmax"
             /\ i.funct7 = 80 => OperationOf(i) = "comp"
             /\ i.funct7 = 16 => OperationOf(i) = "sgnj"
             /\ i.funct7 = 112 => OperationOf(i) = "class"
  <2>1. /\ Bits(20, 6, 2) = 5 /\ Bits(20, 6, 3) = 2
        /\ Bits(80, 6, 2) = 20 /\ Bits(80, 6, 3) = 10
        /\ Bits(16, 6, 2) = 4 /\ Bits(16, 6, 3) = 2
        /\ Bits(112, 6, 2) = 28 /\ Bits(112, 6, 3) = 14
    BY DEF Bits
  <2> QED BY <2>1 DEF OperationOf, UnitOf
<1>4. /\ riscv_intrinsic_fmins.funct3 = 0 /\ riscv_intrinsic_fmaxs.funct3 = 1
      /\ riscv_intrinsic_fles.funct3 = 0 /\ riscv_intrinsic_flts.funct3 = 1
      /\ riscv_intrinsic_feqs.funct3 = 2
      /\ riscv_intrinsic_fsgnjs.funct3 = 0 /\ riscv_intrinsic_fsgnjns.funct3 = 1
      /\ riscv_intrinsic_fsgnjxs.funct3 = 2
  BY DEF riscv_intrinsic_fmins, riscv_intrinsic_fmaxs, riscv_intrinsic_feqs, riscv_intrinsic_flts,
         riscv_intrinsic_fles, riscv_intrinsic_fsgnjs, riscv_intrinsic_fsgnjns,
         riscv_intrinsic_fsgnjxs
<1> QED BY <1>1, <1>2, <1>3, <1>4

LEMMA ComparisonAnswers ==
    ASSUME Operands, Answered, ctrl.wb
    PROVE  ComparisonsLikeEmulated
<1>1. rs.rs1 = a0 /\ rs.rs2 = a1 /\ a0 \in Words /\ a1 \in Words
  BY DEF Operands, a0, a1
<1>2. ASSUME CoProcessorOf(instr) = "fpu", fpu.result \in Words
      PROVE  AluResult = fpu.result
  <2>1. /\ "fpu" \in CoProcessors /\ ctrl.copro
        /\ \A cp \in CoProcessors \ {"fpu"} : Result(cp) = 0
    BY <1>2 DEF Answered
  <2>2. Result("fpu") = fpu.result
    BY DEF Result
  <2> QED BY <1>2, <2>1, <2>2, OnlyResult
<1> DEFINE a == OperandData(a0)
           b == OperandData(a1)
           less == LessThan(a0, a1)
<1>3. ASSUME CoProcessorOf(instr) = "fpu"
      PROVE  /\ OperationOf(instr) = "class" => fpu.result = ClassResult(a)
             /\ OperationOf(instr) = "comp" =>
                   fpu.result = Comparison(instr.funct3, a, b, a0 = a1, less)
             /\ OperationOf(instr) = "sgnj" => fpu.result = SignInjected(instr.funct3, a, b)
             /\ OperationOf(instr) = "minmax" => fpu.result = MinMax(instr.funct3, a, b, less)
  BY <1>1, <1>3 DEF Answered, FloatAnswer
<1>4. /\ instr = riscv_intrinsic_fmins => AluResult = riscv_emulate_fmins(a0, a1)
      /\ instr = riscv_intrinsic_fmaxs => AluResult = riscv_emulate_fmaxs(a0, a1)
  <2>1. /\ MinMax(0, a, b, less) = riscv_emulate_fmins(a0, a1)
        /\ MinMax(1, a, b, less) = riscv_emulate_fmaxs(a0, a1)
        /\ MinMax(0, a, b, less) \in Words /\ MinMax(1, a, b, less) \in Words
    BY <1>1, MinMaxResults
  <2> HIDE DEF a, b, less
  <2> QED BY <1>2, <1>3, <2>1, FloatDecoded
<1>5. /\ instr = riscv_intrinsic_feqs => AluResult = riscv_emulate_feqs(a0, a1)
      /\ ~(a0 = a1 /\ SignOf(a0) = 1) =>
           (instr = riscv_intrinsic_flts => AluResult = riscv_emulate_flts(a0, a1))
      /\ instr = riscv_intrinsic_fles => AluResult = riscv_emulate_fles(a0, a1)
  <2>1. OperationOf(instr) = "comp" /\ CoProcessorOf(instr) = "fpu" =>
           AluResult = Comparison(instr.funct3, a, b, a0 = a1, less)
    <3>1. Comparison(instr.funct3, a, b, a0 = a1, less) \in {0, 1}
      BY DEF Comparison
    <3>2. 0 \in Words /\ 1 \in Words
      <4>1. 2 ^ (XLEN - 1) \in Nat \ {0} /\ 2 ^ XLEN = 2 * 2 ^ (XLEN - 1)
        BY HighestBit, ZeroBits, FloatPowers
      <4> QED BY <4>1 DEF Words
    <3> QED BY <1>2, <1>3, <3>1, <3>2
  <2> QED BY <1>1, <2>1, FloatDecoded, ComparisonResults
<1>6. /\ instr = riscv_intrinsic_fsgnjs => AluResult = riscv_emulate_fsgnjs(a0, a1)
      /\ instr = riscv_intrinsic_fsgnjns => AluResult = riscv_emulate_fsgnjns(a0, a1)
      /\ instr = riscv_intrinsic_fsgnjxs => AluResult = riscv_emulate_fsgnjxs(a0, a1)
  <2>1. /\ SignInjected(0, a, b) = riscv_emulate_fsgnjs(a0, a1)
        /\ SignInjected(1, a, b) = riscv_emulate_fsgnjns(a0, a1)
        /\ SignInjected(2, a, b) = riscv_emulate_fsgnjxs(a0, a1)
        /\ \A funct3 \in {0, 1, 2} : SignInjected(funct3, a, b) \in Words
    BY <1>1, SignResults
  <2> HIDE DEF a, b, less
  <2> QED BY <1>2, <1>3, <2>1, FloatDecoded
<1>7. instr = riscv_intrinsic_fclasss => AluResult = riscv_emulate_fclasss(a0)
  BY <1>1, <1>2, <1>3, FloatDecoded, ClassResults
<1> QED BY <1>4, <1>5, <1>6, <1>7 DEF ComparisonsLikeEmulated, Gives

\* FEQ, FLE, FMIN, FMAX, the sign injections and FCLASS write what their
\* emulations return, for all operands, subnormal numbers, infinities and NaNs
\* included, and FLT for all but a negative number and itself; the comparison
\* that the FPU took from the ALU when it started is the right one.
THEOREM ComparisonsAreEmulated == Spec => []ComparisonsLikeEmulated
<1>1. Holds => ComparisonsLikeEmulated
  <2> SUFFICES ASSUME Holds PROVE ComparisonsLikeEmulated
    OBVIOUS
  <2>1. CASE Undisturbed
    BY <2>1, ComparisonAnswers DEF Holds, Undisturbed, Writes
  <2>2. CASE ~Undisturbed
    BY <2>2 DEF ComparisonsLikeEmulated, Gives
  <2> QED BY <2>1, <2>2
<1> QED BY <1>1, Answering, PTL

-----------------------------------------------------------------------------
(* Types. The ranges of the FPU's registers.                               *)

LEMMA RegisterWidths ==
    /\ 2 ^ MAN \in Nat /\ 2 ^ MAN >= 8
    /\ 2 ^ (MAN - 2) \in Nat \ {0} /\ 2 ^ MAN = 4 * 2 ^ (MAN - 2)
    /\ 2 ^ MAN = 2 * 2 ^ (MAN - 1)
    /\ 2 ^ (MAN + 1) = 2 * 2 ^ MAN /\ 2 ^ (MAN + 2) = 4 * 2 ^ MAN
    /\ 2 ^ (MAN + 3) = 8 * 2 ^ MAN /\ 2 ^ (MAN + 4) = 16 * 2 ^ MAN
    /\ 2 ^ (EXP + 1) = 2 * 2 ^ EXP /\ 2 ^ EXP = 2 * 2 ^ (EXP - 1)
    /\ 2 ^ (EXP - 1) \in Nat \ {0} /\ 2 ^ (XLEN + 1) \in Nat \ {0}
    /\ 2 ^ (XLEN + MAN + 3) = 2 ^ XLEN * (8 * 2 ^ MAN)
    /\ 2 ^ (XLEN + MAN + 3) \in Nat /\ 2 ^ (XLEN + MAN + 3) >= 32 * 2 ^ MAN
<1>1. /\ EXP \in Nat /\ MAN \in Nat /\ EXP >= 2 /\ MAN >= 3 /\ XLEN = 1 + EXP + MAN
      /\ XLEN \in Nat /\ XLEN >= 10
  BY FloatSizes, Powers
<1> DEFINE N == XLEN + MAN + 3
<1>2. \A n \in 0 .. N : 2 ^ n \in Nat \ {0} /\ \A m \in 0 .. n : 2 ^ n = 2 ^ m * 2 ^ (n - m)
  BY RegisterPowers
<1>3. 2 ^ 1 = 2 /\ 2 ^ 2 = 4 /\ 2 ^ 3 = 8 /\ 2 ^ 4 = 16
  OBVIOUS
<1>4. ASSUME NEW n \in Nat, NEW m \in Nat, n + m \in 0 .. N
      PROVE  2 ^ (n + m) = 2 ^ m * 2 ^ n /\ 2 ^ n \in Nat \ {0}
  <2>1. n \in 0 .. N /\ m \in 0 .. n + m /\ (n + m) - m = n
    BY <1>1, <1>4
  <2> HIDE DEF N
  <2> QED BY <1>2, <1>4, <2>1
<1>5. /\ MAN - 2 \in Nat /\ MAN - 1 \in Nat /\ MAN - 3 \in Nat /\ EXP - 1 \in Nat
      /\ (MAN - 3) + 3 = MAN /\ (MAN - 2) + 2 = MAN /\ (MAN - 1) + 1 = MAN
      /\ (EXP - 1) + 1 = EXP /\ XLEN - 4 \in Nat /\ (XLEN - 4) + 4 = XLEN
      /\ (MAN + 3) + XLEN = N /\ MAN + 3 \in Nat /\ XLEN + 1 \in 0 .. N
  BY <1>1
<1>6. /\ 2 ^ MAN = 8 * 2 ^ (MAN - 3) /\ 2 ^ (MAN - 3) \in Nat \ {0}
      /\ 2 ^ MAN = 4 * 2 ^ (MAN - 2) /\ 2 ^ (MAN - 2) \in Nat \ {0}
      /\ 2 ^ MAN = 2 * 2 ^ (MAN - 1) /\ 2 ^ (MAN - 1) \in Nat \ {0}
  <2>1. MAN \in 0 .. N
    BY <1>1
  <2> HIDE DEF N
  <2>2. 2 ^ MAN = 2 ^ 3 * 2 ^ (MAN - 3) /\ 2 ^ (MAN - 3) \in Nat \ {0}
    <3> DEFINE k == MAN - 3
    <3>1. k \in Nat /\ 3 \in Nat /\ k + 3 = MAN
      BY <1>5
    <3> HIDE DEF k
    <3> QED BY <1>4, <2>1, <3>1 DEF k
  <2>3. 2 ^ MAN = 2 ^ 2 * 2 ^ (MAN - 2) /\ 2 ^ (MAN - 2) \in Nat \ {0}
    <3> DEFINE k == MAN - 2
    <3>1. k \in Nat /\ 2 \in Nat /\ k + 2 = MAN
      BY <1>5
    <3> HIDE DEF k
    <3> QED BY <1>4, <2>1, <3>1 DEF k
  <2>4. 2 ^ MAN = 2 ^ 1 * 2 ^ (MAN - 1) /\ 2 ^ (MAN - 1) \in Nat \ {0}
    <3> DEFINE k == MAN - 1
    <3>1. k \in Nat /\ 1 \in Nat /\ k + 1 = MAN
      BY <1>5
    <3> HIDE DEF k
    <3> QED BY <1>4, <2>1, <3>1 DEF k
  <2> QED BY <1>3, <2>2, <2>3, <2>4
<1>7. /\ 2 ^ (MAN + 1) = 2 * 2 ^ MAN /\ 2 ^ (MAN + 2) = 4 * 2 ^ MAN
      /\ 2 ^ (MAN + 3) = 8 * 2 ^ MAN /\ 2 ^ (MAN + 4) = 16 * 2 ^ MAN /\ 2 ^ MAN \in Nat \ {0}
  <2>1. \A m \in 1 .. 4 : m \in Nat /\ MAN + m \in 0 .. N
    BY <1>1
  <2> HIDE DEF N
  <2>2. \A m \in 1 .. 4 : 2 ^ (MAN + m) = 2 ^ m * 2 ^ MAN /\ 2 ^ MAN \in Nat \ {0}
    BY <1>1, <1>4, <2>1
  <2> QED BY <1>3, <2>2
<1>8. /\ 2 ^ (EXP + 1) = 2 * 2 ^ EXP /\ 2 ^ EXP = 2 * 2 ^ (EXP - 1)
      /\ 2 ^ (EXP - 1) \in Nat \ {0}
  <2>1. EXP + 1 \in 0 .. N /\ EXP \in 0 .. N
    BY <1>1
  <2> HIDE DEF N
  <2>2. 2 ^ (EXP + 1) = 2 ^ 1 * 2 ^ EXP
    BY <1>1, <1>4, <2>1
  <2>3. 2 ^ EXP = 2 ^ 1 * 2 ^ (EXP - 1) /\ 2 ^ (EXP - 1) \in Nat \ {0}
    <3> DEFINE k == EXP - 1
    <3>1. k \in Nat /\ 1 \in Nat /\ k + 1 = EXP
      BY <1>5
    <3> HIDE DEF k
    <3> QED BY <1>4, <2>1, <3>1 DEF k
  <2> QED BY <1>3, <2>2, <2>3
<1>9. 2 ^ N = 2 ^ XLEN * 2 ^ (MAN + 3) /\ 2 ^ N \in Nat
  <2>1. N \in 0 .. N
    BY <1>1
  <2> HIDE DEF N
  <2> QED BY <1>1, <1>2, <1>4, <1>5, <2>1
<1>10. 2 ^ XLEN \in Nat /\ 2 ^ XLEN >= 16
  <2>1. XLEN \in 0 .. N
    BY <1>1
  <2> HIDE DEF N
  <2>2. 2 ^ XLEN = 2 ^ 4 * 2 ^ (XLEN - 4) /\ 2 ^ (XLEN - 4) \in Nat \ {0}
    <3> DEFINE k == XLEN - 4
    <3>1. k \in Nat /\ 4 \in Nat /\ k + 4 = XLEN
      BY <1>5
    <3> HIDE DEF k
    <3> QED BY <1>4, <2>1, <3>1 DEF k
  <2> QED BY <1>3, <2>2
<1> DEFINE W == 2 ^ XLEN
           P == 2 ^ MAN
<1>11. W * (8 * P) >= 32 * P
  <2>1. W - 16 \in Nat /\ P \in Nat /\ W \in Nat
    BY <1>7, <1>10
  <2> HIDE DEF W, P
  <2>2. (W - 16) * (8 * P) \in Nat /\ W * (8 * P) = (W - 16) * (8 * P) + 128 * P
    BY <2>1
  <2> QED BY <2>1, <2>2
<1>12. 2 ^ (XLEN + 1) \in Nat \ {0}
  BY <1>2, <1>5
<1> QED BY <1>6, <1>7, <1>8, <1>9, <1>11, <1>12

\* The comparison of two numbers is a truth value.
LEMMA MaximumOf ==
    ASSUME NEW a \in Int, NEW b \in Int
    PROVE  Max({a, b}) = IF a >= b THEN a ELSE b
BY DEF Max

\* A shift to the right keeps within its number, the sticky bit included.
LEMMA ShiftedStays ==
    ASSUME NEW n \in Nat
    PROVE  ShiftedToSticky(n) \in 0 .. n
<1> DEFINE q == n \div 4
           r == n % 4
<1>1. q \in Int /\ r \in Int /\ 0 <= r /\ r < 4 /\ n = 4 * q + r
  BY DivMod
<1>2. ShiftedToSticky(n) = 2 * q + (IF r = 0 THEN 0 ELSE 1)
  BY DEF ShiftedToSticky
<1> HIDE DEF q, r
<1> QED BY <1>1, <1>2

LEMMA OperandParts ==
    ASSUME NEW w \in Words
    PROVE  /\ SignOf(w) \in {0, 1}
           /\ ExponentOf(w) \in 0 .. AllOnes /\ MantissaOf(w) \in 0 .. 2 ^ MAN - 1
           /\ HiddenOne(w) \in Nat /\ HiddenOne(w) < 2 * 2 ^ MAN
<1>1. /\ SignOf(w) \in {0, 1}
      /\ ExponentOf(w) \in 0 .. AllOnes /\ MantissaOf(w) \in 0 .. 2 ^ MAN - 1
  BY FloatParts
<1> DEFINE P == 2 ^ MAN
           m == MantissaOf(w)
<1>2. P \in Nat /\ m \in 0 .. P - 1
  BY <1>1, RegisterWidths
<1>3. HiddenOne(w) = P + m
  BY DEF HiddenOne
<1> HIDE DEF P, m
<1>4. HiddenOne(w) \in Nat /\ HiddenOne(w) < 2 * P
  BY <1>2, <1>3
<1> QED BY <1>1, <1>4 DEF P

LEMMA OperandsBySize ==
    ASSUME NEW a \in Words, NEW b \in Words
    PROVE  /\ SmallOperand(a, b) \in Words /\ LargeOperand(a, b) \in Words
           /\ ExponentOf(SmallOperand(a, b)) <= ExponentOf(LargeOperand(a, b))
<1>1. ExponentOf(a) \in Int /\ ExponentOf(b) \in Int
  BY FloatPowers, OperandParts
<1> QED BY <1>1 DEF SmallOperand, LargeOperand, FirstIsSmall

\* The mantissas given to the normalizer.
LEMMA MantissaOfSum ==
    ASSUME NEW a \in Words, NEW b \in Words, NEW aligned \in 0 .. 2 ^ (MAN + 4) - 1, NEW subtract
    PROVE  AddMantissa(a, b, subtract, aligned) \in 0 .. 2 ^ (XLEN + MAN + 3) - 1
<1> DEFINE P == 2 ^ MAN
           large == 8 * HiddenOne(LargeOperand(a, b))
           N == 2 ^ (XLEN + MAN + 3)
<1>1. /\ large \in Nat /\ large < 16 * P /\ P \in Nat /\ aligned \in 0 .. 16 * P - 1
      /\ N \in Nat /\ N >= 32 * P
  BY OperandParts, OperandsBySize, RegisterWidths
<1> HIDE DEF large, P, N
<1>2. Max({aligned - large, large - aligned}) \in 0 .. 16 * P
  <2>1. aligned - large \in Int /\ large - aligned \in Int
    BY <1>1
  <2> DEFINE x == aligned - large
             y == large - aligned
  <2>2. Max({x, y}) = IF x >= y THEN x ELSE y
    BY <2>1, MaximumOf
  <2> QED BY <1>1, <2>2
<1>3. AddMantissa(a, b, subtract, aligned)
        \in {large + aligned, Max({aligned - large, large - aligned})}
  BY DEF AddMantissa, large
<1> QED BY <1>1, <1>2, <1>3 DEF N

LEMMA MantissaOfProduct ==
    ASSUME NEW a \in Words, NEW b \in Words
    PROVE  LET product == MulMantissa(a, b)
           IN  2 * (product \div 2 ^ (MAN - 2)) + (IF product % 2 ^ (MAN - 2) = 0 THEN 0 ELSE 1)
                 \in 0 .. 2 ^ (XLEN + MAN + 3) - 1
<1> DEFINE p == 2 ^ (MAN - 2)
           x == HiddenOne(a)
           y == HiddenOne(b)
           product == x * y
           N == 2 ^ (XLEN + MAN + 3)
<1>1. /\ p \in Nat \ {0} /\ x \in Nat /\ x < 8 * p /\ y \in Nat /\ y < 8 * p
      /\ N \in Nat /\ N >= 128 * p
  <2>1. /\ x \in Nat /\ x < 2 * 2 ^ MAN /\ y \in Nat /\ y < 2 * 2 ^ MAN
        /\ p \in Nat \ {0} /\ 2 ^ MAN = 4 * p /\ N \in Nat /\ N >= 32 * 2 ^ MAN
    BY OperandParts, RegisterWidths
  <2> HIDE DEF x, y, p, N
  <2> QED BY <2>1
<1>2. MulMantissa(a, b) = product
  BY DEF MulMantissa
<1> HIDE DEF p, x, y, N
<1>3. product \in Nat /\ product < p * (64 * p)
  <2>1. product <= (8 * p) * y
    <3>1. (8 * p - x) * y \in Nat /\ (8 * p) * y = x * y + (8 * p - x) * y
      BY <1>1
    <3> QED BY <1>1, <3>1
  <2>2. (8 * p) * y < p * (64 * p)
    <3>1. 8 * p - y \in Nat \ {0}
      BY <1>1
    <3>2. (8 * p) * (8 * p - y) \in Nat \ {0}
      BY <1>1, <3>1
    <3>3. p * (64 * p) = (8 * p) * y + (8 * p) * (8 * p - y)
      BY <1>1
    <3>4. (8 * p) * y \in Nat
      BY <1>1
    <3> DEFINE u == (8 * p) * y
               v == (8 * p) * (8 * p - y)
    <3> HIDE DEF u, v
    <3>5. u < u + v
      BY <3>2, <3>4 DEF u, v
    <3> QED BY <3>3, <3>5 DEF u, v
  <2>3. product \in Nat /\ (8 * p) * y \in Nat /\ p * (64 * p) \in Nat
    BY <1>1
  <2> HIDE DEF product
  <2> DEFINE u == (8 * p) * y
             v == p * (64 * p)
  <2>4. product <= u /\ u < v /\ product \in Nat /\ u \in Nat /\ v \in Nat
    BY <2>1, <2>2, <2>3
  <2> HIDE DEF u, v
  <2>5. product \in Nat /\ product < v
    BY <2>4
  <2> QED BY <2>5 DEF v
<1> HIDE DEF product
<1> DEFINE q == product \div p
           r == product % p
<1>4. q \in Int /\ r \in Int /\ 0 <= r /\ r < p /\ product = p * q + r
  BY <1>1, <1>3, DivMod
<1> HIDE DEF q, r
<1>5. q >= 0
  <2>1. ASSUME q <= -1 PROVE FALSE
    <3>1. p * (-1 - q) \in Nat /\ p * q = -p - p * (-1 - q)
      BY <1>1, <1>4, <2>1
    <3> QED BY <1>1, <1>3, <1>4, <3>1
  <2> QED BY <1>4, <2>1
<1>6. q < 64 * p
  <2>1. ASSUME q >= 64 * p PROVE FALSE
    <3>1. q - 64 * p \in Nat
      BY <1>1, <1>4, <2>1
    <3>2. p * (q - 64 * p) \in Nat /\ p * q = p * (64 * p) + p * (q - 64 * p)
      BY <1>1, <1>4, <3>1
    <3>3. p * (64 * p) \in Nat
      BY <1>1
    <3> DEFINE u == p * (64 * p)
               v == p * (q - 64 * p)
    <3>4. product < u /\ product = u + v + r /\ u \in Nat /\ v \in Nat
      BY <1>3, <1>4, <3>2, <3>3
    <3> HIDE DEF u, v
    <3> QED BY <1>3, <1>4, <3>4
  <2> QED BY <1>1, <1>4, <2>1
<1>7. 2 * q + (IF r = 0 THEN 0 ELSE 1) \in 0 .. N - 1
  BY <1>1, <1>4, <1>5, <1>6
<1> QED BY <1>2, <1>7 DEF q, r, p, N

FlagNames == {"nv", "of", "uf", "nx"}
UnitNames == {"class", "comp", "i2f", "f2i", "sgnj", "minmax", "addsub", "mul"}

\* The registers of the FPU.
ControlTypes ==
    /\ {"busy", "after", "valid", "op", "equal", "less", "frm", "a", "b", "sub", "neg", "abs",
        "result", "flags"} \subseteq DOMAIN fpu
    /\ fpu.after \in 0 .. 4 /\ fpu.op \in UnitNames /\ fpu.frm \in 0 .. 3
    /\ fpu.a \in Words /\ fpu.b \in Words /\ fpu.abs \in Words /\ fpu.result \in Words
    /\ fpu.flags \subseteq FlagNames
AdderTypes ==
    /\ {"state", "aligned", "exp"} \subseteq DOMAIN adder
    /\ adder.exp \in 0 .. AllOnes /\ adder.aligned \in 0 .. 2 ^ (MAN + 4) - 1
    /\ adder.state = "ALIGN" => adder.exp <= ExponentOf(LargeOperand(fpu.a, fpu.b))
NormalizerRecord(r) ==
    /\ {"state", "norm_r", "cnt", "cnt_pre", "of", "uf", "rounded", "sign", "class", "flags",
        "sreg", "left", "result", "done"} \subseteq DOMAIN r
    /\ r.state \in {"S_IDLE", "S_PREPARE_I2F", "S_CHECK_I2F", "S_PREPARE_NORM",
                    "S_PREPARE_SHIFT", "S_NORMALIZE_BUSY", "S_ROUND", "S_CHECK", "S_FINALIZE"}
    /\ r.cnt \in 0 .. 2 ^ (EXP + 1) - 1 /\ r.sreg \in 0 .. 2 ^ (XLEN + MAN + 3) - 1
    /\ r.sign \in {0, 1} /\ r.flags \subseteq FlagNames /\ r.result \in Words
    /\ r.state = "S_CHECK_I2F" => ~r.left
    /\ r.state = "S_NORMALIZE_BUSY" /\ r.left => r.sreg < 2 ^ (MAN + 4)
NormalizerTypes == NormalizerRecord(norm)
ConverterRecord(r) ==
    /\ {"state", "unsign", "cnt", "rounded", "over", "under", "int", "mant", "s", "result_tmp",
        "result", "done"} \subseteq DOMAIN r
    /\ r.state \in {"S_IDLE", "S_PREPARE_F2I", "S_NORMALIZE_BUSY", "S_ROUND", "S_FINALIZE"}
    /\ r.cnt \in 0 .. AllOnes /\ r.mant \in 0 .. 2 ^ MAN - 1
    /\ r.int \in Words /\ r.result_tmp \in Words /\ r.result \in Words
ConverterTypes == ConverterRecord(f2i)

-----------------------------------------------------------------------------
(* The controller.                                                         *)

LEMMA AfterStart ==
    ASSUME NEW n \in 0 .. 4
    PROVE  Min({n + 1, 4}) = IF n < 4 THEN n + 1 ELSE 4
BY DEF Min

LEMMA NegatedWord ==
    ASSUME NEW a \in Words
    PROVE  (-a) % 2 ^ XLEN \in Words
<1> DEFINE m == 2 ^ XLEN
<1>1. m \in Nat \ {0} /\ -a \in Int
  BY FloatPowers, WordRange
<1>2. Words = 0 .. m - 1
  BY DEF Words
<1> HIDE DEF m
<1> DEFINE n == -a
<1>3. n \in Int
  BY <1>1
<1> HIDE DEF n
<1>4. n % m \in Int /\ 0 <= n % m /\ n % m < m
  BY <1>1, <1>3, DivMod
<1>5. n % m \in Words
  BY <1>1, <1>2, <1>4
<1> QED BY <1>5 DEF n, m

LEMMA ClassResultWord ==
    ASSUME NEW a
    PROVE  ClassResult(a) \in Words
<1> DEFINE position == CHOOSE k \in 1 .. 10 : ClassNames[k] = ClassOf(a)
<1>1. ClassOf(a) \in {"neg_inf", "neg_norm", "neg_zero", "pos_zero", "pos_norm", "pos_inf",
                      "snan", "qnan"}
  BY DEF ClassOf
<1>2. \E k \in 1 .. 10 : ClassNames[k] = ClassOf(a)
  <2>1. /\ ClassNames[1] = "neg_inf" /\ ClassNames[2] = "neg_norm" /\ ClassNames[4] = "neg_zero"
        /\ ClassNames[5] = "pos_zero" /\ ClassNames[7] = "pos_norm" /\ ClassNames[8] = "pos_inf"
        /\ ClassNames[9] = "snan" /\ ClassNames[10] = "qnan"
    BY DEF ClassNames
  <2>2. {1, 2, 4, 5, 7, 8, 9, 10} \subseteq 1 .. 10
    OBVIOUS
  <2> QED BY <1>1, <2>1, <2>2
<1>3. position \in 1 .. 10
  BY <1>2
<1> HIDE DEF position
<1>4. 2 ^ (position - 1) \in {1, 2, 4, 8, 16, 32, 64, 128, 256, 512}
  <2> DEFINE n == position - 1
  <2>1. \/ n = 0 \/ n = 1 \/ n = 2 \/ n = 3 \/ n = 4 \/ n = 5 \/ n = 6 \/ n = 7 \/ n = 8
        \/ n = 9
    BY <1>3
  <2> HIDE DEF n
  <2>2. \/ 2 ^ n = 2 ^ 0 \/ 2 ^ n = 2 ^ 1 \/ 2 ^ n = 2 ^ 2 \/ 2 ^ n = 2 ^ 3 \/ 2 ^ n = 2 ^ 4
        \/ 2 ^ n = 2 ^ 5 \/ 2 ^ n = 2 ^ 6 \/ 2 ^ n = 2 ^ 7 \/ 2 ^ n = 2 ^ 8 \/ 2 ^ n = 2 ^ 9
    BY <2>1, Zenon
  <2>3. 2 ^ n \in {1, 2, 4, 8, 16, 32, 64, 128, 256, 512}
    BY <2>2
  <2> QED BY <2>3 DEF n
<1>5. 2 ^ (position - 1) \in Nat /\ 2 ^ (position - 1) < 1024
  BY <1>4
<1>6. 2 ^ XLEN \in Nat /\ 2 ^ XLEN >= 1024
  <2>1. XLEN \in Nat /\ 10 \in 0 .. XLEN /\ XLEN \in 0 .. XLEN /\ XLEN - 10 \in 0 .. XLEN
    BY FloatSizes, Powers
  <2> DEFINE q == 2 ^ (XLEN - 10)
  <2>2. 2 ^ XLEN = 2 ^ 10 * q /\ q \in Nat /\ q >= 1
    BY <2>1, Powers
  <2> HIDE DEF q
  <2>3. 2 ^ 10 = 1024
    OBVIOUS
  <2> QED BY <2>2, <2>3
<1>7. ClassResult(a) = 2 ^ (position - 1)
  BY DEF ClassResult, position
<1> HIDE DEF position
<1> DEFINE r == 2 ^ (position - 1)
           m == 2 ^ XLEN
<1>8. r \in Nat /\ r < m /\ m \in Nat
  <2>1. r \in Nat /\ r < 1024 /\ m \in Nat /\ m >= 1024
    BY <1>5, <1>6
  <2> HIDE DEF r, m
  <2> QED BY <2>1
<1> HIDE DEF r
<1>9. r \in Words
  BY <1>8 DEF Words
<1> QED BY <1>7, <1>9 DEF r

LEMMA SignInjectedWord ==
    ASSUME NEW funct3, NEW a \in Words, NEW b \in Words
    PROVE  SignInjected(funct3, a, b) \in Words
<1> DEFINE sign == CASE Bits(funct3, 1, 0) = 1 -> 1 - SignOf(b)
                     [] Bits(funct3, 1, 0) = 2 -> IF SignOf(a) = SignOf(b) THEN 0 ELSE 1
                     [] OTHER -> SignOf(b)
<1>1. SignInjected(funct3, a, b) = FloatWord(sign, 0, Magnitude(a))
  BY DEF SignInjected
<1>2. SignOf(b) \in {0, 1}
  BY FloatParts
<1>3. sign \in {0, 1}
  BY <1>2
<1> HIDE DEF sign
<1> QED BY <1>1, <1>3, FloatParts, FloatMade

LEMMA OutputTyped ==
    ASSUME ControlTypes, NormalizerTypes, ConverterTypes
    PROVE  /\ OutputGate(instr) \in Words
           /\ FpuFlags \subseteq FlagNames
<1>1. ClassResult(fpu.a) \in Words
  BY ClassResultWord
<1>2. Comparison(instr.funct3, fpu.a, fpu.b, fpu.equal, fpu.less) \in Words
  <2>1. Comparison(instr.funct3, fpu.a, fpu.b, fpu.equal, fpu.less) \in {0, 1}
    BY DEF Comparison
  <2>2. 0 \in Words /\ 1 \in Words
    BY Powers, PlacesAreWords
  <2> QED BY <2>1, <2>2
<1>3. SignInjected(instr.funct3, fpu.a, fpu.b) \in Words
  BY SignInjectedWord DEF ControlTypes
<1>4. MinMax(instr.funct3, fpu.a, fpu.b, fpu.less) \in Words
  <2>1. MinMax(instr.funct3, fpu.a, fpu.b, fpu.less) \in {QuietNaN, fpu.a, fpu.b}
    BY DEF MinMax
  <2> QED BY <2>1, QuietNaNWord DEF ControlTypes
<1>5. FpuResult(instr) \in Words
  BY <1>1, <1>2, <1>3, <1>4 DEF FpuResult, NormalizerTypes, NormalizerRecord, ConverterTypes, ConverterRecord
<1>6. F2iFlags \subseteq FlagNames
  BY DEF F2iFlags, FlagNames
<1> QED BY <1>5, <1>6, ZeroBits DEF OutputGate, FpuFlags, NormalizerTypes, NormalizerRecord

LEMMA ControllerFields ==
    ASSUME ControlTypes, Clock
    PROVE  /\ {"busy", "after", "valid", "op", "equal", "less", "frm", "a", "b", "sub", "neg",
               "abs", "result", "flags"} \subseteq DOMAIN fpu'
           /\ fpu'.result = OutputGate(instr)
           /\ fpu'.flags = IF fpu.valid THEN FpuFlags ELSE {}
           /\ fpu'.abs = IF Negates(instr, rs.rs1) THEN (-rs.rs1) % 2 ^ XLEN ELSE rs.rs1
           /\ fpu.busy =>
                /\ fpu'.busy = ~CoreDone(instr) /\ fpu'.after = Min({fpu.after + 1, 4})
                /\ fpu'.op = fpu.op /\ fpu'.frm = fpu.frm /\ fpu'.a = fpu.a /\ fpu'.b = fpu.b
           /\ ~fpu.busy => fpu'.op = OperationOf(instr) /\ fpu'.frm = RoundingMode(instr)
           /\ ~fpu.busy /\ Start("fpu") =>
                /\ fpu'.busy /\ fpu'.after = 0
                /\ fpu'.a = OperandData(rs.rs1) /\ fpu'.b = OperandData(rs.rs2)
           /\ ~fpu.busy /\ ~Start("fpu") =>
                fpu'.after = 4 /\ fpu'.a = fpu.a /\ fpu'.b = fpu.b
<1> DEFINE control == ControlEngine(Start("fpu"), instr, rs.rs1 = rs.rs2,
                                    LessThan(rs.rs1, rs.rs2), rs.rs1, rs.rs2)
           abs == IF Negates(instr, rs.rs1) THEN (-rs.rs1) % 2 ^ XLEN ELSE rs.rs1
           flags == IF fpu.valid THEN FpuFlags ELSE {}
           Fields == {"busy", "after", "valid", "op", "equal", "less", "frm", "a", "b", "sub",
                      "neg", "abs", "result", "flags"}
<1>1. \E neg, sub :
        fpu' = [control EXCEPT !.result = OutputGate(instr), !.flags = flags, !.neg = neg,
                               !.abs = abs, !.sub = sub]
  BY DEF Clock, CoProcessorsClock, FpuClock
<1>2. Fields \subseteq DOMAIN control
  BY DEF ControlTypes, ControlEngine
<1>3. ASSUME fpu.busy
      PROVE  /\ control.busy = ~CoreDone(instr) /\ control.after = Min({fpu.after + 1, 4})
             /\ control.op = fpu.op /\ control.frm = fpu.frm
             /\ control.a = fpu.a /\ control.b = fpu.b
  BY <1>3 DEF ControlTypes, ControlEngine
<1>4. ASSUME ~fpu.busy
      PROVE  /\ control.op = OperationOf(instr) /\ control.frm = RoundingMode(instr)
             /\ Start("fpu") =>
                  /\ control.busy /\ control.after = 0
                  /\ control.a = OperandData(rs.rs1) /\ control.b = OperandData(rs.rs2)
             /\ ~Start("fpu") => control.after = 4 /\ control.a = fpu.a /\ control.b = fpu.b
  BY <1>4 DEF ControlTypes, ControlEngine
<1> HIDE DEF control, abs, flags
<1>5. /\ Fields \subseteq DOMAIN fpu'
      /\ fpu'.result = OutputGate(instr) /\ fpu'.flags = flags /\ fpu'.abs = abs
      /\ fpu'.busy = control.busy /\ fpu'.after = control.after
      /\ fpu'.op = control.op /\ fpu'.frm = control.frm
      /\ fpu'.a = control.a /\ fpu'.b = control.b
  BY <1>1, <1>2
<1> QED BY <1>3, <1>4, <1>5 DEF abs, flags

LEMMA ControlTyped ==
    ASSUME ControlTypes, NormalizerTypes, ConverterTypes, Operands, Clock
    PROVE  ControlTypes'
<1>1. fpu'.result \in Words /\ fpu'.flags \subseteq FlagNames
  BY OutputTyped, ControllerFields
<1>2. rs.rs1 \in Words /\ rs.rs2 \in Words /\ instr.funct3 \in 0 .. 2 ^ 3 - 1
  BY DEF Operands, Entries, Instructions, instr
<1>3. fpu'.abs \in Words
  BY <1>2, NegatedWord, ControllerFields
<1>4. fpu'.a \in Words /\ fpu'.b \in Words
  BY <1>2, Flushed, ControllerFields DEF ControlTypes
<1>5. fpu'.after \in 0 .. 4
  <2>1. fpu'.after \in {0, 4, Min({fpu.after + 1, 4})}
    BY ControllerFields
  <2>2. fpu.after \in 0 .. 4
    BY DEF ControlTypes
  <2>3. Min({fpu.after + 1, 4}) \in 0 .. 4
    BY <2>2, AfterStart
  <2> QED BY <2>1, <2>3
<1>6. RoundingMode(instr) \in 0 .. 3
  <2>1. Bits(instr.funct3, 1, 0) = (instr.funct3 \div 2 ^ 0) % 2 ^ 2
    BY DEF Bits
  <2>2. instr.funct3 \in 0 .. 7 /\ 2 ^ 0 = 1 /\ 2 ^ 2 = 4
    BY <1>2
  <2> QED BY <2>1, <2>2 DEF RoundingMode
<1>7. fpu'.frm \in 0 .. 3
  BY <1>6, ControllerFields DEF ControlTypes
<1>8. fpu'.op \in UnitNames
  BY ControllerFields DEF ControlTypes, OperationOf, UnitOf, UnitNames
<1> QED BY <1>1, <1>3, <1>4, <1>5, <1>7, <1>8, ControllerFields DEF ControlTypes

-----------------------------------------------------------------------------
(* One unit of the FPU at a time.                                          *)

\* Outside of its co-processor's wait no instruction gives a command.
Controlled ==
    /\ state = "ALU_WAIT" => ctrl.copro
    /\ ctrl.copro /\ ~cmd_ff => state = "ALU_WAIT"

\* When the units of the FPU are at work, by the operation and the periods since
\* its start.
Phases ==
    /\ fpu.after = 0 => fpu.busy /\ fpu.op = OperationOf(instr)
    /\ fpu.op = "mul" /\ fpu.after \in 1 .. 3 => fpu.busy
    /\ fpu.op = "i2f" /\ fpu.after = 1 => fpu.busy
    /\ adder.state # "IDLE" =>
         fpu.busy /\ fpu.after >= 1 /\ fpu.op = "addsub" /\ norm.state = "S_IDLE" /\ ~norm.done
    /\ norm.state # "S_IDLE" \/ norm.done =>
         /\ fpu.busy /\ fpu.after >= 2 /\ adder.state = "IDLE"
         /\ fpu.op \in {"addsub", "i2f"} \/ (fpu.op = "mul" /\ fpu.after = 4)
    /\ norm.done => norm.state = "S_IDLE"
    /\ f2i.state # "S_IDLE" \/ f2i.done => fpu.busy /\ fpu.after >= 1 /\ fpu.op = "f2i"
    /\ f2i.done => f2i.state = "S_IDLE"

LEMMA StartedOperation ==
    ASSUME Phases, NEW unit \in UnitNames, Started(instr, unit)
    PROVE  fpu.after = 0 /\ fpu.busy /\ fpu.op = unit
BY DEF Started, Phases, OperationOf, UnitNames

LEMMA ControlledStep ==
    ASSUME Controlled, Clock
    PROVE  Controlled'
<1>1. ExecuteEngine /\ cmd_ff' = ctrl.copro
  BY DEF Clock, Registers
<1>2. CASE EXECUTE
  BY <1>1, <1>2 DEF EXECUTE, Controlled, Off
<1>3. CASE ALU_WAIT
  BY <1>1, <1>3 DEF ALU_WAIT, Controlled, Off
<1>4. CASE ~EXECUTE /\ ~ALU_WAIT
  <2>1. ctrl' = Off /\ state' # "ALU_WAIT"
    BY <1>1, <1>4 DEF ExecuteEngine, SYS_WAIT, DispatchWaits, Dispatch, DispatchTraps, TRAP_ENTER,
                      TRAP_EXECUTE
  <2> QED BY <2>1 DEF Controlled, Off
<1> QED BY <1>2, <1>3, <1>4

LEMMA StartHolds ==
    ASSUME Controlled, Clock, Start("fpu")
    PROVE  instr' = instr
<1>1. state = "ALU_WAIT" /\ ExecuteEngine
  BY DEF Controlled, Start, Clock
<1> QED BY <1>1 DEF ExecuteEngine, SYS_WAIT, DispatchWaits, Dispatch, DispatchTraps,
                    TRAP_ENTER, TRAP_EXECUTE, EXECUTE, ALU_WAIT, instr

-----------------------------------------------------------------------------
(* The adder.                                                              *)

LEMMA AdderStates ==
    ASSUME ControlTypes, AdderTypes, Phases, Clock
    PROVE  /\ {"state", "aligned", "exp"} \subseteq DOMAIN adder'
           /\ adder'.state # "IDLE" => adder.state # "IDLE" \/ Started(instr, "addsub")
           /\ adder.state = "DONE" => adder'.state = "IDLE"
           /\ \/ adder'.aligned = adder.aligned /\ adder'.exp = adder.exp
                 /\ (adder'.state = "ALIGN" => adder.state = "ALIGN" /\ Aligned)
              \/ /\ adder.state = "COMPARE"
                 /\ adder'.aligned = IF AnyZero THEN 0
                                     ELSE 8 * HiddenOne(SmallOperand(fpu.a, fpu.b))
                 /\ adder'.exp = ExponentOf(SmallOperand(fpu.a, fpu.b))
              \/ /\ adder.state = "ALIGN" /\ ~Aligned
                 /\ adder'.aligned = ShiftedToSticky(adder.aligned)
                 /\ adder'.exp = adder.exp + 1
<1>1. AdderClock(instr)
  BY DEF Clock, CoProcessorsClock, FpuClock
<1>2. Started(instr, "addsub") => adder.state = "IDLE"
  BY DEF Started, Phases
<1>3. {"state", "aligned", "exp"} \subseteq DOMAIN adder
  BY DEF AdderTypes
<1>4. CASE Started(instr, "addsub")
  <2>1. adder' = [adder EXCEPT !.state = "COMPARE"]
    BY <1>1, <1>2, <1>4 DEF AdderClock
  <2> QED BY <1>2, <1>3, <1>4, <2>1
<1>5. CASE adder.state = "COMPARE"
  <2>1. adder' = [state   |-> "ALIGN",
                  aligned |-> IF AnyZero THEN 0 ELSE 8 * HiddenOne(SmallOperand(fpu.a, fpu.b)),
                  exp     |-> ExponentOf(SmallOperand(fpu.a, fpu.b))]
    BY <1>1, <1>2, <1>5 DEF AdderClock
  <2> QED BY <1>5, <2>1
<1>6. CASE adder.state = "ALIGN" /\ ~Aligned
  <2>1. adder' = [adder EXCEPT !.aligned = ShiftedToSticky(@), !.exp = @ + 1]
    BY <1>1, <1>2, <1>6 DEF AdderClock
  <2> QED BY <1>3, <1>6, <2>1
<1>7. CASE /\ ~Started(instr, "addsub") /\ adder.state # "COMPARE"
           /\ ~(adder.state = "ALIGN" /\ ~Aligned)
  <2>1. \E s \in {"SORT", "ADD", "DONE", "IDLE"} :
           /\ adder' = [adder EXCEPT !.state = s]
           /\ adder.state \notin {"ALIGN", "SORT", "ADD"} => s = "IDLE"
    <3>1. CASE adder.state = "ALIGN" /\ Aligned
      BY <1>1, <1>7, <3>1 DEF AdderClock
    <3>2. CASE adder.state = "SORT"
      BY <1>1, <1>7, <3>2 DEF AdderClock
    <3>3. CASE adder.state = "ADD"
      BY <1>1, <1>7, <3>3 DEF AdderClock
    <3>4. CASE adder.state \notin {"ALIGN", "SORT", "ADD"}
      <4>1. adder' = [adder EXCEPT !.state = "IDLE"]
        BY <1>1, <1>7, <3>4 DEF AdderClock
      <4> QED BY <4>1
    <3> QED BY <1>7, <3>1, <3>2, <3>3, <3>4
  <2> QED BY <1>3, <1>7, <2>1
<1> QED BY <1>4, <1>5, <1>6, <1>7

LEMMA AdderTyped ==
    ASSUME ControlTypes, AdderTypes, Phases, Clock
    PROVE  AdderTypes'
<1> DEFINE a == fpu.a
           b == fpu.b
           small == ExponentOf(SmallOperand(a, b))
           large == ExponentOf(LargeOperand(a, b))
           P == 2 ^ MAN
           hidden == HiddenOne(SmallOperand(a, b))
<1>1. /\ a \in Words /\ b \in Words
      /\ small \in 0 .. AllOnes /\ large \in 0 .. AllOnes /\ small <= large
      /\ hidden \in Nat /\ hidden < 2 * P /\ P \in Nat /\ P >= 8
      /\ 2 ^ (MAN + 4) = 16 * P
  BY OperandsBySize, OperandParts, RegisterWidths DEF ControlTypes
<1>2. /\ adder.exp \in 0 .. AllOnes /\ adder.aligned \in 0 .. 16 * P - 1
      /\ adder.state = "ALIGN" => adder.exp <= large
      /\ AllOnes \in Nat
  BY <1>1, FloatPowers DEF AdderTypes
<1>3. adder.state # "IDLE" => fpu'.a = a /\ fpu'.b = b
  BY ControllerFields DEF Phases
<1>4. CASE adder'.aligned = adder.aligned /\ adder'.exp = adder.exp
           /\ (adder'.state = "ALIGN" => adder.state = "ALIGN" /\ Aligned)
  BY <1>1, <1>2, <1>3, <1>4, AdderStates DEF AdderTypes
<1>5. CASE /\ adder.state = "COMPARE"
           /\ adder'.aligned = IF AnyZero THEN 0 ELSE 8 * hidden
           /\ adder'.exp = small
  <2>1. fpu'.a = a /\ fpu'.b = b
    BY <1>3, <1>5
  <2>2. LargeOperand(fpu.a, fpu.b)' = LargeOperand(a, b)
    BY <2>1
  <2>3. ExponentOf(LargeOperand(fpu.a, fpu.b))' = large
    BY <2>2
  <2>4. adder'.aligned \in {0, 8 * hidden}
    BY <1>5
  <2> HIDE DEF hidden, small, large, P
  <2>5. adder'.aligned \in 0 .. 16 * P - 1
    BY <1>1, <2>4
  <2> QED BY <1>1, <1>5, <2>3, <2>5, AdderStates DEF AdderTypes, P
<1>6. CASE /\ adder.state = "ALIGN" /\ ~Aligned
           /\ adder'.aligned = ShiftedToSticky(adder.aligned)
           /\ adder'.exp = adder.exp + 1
  <2>1. fpu'.a = a /\ fpu'.b = b
    BY <1>3, <1>6
  <2>2. LargeOperand(fpu.a, fpu.b)' = LargeOperand(a, b)
    BY <2>1
  <2>3. ExponentOf(LargeOperand(fpu.a, fpu.b))' = large
    BY <2>2
  <2>4. ShiftedToSticky(adder.aligned) \in 0 .. adder.aligned
    BY <1>1, <1>2, ShiftedStays
  <2>5. adder.exp % 2 ^ EXP = adder.exp
    <3> DEFINE E == 2 ^ EXP
    <3>1. E \in Nat \ {0} /\ AllOnes = E - 1
      BY FloatPowers DEF AllOnes
    <3> HIDE DEF E
    <3>2. adder.exp \in Int /\ 0 <= adder.exp /\ adder.exp < E
      BY <1>2, <3>1
    <3>3. 0 \in Int /\ adder.exp = E * 0 + adder.exp
      BY <3>1, <3>2
    <3>4. adder.exp % E = adder.exp
      BY <3>1, <3>2, <3>3, Division
    <3> QED BY <3>4 DEF E
  <2>6. adder.exp # large
    BY <1>6, <2>5 DEF Aligned
  <2> HIDE DEF small, large, P
  <2>7. adder'.exp \in 0 .. AllOnes /\ adder'.exp <= large
    BY <1>1, <1>2, <1>6, <2>6
  <2>8. adder'.aligned \in 0 .. 16 * P - 1
    BY <1>1, <1>2, <1>6, <2>4
  <2> QED BY <1>1, <2>3, <2>7, <2>8, AdderStates DEF AdderTypes, P
<1> QED BY <1>4, <1>5, <1>6, AdderStates

-----------------------------------------------------------------------------
(* The normalizer.                                                         *)

LEMMA FinalWordTyped ==
    ASSUME NormalizerTypes
    PROVE  FinalWord \in Words
<1> DEFINE P == 2 ^ MAN
           E == 2 ^ EXP
           e == norm.cnt % 2 ^ EXP
           signed(word) == FloatWord(norm.sign, 0, word)
<1>1. norm.sign \in {0, 1} /\ norm.cnt \in Int /\ norm.sreg \in Int
  BY RegisterWidths, FloatPowers DEF NormalizerTypes, NormalizerRecord
<1>2. /\ P \in Nat \ {0} /\ E \in Nat \ {0} /\ 2 ^ (XLEN - 1) = P * E /\ 2 ^ (XLEN - 1) \in Nat
  BY FloatPowers
<1>3. /\ signed(Infinity) \in Words /\ QuietNaN \in Words /\ signed(0) \in Words
      /\ FloatWord(1, 0, 0) \in Words /\ FloatWord(0, 0, 0) \in Words
  <2>1. Infinity \in Nat /\ Infinity < 2 ^ (XLEN - 1)
    BY ZeroBits, FloatClasses
  <2>2. 0 \in Nat /\ 0 < 2 ^ (XLEN - 1)
    BY FloatPowers
  <2> QED BY <1>1, <2>1, <2>2, FloatMade, QuietNaNWord
<1>4. FloatWord(norm.sign, e, Lower) \in Words
  <2>1. e \in Int /\ 0 <= e /\ e < E
    BY <1>1, <1>2, DivMod
  <2>2. Lower \in Int /\ 0 <= Lower /\ Lower < P
    <3> DEFINE n == norm.sreg \div 8
    <3>1. n \in Int
      BY <1>1
    <3> HIDE DEF n
    <3>2. n % P \in Int /\ 0 <= n % P /\ n % P < P
      BY <1>2, <3>1, DivMod
    <3> QED BY <3>2 DEF Lower, n
  <2> DEFINE low == Lower
             m == e * P + low
             H == 2 ^ (XLEN - 1)
  <2> HIDE DEF e, P, E
  <2>3. m \in Nat /\ m < H
    <3>1. E - 1 - e \in Nat
      BY <1>2, <2>1
    <3>2. P * (E - 1 - e) \in Nat /\ P * E = e * P + P + P * (E - 1 - e) /\ e * P \in Nat
      BY <1>2, <2>1, <3>1
    <3> HIDE DEF low
    <3>3. low \in Int /\ 0 <= low /\ low < P
      BY <2>2 DEF low
    <3> QED BY <1>2, <3>2, <3>3
  <2>4. FloatWord(norm.sign, 0, m) \in Words
    BY <1>1, <2>3, FloatMade
  <2>5. FloatWord(norm.sign, e, Lower) = FloatWord(norm.sign, 0, m)
    <3>1. /\ FloatWord(norm.sign, e, Lower) = norm.sign * 2 ^ (XLEN - 1) + e * 2 ^ MAN + Lower
          /\ FloatWord(norm.sign, 0, m) = norm.sign * 2 ^ (XLEN - 1) + 0 * 2 ^ MAN + m
      BY DEF FloatWord
    <3> DEFINE s == norm.sign * 2 ^ (XLEN - 1)
               t == e * P
    <3>2. s \in Int /\ t \in Int /\ low \in Int /\ 0 * 2 ^ MAN = 0
      BY <1>1, <1>2, <2>1, <2>2, FloatPowers
    <3>3. s + t + low = s + 0 + (t + low)
      <4> HIDE DEF s, t, low
      <4> QED BY <3>2
    <3> QED BY <3>1, <3>2, <3>3 DEF P
  <2> QED BY <2>4, <2>5
<1> HIDE DEF e
<1>5. FinalWord \in {QuietNaN, signed(Infinity), FloatWord(1, 0, 0), FloatWord(0, 0, 0),
                     signed(0), FloatWord(norm.sign, e, Lower)}
  BY DEF FinalWord, e
<1> QED BY <1>3, <1>4, <1>5

LEMMA InputTyped ==
    ASSUME ControlTypes, AdderTypes
    PROVE  /\ DOMAIN NormalizerInput = {"state", "cnt", "sign", "class", "flags"}
           /\ NormalizerInput.state \in {"S_PREPARE_NORM", "S_PREPARE_I2F"}
           /\ NormalizerInput.cnt \in 0 .. 2 ^ (EXP + 1) - 1
           /\ NormalizerInput.sign \in {0, 1} /\ NormalizerInput.flags \subseteq FlagNames
<1> DEFINE a == fpu.a
           b == fpu.b
           E == 2 ^ EXP
           h == 2 ^ (EXP - 1)
<1>1. /\ a \in Words /\ b \in Words /\ adder.exp \in 0 .. E - 1
      /\ E \in Nat \ {0} /\ 2 ^ (EXP + 1) = 2 * E /\ E = 2 * h /\ h \in Nat \ {0}
      /\ Bias = h - 1
  BY FloatPowers, RegisterWidths DEF ControlTypes, AdderTypes, AllOnes, Bias
<1>2. SignOf(a) \in {0, 1} /\ SignOf(b) \in {0, 1}
  BY <1>1, OperandParts
<1>3. AddSign(a, b, fpu.sub, adder.aligned) \in {0, 1} /\ MulSign(a, b) \in {0, 1}
  <2>1. AddSign(a, b, fpu.sub, adder.aligned) \in {SignOf(a), 1 - SignOf(a)}
    BY DEF AddSign
  <2>2. MulSign(a, b) \in {0, 1}
    BY DEF MulSign
  <2> QED BY <1>2, <2>1, <2>2
<1>4. AddFlags(a, b) \subseteq FlagNames /\ MulFlags(a, b) \subseteq FlagNames
  BY DEF AddFlags, MulFlags, FlagNames
<1>5. MulExponent(a, b) % E \in 0 .. 2 * E - 1
  <2> DEFINE n == MulExponent(a, b)
  <2>1. n \in Int
    <3>1. ExponentOf(a) \in Int /\ ExponentOf(b) \in Int /\ Bias \in Int
      BY <1>1, OperandParts, FloatPowers
    <3> QED BY <3>1 DEF MulExponent
  <2> HIDE DEF n, E
  <2>2. n % E \in Int /\ 0 <= n % E /\ n % E < E
    BY <1>1, <2>1, DivMod
  <2> QED BY <1>1, <2>2 DEF n
<1>6. adder.exp \in 0 .. 2 * E - 1 /\ Bias \in 0 .. 2 * E - 1
  <2> HIDE DEF E, h
  <2> QED BY <1>1
<1> HIDE DEF E, h, a, b
<1>7. CASE fpu.op = "addsub"
  <2>1. NormalizerInput =
          [state |-> "S_PREPARE_NORM", cnt |-> adder.exp,
           sign  |-> AddSign(a, b, fpu.sub, adder.aligned),
           class |-> AddClass(a, b, fpu.sub), flags |-> AddFlags(a, b)]
    BY <1>7 DEF NormalizerInput, a, b
  <2> QED BY <1>1, <1>3, <1>4, <1>6, <2>1
<1>8. CASE fpu.op = "mul"
  <2>1. NormalizerInput =
          [state |-> "S_PREPARE_NORM", cnt |-> MulExponent(a, b) % E,
           sign  |-> MulSign(a, b), class |-> MulClass(a, b), flags |-> MulFlags(a, b)]
    BY <1>8 DEF NormalizerInput, a, b, E
  <2> QED BY <1>1, <1>3, <1>4, <1>5, <2>1
<1>9. CASE fpu.op # "addsub" /\ fpu.op # "mul"
  <2>1. NormalizerInput =
          [state |-> "S_PREPARE_I2F", cnt |-> Bias, sign |-> IF fpu.neg THEN 1 ELSE 0,
           class |-> {}, flags |-> {}]
    BY <1>9 DEF NormalizerInput
  <2> QED BY <1>1, <1>6, <2>1
<1> QED BY <1>7, <1>8, <1>9

LEMMA InputTaken ==
    ASSUME NormalizerTypes, ControlTypes, AdderTypes
    PROVE  LET idle == [norm EXCEPT !.norm_r = FALSE, !.rounded = FALSE]
               input == NormalizerInput
               r == [idle EXCEPT !.state = input.state, !.cnt = input.cnt, !.sign = input.sign,
                                 !.class = input.class, !.flags = input.flags]
           IN  NormalizerRecord(idle) /\ NormalizerRecord(r) /\ r.state = input.state
<1> DEFINE idle == [norm EXCEPT !.norm_r = FALSE, !.rounded = FALSE]
           input == NormalizerInput
           r == [idle EXCEPT !.state = input.state, !.cnt = input.cnt, !.sign = input.sign,
                             !.class = input.class, !.flags = input.flags]
<1>1. NormalizerRecord(idle)
  BY DEF NormalizerTypes, NormalizerRecord
<1>2. /\ input.state \in {"S_PREPARE_NORM", "S_PREPARE_I2F"}
      /\ input.cnt \in 0 .. 2 ^ (EXP + 1) - 1
      /\ input.sign \in {0, 1} /\ input.flags \subseteq FlagNames
  BY InputTyped
<1> HIDE DEF idle, input
<1>3. NormalizerRecord(r) /\ r.state = input.state
  BY <1>1, <1>2 DEF NormalizerRecord
<1> QED BY <1>1, <1>3 DEF idle, input

LEMMA ReducedRange ==
    ASSUME NEW n \in Int, NEW d \in Nat \ {0}
    PROVE  n % d \in 0 .. d - 1
BY DivMod

LEMMA RoundingTyped ==
    ASSUME NormalizerTypes, ControlTypes, norm.state = "S_ROUND"
    PROVE  NormalizerRecord(Rounding)
<1> DEFINE k == (norm.sreg \div 8) % 2 ^ (MAN + 1)
           step == RoundingStep(fpu.frm, k % 2 = 1, norm.sreg % 8)
           P == 2 ^ MAN
           N == 2 ^ (XLEN + MAN + 3)
           m == (k + step) % 2 ^ (MAN + 2)
<1>1. /\ P \in Nat /\ P >= 8 /\ 2 ^ (MAN + 1) = 2 * P /\ 2 ^ (MAN + 2) = 4 * P
      /\ N \in Nat /\ N >= 32 * P /\ norm.sreg \in Int
  BY RegisterWidths DEF NormalizerTypes, NormalizerRecord
<1>2. step \in {0, 1, -1}
  <2>1. fpu.frm \in 0 .. 3
    BY DEF ControlTypes
  <2> HIDE DEF k
  <2> QED BY <2>1 DEF RoundingStep
<1>3. k \in Int
  <2> DEFINE n == norm.sreg \div 8
             d == 2 ^ (MAN + 1)
  <2>1. n \in Int /\ d \in Nat \ {0}
    BY <1>1
  <2> HIDE DEF n, d
  <2>2. n % d \in 0 .. d - 1
    BY <2>1, ReducedRange
  <2> QED BY <2>1, <2>2 DEF n, d
<1>4. m \in 0 .. 4 * P - 1
  <2> DEFINE n == k + step
             d == 2 ^ (MAN + 2)
  <2>1. n \in Int /\ d \in Nat \ {0} /\ d = 4 * P
    <3> HIDE DEF k, step, P, N
    <3> QED BY <1>1, <1>2, <1>3
  <2> HIDE DEF n, d, P
  <2>2. n % d \in 0 .. d - 1
    BY <2>1, ReducedRange
  <2> QED BY <2>1, <2>2 DEF n, d
<1> HIDE DEF m, P, N, step
<1>5. 8 * m \in 0 .. N - 1
  BY <1>1, <1>4
<1>6. Rounding = [norm EXCEPT !.rounded = @ \/ step # 0, !.state = "S_PREPARE_SHIFT",
                              !.sreg = 8 * m]
  BY DEF Rounding, k, step, m
<1> HIDE DEF k
<1> QED BY <1>5, <1>6 DEF NormalizerTypes, NormalizerRecord, N

LEMMA BusyTyped ==
    ASSUME NormalizerTypes, norm.state = "S_NORMALIZE_BUSY"
    PROVE  NormalizerRecord(NormalizeBusy)
<1> DEFINE P == 2 ^ MAN
           N == 2 ^ (XLEN + MAN + 3)
           E == 2 ^ (EXP + 1)
           n == norm.sreg
           c == norm.cnt
<1>1. /\ P \in Nat /\ P >= 8 /\ 2 ^ (MAN + 3) = 8 * P /\ 2 ^ (MAN + 4) = 16 * P
      /\ N \in Nat /\ N >= 32 * P /\ n \in 0 .. N - 1 /\ E \in Nat \ {0} /\ c \in Int
      /\ norm.left => n < 16 * P
  BY RegisterWidths, FloatPowers DEF NormalizerTypes, NormalizerRecord
<1>2. (c + 1) % E \in 0 .. E - 1 /\ (c - 1) % E \in 0 .. E - 1
  <2> HIDE DEF E, c
  <2>1. c + 1 \in Int /\ c - 1 \in Int
    BY <1>1
  <2> QED BY <1>1, <2>1, ReducedRange
<1> HIDE DEF E, c
<1>3. ShiftedToSticky(n) \in 0 .. N - 1
  <2>1. n \in Nat
    BY <1>1
  <2>2. ShiftedToSticky(n) \in 0 .. n
    BY <2>1, ShiftedStays
  <2> QED BY <1>1, <2>1, <2>2
<1>4. CASE Upper = 1 \/ norm.uf \/ norm.of
  <2>1. NormalizeBusy =
          [norm EXCEPT !.norm_r = TRUE, !.state = IF norm.norm_r THEN "S_CHECK" ELSE "S_ROUND"]
    BY <1>4 DEF NormalizeBusy
  <2> QED BY <2>1 DEF NormalizerTypes, NormalizerRecord
<1>5. CASE Upper # 1 /\ ~norm.uf /\ ~norm.of /\ ~norm.left
  <2>1. NormalizeBusy = [norm EXCEPT !.cnt = (c + 1) % E, !.sreg = ShiftedToSticky(n)]
    BY <1>5 DEF NormalizeBusy, c, E
  <2> QED BY <1>2, <1>3, <1>5, <2>1 DEF NormalizerTypes, NormalizerRecord, N, E
<1>6. CASE Upper # 1 /\ ~norm.uf /\ ~norm.of /\ norm.left
  <2>1. NormalizeBusy = [norm EXCEPT !.cnt = (c - 1) % E, !.sreg = ShiftedFromSticky(n)]
    BY <1>6 DEF NormalizeBusy, c, E
  <2>2. n < 8 * P
    <3> DEFINE d == 8 * P
               q == n \div d
               r == n % d
    <3>1. d \in Nat \ {0} /\ n \in Int
      BY <1>1
    <3>2. q \in Int /\ r \in Int /\ 0 <= r /\ r < d /\ n = d * q + r
      BY <3>1, DivMod
    <3>3. q # 1
      BY <1>1, <1>6 DEF Upper
    <3>4. 0 <= n /\ n < 2 * d
      BY <1>1, <1>6
    <3> HIDE DEF d, q, r
    <3>5. q < 2
      <4>1. ASSUME q >= 2 PROVE FALSE
        <5>1. d * (q - 2) \in Nat /\ d * q = 2 * d + d * (q - 2)
          BY <3>1, <3>2, <4>1
        <5> QED BY <3>1, <3>2, <3>4, <5>1
      <4> QED BY <3>2, <4>1
    <3>6. q > -1
      <4>1. ASSUME q <= -1 PROVE FALSE
        <5>1. d * (-1 - q) \in Nat /\ d * q = -d - d * (-1 - q)
          BY <3>1, <3>2, <4>1
        <5> QED BY <3>1, <3>2, <3>4, <5>1
      <4> QED BY <3>2, <4>1
    <3>7. q = 0
      BY <3>2, <3>3, <3>5, <3>6
    <3>8. n < d
      BY <3>1, <3>2, <3>7
    <3> QED BY <3>8 DEF d
  <2>3. ShiftedFromSticky(n) \in 0 .. 16 * P - 1
    <3> HIDE DEF P, N, n
    <3>1. n \in Int /\ 0 <= n /\ n < 8 * P
      BY <1>1, <2>2
    <3> QED BY <1>1, <3>1 DEF ShiftedFromSticky
  <2> HIDE DEF P, N, n
  <2>4. ShiftedFromSticky(n) \in 0 .. N - 1 /\ ShiftedFromSticky(n) < 16 * P
    BY <1>1, <2>3
  <2> QED BY <1>1, <1>2, <2>1, <2>4 DEF NormalizerTypes, NormalizerRecord, N, E, P
<1> QED BY <1>4, <1>5, <1>6

LEMMA NormalizerStepTyped ==
    ASSUME NormalizerTypes, ControlTypes, AdderTypes
    PROVE  NormalizerRecord(NormalizerStep)
<1> DEFINE N == 2 ^ (XLEN + MAN + 3)
<1>1. CASE norm.state = "S_IDLE"
  <2> DEFINE idle == [norm EXCEPT !.norm_r = FALSE, !.rounded = FALSE]
             input == NormalizerInput
             r == [idle EXCEPT !.state = input.state, !.cnt = input.cnt, !.sign = input.sign,
                               !.class = input.class, !.flags = input.flags]
  <2>1. NormalizerStep \in {idle, r}
    BY <1>1 DEF NormalizerStep
  <2>2. NormalizerRecord(idle) /\ NormalizerRecord(r)
    BY InputTaken
  <2> HIDE DEF idle, r
  <2> QED BY <2>1, <2>2
<1>2. CASE norm.state = "S_PREPARE_I2F"
  <2> DEFINE n == fpu.abs * 2 ^ (MAN + 3)
             W == 2 ^ XLEN
             Q == 2 ^ (MAN + 3)
  <2>1. NormalizerStep = [norm EXCEPT !.sreg = n, !.left = FALSE, !.state = "S_CHECK_I2F"]
    BY <1>2 DEF NormalizerStep
  <2>2. /\ fpu.abs \in Int /\ 0 <= fpu.abs /\ fpu.abs < W /\ W \in Nat /\ Q \in Nat /\ Q >= 1
        /\ N = W * Q
    <3>1. N = W * (8 * 2 ^ MAN) /\ Q = 8 * 2 ^ MAN /\ 2 ^ MAN \in Nat /\ 2 ^ MAN >= 8
      BY RegisterWidths
    <3>2. fpu.abs \in Int /\ 0 <= fpu.abs /\ fpu.abs < W /\ W \in Nat
      BY WordRange, FloatPowers DEF ControlTypes
    <3> HIDE DEF N, W, Q
    <3> QED BY <3>1, <3>2
  <2>3. n \in 0 .. N - 1
    <3> DEFINE f == fpu.abs
    <3> HIDE DEF f, W, Q, N
    <3>1. f \in Int /\ 0 <= f /\ f < W /\ W \in Nat /\ Q \in Nat /\ Q >= 1 /\ N = W * Q
      BY <2>2 DEF f
    <3>2. W - 1 - f \in Nat
      BY <3>1
    <3>3. Q * (W - 1 - f) \in Nat /\ W * Q = f * Q + Q + Q * (W - 1 - f) /\ f * Q \in Nat
      BY <3>1, <3>2
    <3>4. f * Q \in 0 .. N - 1
      BY <3>1, <3>3
    <3> QED BY <3>4 DEF f, Q
  <2> HIDE DEF n
  <2> QED BY <2>1, <2>3 DEF NormalizerTypes, NormalizerRecord
<1>3. CASE norm.state = "S_CHECK_I2F"
  <2>1. \/ NormalizerStep = [norm EXCEPT !.class = @ \union {"pos_zero"}, !.state = "S_FINALIZE"]
        \/ NormalizerStep = [norm EXCEPT !.state = "S_NORMALIZE_BUSY"]
    BY <1>3 DEF NormalizerStep
  <2> QED BY <1>3, <2>1 DEF NormalizerTypes, NormalizerRecord
<1>4. CASE norm.state = "S_PREPARE_NORM"
  <2> DEFINE s == IF NeedsNoShift THEN "S_FINALIZE" ELSE "S_PREPARE_SHIFT"
             n == NormalizerMantissa
  <2>1. NormalizerStep = [norm EXCEPT !.sreg = n, !.state = s]
    BY <1>4 DEF NormalizerStep
  <2>2. n \in 0 .. N - 1
    <3>1. CASE fpu.op = "addsub"
      BY <3>1, MantissaOfSum DEF NormalizerMantissa, ControlTypes, AdderTypes
    <3>2. CASE fpu.op # "addsub"
      BY <3>2, MantissaOfProduct DEF NormalizerMantissa, ControlTypes
    <3> QED BY <3>1, <3>2
  <2>3. s \in {"S_FINALIZE", "S_PREPARE_SHIFT"}
    OBVIOUS
  <2> HIDE DEF s, n
  <2> QED BY <2>1, <2>2, <2>3 DEF NormalizerTypes, NormalizerRecord
<1>5. CASE norm.state = "S_PREPARE_SHIFT"
  <2>1. NormalizerStep = [norm EXCEPT !.left = (Upper = 0), !.state = "S_NORMALIZE_BUSY"]
    BY <1>5 DEF NormalizerStep
  <2>2. Upper = 0 => norm.sreg < 2 ^ (MAN + 4)
    <3> DEFINE d == 2 ^ (MAN + 3)
               n == norm.sreg
    <3>1. d \in Nat \ {0} /\ 2 ^ (MAN + 4) = 2 * d /\ n \in Int
      BY RegisterWidths DEF NormalizerTypes, NormalizerRecord
    <3>2. Upper = n \div d
      BY DEF Upper
    <3> HIDE DEF d, n
    <3>3. n % d \in Int /\ n % d < d /\ n = d * (n \div d) + (n % d)
      BY <3>1, DivMod
    <3>4. Upper = 0 => n = n % d
      BY <3>1, <3>2, <3>3
    <3>5. Upper = 0 => n < 2 * d
      BY <3>1, <3>3, <3>4
    <3> QED BY <3>1, <3>5 DEF n
  <2> QED BY <2>1, <2>2 DEF NormalizerTypes, NormalizerRecord
<1>6. CASE norm.state = "S_NORMALIZE_BUSY"
  BY <1>6, BusyTyped DEF NormalizerStep
<1>7. CASE norm.state = "S_ROUND"
  BY <1>7, RoundingTyped DEF NormalizerStep
<1>8. CASE norm.state = "S_CHECK"
  <2>1. NormalizerStep = [norm EXCEPT !.flags = @ \union RangeFlags, !.state = "S_FINALIZE"]
    BY <1>8 DEF NormalizerStep
  <2>2. RangeFlags \subseteq FlagNames
    BY DEF RangeFlags, FlagNames
  <2> QED BY <2>1, <2>2 DEF NormalizerTypes, NormalizerRecord
<1>9. CASE norm.state = "S_FINALIZE"
  <2>1. NormalizerStep =
          [norm EXCEPT !.result = FinalWord, !.flags = FinalFlags, !.state = "S_IDLE"]
    BY <1>9 DEF NormalizerStep
  <2>2. FinalFlags \subseteq FlagNames
    BY DEF FinalFlags, FlagNames, NormalizerTypes, NormalizerRecord
  <2> QED BY <2>1, <2>2, FinalWordTyped DEF NormalizerTypes, NormalizerRecord
<1> QED BY <1>1, <1>2, <1>3, <1>4, <1>5, <1>6, <1>7, <1>8, <1>9
        DEF NormalizerTypes, NormalizerRecord

LEMMA NormalizerStates ==
    ASSUME NormalizerTypes, ControlTypes, AdderTypes, Clock
    PROVE  /\ NormalizerTypes'
           /\ norm'.done = (norm.state = "S_FINALIZE")
           /\ norm.state = "S_FINALIZE" => norm'.state = "S_IDLE"
           /\ norm.state = "S_IDLE" /\ ~NormalizerStarts => norm'.state = "S_IDLE"
<1>1. NormalizerClock
  BY DEF Clock, CoProcessorsClock, FpuClock
<1> DEFINE r == NormalizerStep
<1>2. \E of, uf :
        norm' = [r EXCEPT !.cnt_pre = norm.cnt, !.of = of, !.uf = uf,
                          !.done = (norm.state = "S_FINALIZE")]
  BY <1>1 DEF NormalizerClock
<1>3. NormalizerRecord(r)
  BY NormalizerStepTyped
<1>4. norm.state = "S_FINALIZE" => r.state = "S_IDLE"
  BY DEF NormalizerStep, NormalizerTypes, NormalizerRecord
<1>5. norm.state = "S_IDLE" /\ ~NormalizerStarts => r.state = "S_IDLE"
  BY DEF NormalizerStep, NormalizerTypes, NormalizerRecord
<1> HIDE DEF r
<1>6. /\ NormalizerRecord(norm') /\ norm'.state = r.state
      /\ norm'.done = (norm.state = "S_FINALIZE")
  BY <1>2, <1>3 DEF NormalizerRecord
<1> QED BY <1>4, <1>5, <1>6 DEF NormalizerTypes

-----------------------------------------------------------------------------
(* The converter to integers.                                              *)

LEMMA PreparedTyped ==
    ASSUME ConverterTypes
    PROVE  ConverterRecord(F2iPrepare)
<1> DEFINE s == IF ClassOf(fpu.a) \in Infinities \union Zeros \union NaNs
                THEN "S_FINALIZE" ELSE "S_NORMALIZE_BUSY"
           shifts == [f2i EXCEPT !.state = s]
           p == 2 ^ (MAN - 1)
           B == Bias
           A == AllOnes
           m == p + f2i.mant \div 2
<1>1. ConverterRecord(shifts) /\ shifts.cnt = f2i.cnt /\ shifts.mant = f2i.mant
  <2>1. s \in {"S_FINALIZE", "S_NORMALIZE_BUSY"}
    OBVIOUS
  <2> HIDE DEF s
  <2> QED BY <2>1 DEF ConverterTypes, ConverterRecord
<1>2. /\ p \in Nat \ {0} /\ 2 ^ MAN = 2 * p /\ f2i.cnt \in 0 .. A /\ f2i.mant \in 0 .. 2 * p - 1
      /\ A \in Nat /\ B \in Nat
  <2>1. /\ 2 ^ (EXP - 1) \in Nat \ {0} /\ B = 2 ^ (EXP - 1) - 1
        /\ p \in Nat \ {0} /\ 2 ^ MAN = 2 * p /\ A \in Nat
    BY RegisterWidths, FloatPowers DEF Bias
  <2>2. f2i.cnt \in 0 .. A /\ f2i.mant \in 0 .. 2 ^ MAN - 1
    BY DEF ConverterTypes, ConverterRecord
  <2> HIDE DEF p, A, B
  <2> QED BY <2>1, <2>2
<1>3. 0 \in Words /\ 1 \in Words
  BY Powers, PlacesAreWords
<1>4. m \in 0 .. 2 ^ MAN - 1
  <2> HIDE DEF p
  <2> QED BY <1>2
<1>5. F2iPrepare =
        CASE f2i.cnt < B - 1 -> [shifts EXCEPT !.int = 0, !.under = TRUE, !.cnt = 0]
          [] f2i.cnt = B - 1 -> [shifts EXCEPT !.int = 0, !.mant = p + @ \div 2, !.cnt = 0]
          [] f2i.cnt > B - 1 -> [shifts EXCEPT !.int = 1, !.cnt = @ - B]
  BY DEF F2iPrepare
<1>6. p + shifts.mant \div 2 = m /\ shifts.cnt - B = f2i.cnt - B
  BY <1>1
<1> HIDE DEF shifts, s, p, A, B, m
<1>7. 0 \in 0 .. A /\ (f2i.cnt > B - 1 => f2i.cnt - B \in 0 .. A)
  BY <1>2
<1>8. CASE f2i.cnt < B - 1
  <2>1. F2iPrepare = [shifts EXCEPT !.int = 0, !.under = TRUE, !.cnt = 0]
    BY <1>2, <1>5, <1>8
  <2> QED BY <1>1, <1>3, <1>7, <2>1 DEF ConverterRecord, A
<1>9. CASE f2i.cnt = B - 1
  <2>1. ~(f2i.cnt < B - 1)
    BY <1>2, <1>9
  <2>2. F2iPrepare = [shifts EXCEPT !.int = 0, !.mant = p + @ \div 2, !.cnt = 0]
    BY <1>5, <1>9, <2>1
  <2>3. [shifts EXCEPT !.int = 0].mant = shifts.mant
    BY <1>1 DEF ConverterRecord
  <2>4. F2iPrepare = [shifts EXCEPT !.int = 0, !.mant = m, !.cnt = 0]
    BY <1>6, <2>2, <2>3
  <2> QED BY <1>1, <1>3, <1>4, <1>7, <2>4 DEF ConverterRecord, A
<1>10. CASE f2i.cnt > B - 1
  <2> DEFINE c == f2i.cnt - B
  <2>1. F2iPrepare = [shifts EXCEPT !.int = 1, !.cnt = c]
    BY <1>1, <1>2, <1>5, <1>6, <1>10 DEF ConverterRecord
  <2>2. c \in 0 .. A
    BY <1>7, <1>10
  <2> HIDE DEF c
  <2> QED BY <1>1, <1>3, <2>1, <2>2 DEF ConverterRecord, A
<1> QED BY <1>2, <1>8, <1>9, <1>10

LEMMA ShiftedInWord ==
    ASSUME NEW a \in Words, NEW bit \in {0, 1}
    PROVE  ShiftLeft(a, 1) + bit \in Words
<1> DEFINE H == 2 ^ (XLEN - 1)
           low == a % H
<1>1. H \in Nat \ {0} /\ 2 ^ XLEN = 2 * H /\ a \in Int
  BY FloatPowers, WordRange
<1>2. ShiftLeft(a, 1) = low * 2
  BY DEF ShiftLeft, Low
<1> HIDE DEF H
<1>3. a % H \in 0 .. H - 1
  BY <1>1, ReducedRange
<1> HIDE DEF low
<1>4. low \in 0 .. H - 1
  BY <1>3 DEF low
<1> QED BY <1>1, <1>2, <1>4 DEF Words

LEMMA ShiftingTyped ==
    ASSUME ConverterTypes
    PROVE  ConverterRecord(F2iBusy)
<1> DEFINE s == f2i.s \/ f2i.mant % 2 ^ (MAN - 2) # 0
           sticky == [f2i EXCEPT !.s = s]
           highest == Bit(f2i.int, XLEN - 1) = 1
           int == ShiftLeft(f2i.int, 1) + Bit(f2i.mant, MAN - 1)
           mant == Low(2 * f2i.mant, MAN)
           c == f2i.cnt - 1
<1>1. int \in Words
  <2>1. f2i.mant \in Int /\ MAN - 1 \in 0 .. XLEN /\ f2i.int \in Words
    BY FloatPowers DEF ConverterTypes, ConverterRecord
  <2> QED BY <2>1, BitRange, ShiftedInWord
<1>2. mant \in 0 .. 2 ^ MAN - 1
  <2> DEFINE n == 2 * f2i.mant
             P == 2 ^ MAN
  <2>1. n \in Int /\ P \in Nat \ {0}
    BY FloatPowers DEF ConverterTypes, ConverterRecord
  <2> HIDE DEF n, P
  <2>2. n % P \in 0 .. P - 1
    BY <2>1, ReducedRange
  <2> QED BY <2>2 DEF n, P, Low
<1>3. f2i.cnt % 2 ^ (EXP - 1) # 0 => c \in 0 .. AllOnes
  <2> DEFINE d == 2 ^ (EXP - 1)
  <2>1. d \in Nat \ {0} /\ f2i.cnt \in 0 .. AllOnes /\ AllOnes \in Nat
    BY FloatPowers, RegisterWidths DEF ConverterTypes, ConverterRecord
  <2> HIDE DEF d
  <2>2. 0 % d = 0
    <3>1. 0 \in Int /\ 0 <= 0 /\ 0 < d /\ 0 = d * 0 + 0
      BY <2>1
    <3> QED BY <2>1, <3>1, Division
  <2>3. f2i.cnt % d # 0 => f2i.cnt # 0
    BY <2>2
  <2>4. f2i.cnt # 0 => c \in 0 .. AllOnes
    BY <2>1
  <2> QED BY <2>3, <2>4 DEF d
<1>4. ConverterRecord(sticky) /\ sticky.cnt = f2i.cnt /\ sticky.int = f2i.int
      /\ sticky.mant = f2i.mant /\ sticky.over = f2i.over
  BY DEF ConverterTypes, ConverterRecord
<1>5. F2iBusy = IF f2i.cnt % 2 ^ (EXP - 1) = 0
                THEN [sticky EXCEPT !.over = @ \/ (~f2i.unsign /\ highest), !.state = "S_ROUND"]
                ELSE [sticky EXCEPT !.cnt = @ - 1, !.over = @ \/ highest,
                                    !.int = ShiftLeft(@, 1) + Bit(f2i.mant, MAN - 1),
                                    !.mant = Low(2 * @, MAN)]
  <2>1. sticky = [f2i EXCEPT !.s = @ \/ f2i.mant % 2 ^ (MAN - 2) # 0]
    OBVIOUS
  <2> QED BY <2>1 DEF F2iBusy
<1> HIDE DEF sticky, highest
<1>6. CASE f2i.cnt % 2 ^ (EXP - 1) = 0
  BY <1>4, <1>5, <1>6 DEF ConverterRecord
<1>7. CASE f2i.cnt % 2 ^ (EXP - 1) # 0
  <2>1. /\ sticky.cnt - 1 = c /\ Low(2 * sticky.mant, MAN) = mant
        /\ ShiftLeft(sticky.int, 1) + Bit(f2i.mant, MAN - 1) = int
    BY <1>4
  <2> HIDE DEF c, int, mant
  <2>2. \E over : F2iBusy = [sticky EXCEPT !.cnt = c, !.over = over, !.int = int, !.mant = mant]
    BY <1>5, <1>7, <2>1
  <2> QED BY <1>1, <1>2, <1>3, <1>4, <1>7, <2>2 DEF ConverterRecord
<1> QED BY <1>6, <1>7

LEMMA RoundedTyped ==
    ASSUME ConverterTypes, ControlTypes
    PROVE  ConverterRecord(F2iRound)
<1> DEFINE rest == 2 * (f2i.mant \div 2 ^ (MAN - 2)) + (IF f2i.s THEN 1 ELSE 0)
           step == RoundingStep(fpu.frm, f2i.int % 2 = 1, rest)
           sum == (f2i.int + step) % 2 ^ (XLEN + 1)
           W == 2 ^ XLEN
<1>1. step \in {0, 1, -1}
  <2>1. fpu.frm \in 0 .. 3
    BY DEF ControlTypes
  <2> HIDE DEF rest
  <2> QED BY <2>1 DEF RoundingStep
<1>2. f2i.int \in Int /\ W \in Nat \ {0} /\ 2 ^ (XLEN + 1) \in Nat \ {0}
  BY WordRange, FloatPowers, RegisterWidths DEF ConverterTypes, ConverterRecord
<1>3. sum \in Int
  <2> DEFINE n == f2i.int + step
             d == 2 ^ (XLEN + 1)
  <2>1. n \in Int /\ d \in Nat \ {0}
    BY <1>1, <1>2
  <2> HIDE DEF n, d
  <2>2. n % d \in 0 .. d - 1
    BY <2>1, ReducedRange
  <2> QED BY <2>1, <2>2 DEF n, d
<1>4. F2iRound = [f2i EXCEPT !.rounded = @ \/ step # 0, !.over = @ \/ sum >= W,
                             !.result_tmp = sum % W, !.state = "S_FINALIZE"]
  BY DEF F2iRound
<1> HIDE DEF sum, W, step
<1>5. sum % W \in 0 .. W - 1
  BY <1>2, <1>3, ReducedRange
<1> DEFINE r == sum % W
<1>6. r \in Words
  BY <1>5 DEF Words, W
<1> HIDE DEF r
<1>7. \E rounded, over :
        F2iRound = [f2i EXCEPT !.rounded = rounded, !.over = over, !.result_tmp = r,
                               !.state = "S_FINALIZE"]
  BY <1>4 DEF r
<1> QED BY <1>6, <1>7 DEF ConverterTypes, ConverterRecord

LEMMA SaturatedTyped ==
    ASSUME ConverterTypes
    PROVE  Saturated \in Words
<1> DEFINE W == 2 ^ XLEN
           H == 2 ^ (XLEN - 1)
           n == (-f2i.result_tmp) % W
<1>1. H \in Nat \ {0} /\ W = 2 * H /\ f2i.result_tmp \in Words /\ Words = 0 .. W - 1
  BY FloatPowers DEF ConverterTypes, ConverterRecord, Words
<1>2. n \in Words
  BY <1>1, NegatedWord
<1>3. Saturated \in {W - 1, H - 1, 0, H, n, f2i.result_tmp}
  BY DEF Saturated
<1> HIDE DEF W, H, n
<1>4. W - 1 \in Words /\ H - 1 \in Words /\ 0 \in Words /\ H \in Words
  BY <1>1
<1> QED BY <1>1, <1>2, <1>3, <1>4

LEMMA ConverterStates ==
    ASSUME ConverterTypes, ControlTypes, Clock
    PROVE  /\ ConverterTypes'
           /\ f2i'.done = (f2i.state = "S_FINALIZE")
           /\ f2i.state = "S_FINALIZE" => f2i'.state = "S_IDLE"
           /\ f2i.state = "S_IDLE" /\ ~Started(instr, "f2i") => f2i'.state = "S_IDLE"
<1> DEFINE r == F2iStep(instr)
<1>1. f2i' = [r EXCEPT !.done = (f2i.state = "S_FINALIZE")]
  BY DEF Clock, CoProcessorsClock, FpuClock, F2iClock
<1>2. ConverterRecord(r)
  <2>1. CASE f2i.state = "S_IDLE"
    <3> DEFINE idle == [f2i EXCEPT !.rounded = FALSE, !.over = FALSE, !.under = FALSE,
                                   !.s = FALSE, !.unsign = (Bits(instr.rs2, 0, 0) = 1)]
               started == [idle EXCEPT !.state = "S_PREPARE_F2I", !.cnt = ExponentOf(fpu.a),
                                       !.mant = MantissaOf(fpu.a)]
    <3>1. r \in {idle, started}
      BY <2>1 DEF F2iStep
    <3>2. ConverterRecord(idle)
      BY DEF ConverterTypes, ConverterRecord
    <3>3. ExponentOf(fpu.a) \in 0 .. AllOnes /\ MantissaOf(fpu.a) \in 0 .. 2 ^ MAN - 1
      BY OperandParts DEF ControlTypes
    <3> HIDE DEF idle
    <3>4. ConverterRecord(started)
      BY <3>2, <3>3 DEF ConverterRecord
    <3> HIDE DEF started
    <3> QED BY <3>1, <3>2, <3>4
  <2>2. CASE f2i.state = "S_PREPARE_F2I"
    BY <2>2, PreparedTyped DEF F2iStep
  <2>3. CASE f2i.state = "S_NORMALIZE_BUSY"
    BY <2>3, ShiftingTyped DEF F2iStep
  <2>4. CASE f2i.state = "S_ROUND"
    BY <2>4, RoundedTyped DEF F2iStep
  <2>5. CASE f2i.state = "S_FINALIZE"
    <3>1. r = [f2i EXCEPT !.result = Saturated, !.state = "S_IDLE"]
      BY <2>5 DEF F2iStep
    <3> QED BY <3>1, SaturatedTyped DEF ConverterTypes, ConverterRecord
  <2> QED BY <2>1, <2>2, <2>3, <2>4, <2>5 DEF ConverterTypes, ConverterRecord
<1>3. f2i.state = "S_FINALIZE" => r.state = "S_IDLE"
  BY DEF F2iStep, ConverterTypes, ConverterRecord
<1>4. f2i.state = "S_IDLE" /\ ~Started(instr, "f2i") => r.state = "S_IDLE"
  BY DEF F2iStep, ConverterTypes, ConverterRecord
<1> HIDE DEF r
<1>5. /\ ConverterRecord(f2i') /\ f2i'.state = r.state
      /\ f2i'.done = (f2i.state = "S_FINALIZE")
  BY <1>1, <1>2 DEF ConverterRecord
<1> QED BY <1>3, <1>4, <1>5 DEF ConverterTypes

-----------------------------------------------------------------------------
(* One unit at a time, step by step.                                       *)

LEMMA PhasesStep ==
    ASSUME Controlled, Phases, ControlTypes, AdderTypes, NormalizerTypes, ConverterTypes, Clock
    PROVE  Phases'
<1>1. fpu.after \in 0 .. 4
  BY DEF ControlTypes
<1>2. /\ norm'.done = (norm.state = "S_FINALIZE")
      /\ norm.state = "S_FINALIZE" => norm'.state = "S_IDLE"
      /\ norm.state = "S_IDLE" /\ ~NormalizerStarts => norm'.state = "S_IDLE"
  BY NormalizerStates
<1>3. /\ f2i'.done = (f2i.state = "S_FINALIZE")
      /\ f2i.state = "S_FINALIZE" => f2i'.state = "S_IDLE"
      /\ f2i.state = "S_IDLE" /\ ~Started(instr, "f2i") => f2i'.state = "S_IDLE"
  BY ConverterStates
<1>4. /\ adder'.state # "IDLE" => adder.state # "IDLE" \/ Started(instr, "addsub")
      /\ adder.state = "DONE" => adder'.state = "IDLE"
  BY AdderStates
<1>5. /\ Started(instr, "addsub") => fpu.after = 0 /\ fpu.busy /\ fpu.op = "addsub"
      /\ Started(instr, "f2i") => fpu.after = 0 /\ fpu.busy /\ fpu.op = "f2i"
      /\ Started(instr, "class") => fpu.after = 0 /\ fpu.busy /\ fpu.op = "class"
      /\ Started(instr, "sgnj") => fpu.after = 0 /\ fpu.busy /\ fpu.op = "sgnj"
  BY StartedOperation DEF UnitNames
<1>6. CASE ~fpu.busy
  <2>1. /\ fpu.after # 0 /\ adder.state = "IDLE" /\ norm.state = "S_IDLE" /\ ~norm.done
        /\ f2i.state = "S_IDLE" /\ ~f2i.done /\ ~NormalizerStarts
    BY <1>1, <1>6 DEF Phases, NormalizerStarts
  <2>2. /\ adder'.state = "IDLE" /\ norm'.state = "S_IDLE" /\ ~norm'.done
        /\ f2i'.state = "S_IDLE" /\ ~f2i'.done
    BY <1>2, <1>3, <1>4, <1>5, <1>6, <2>1
  <2>3. CASE Start("fpu")
    <3>1. fpu'.busy /\ fpu'.after = 0 /\ fpu'.op = OperationOf(instr) /\ instr' = instr
      BY <1>6, <2>3, ControllerFields, StartHolds
    <3>2. OperationOf(instr)' = OperationOf(instr)
      BY <3>1
    <3> QED BY <2>2, <3>1, <3>2 DEF Phases
  <2>4. CASE ~Start("fpu")
    <3>1. fpu'.after = 4
      BY <1>6, <2>4, ControllerFields
    <3> QED BY <2>2, <3>1 DEF Phases
  <2> QED BY <2>3, <2>4
<1>7. CASE fpu.busy
  <2>1. /\ fpu'.busy = ~CoreDone(instr) /\ fpu'.op = fpu.op
        /\ fpu'.after = IF fpu.after < 4 THEN fpu.after + 1 ELSE 4
    BY <1>1, <1>7, ControllerFields, AfterStart
  <2>2. fpu'.after # 0 /\ (fpu'.after = 1 => fpu.after = 0)
        /\ (fpu'.after \in 1 .. 3 => fpu.after \in 0 .. 2)
        /\ (fpu.after >= 1 => fpu'.after >= 2) /\ fpu'.after >= 1
        /\ (fpu.after >= 3 => fpu'.after = 4)
    BY <1>1, <2>1
  <2>3. CoreDone(instr) =>
          \/ fpu.op \in {"class", "sgnj", "comp", "minmax"} \/ norm.done \/ f2i.done
    BY <1>5 DEF CoreDone
  <2>4. CASE fpu.op \in {"class", "sgnj", "comp", "minmax"}
    <3>1. /\ adder.state = "IDLE" /\ norm.state = "S_IDLE" /\ f2i.state = "S_IDLE"
          /\ ~NormalizerStarts
      BY <2>4 DEF Phases, NormalizerStarts
    <3>2. /\ adder'.state = "IDLE" /\ norm'.state = "S_IDLE" /\ ~norm'.done
          /\ f2i'.state = "S_IDLE" /\ ~f2i'.done
      BY <1>2, <1>3, <1>4, <1>5, <2>4, <3>1
    <3> QED BY <2>1, <2>2, <2>4, <3>2 DEF Phases
  <2>5. CASE fpu.op = "f2i"
    <3>1. adder.state = "IDLE" /\ norm.state = "S_IDLE" /\ ~norm.done /\ ~NormalizerStarts
      BY <2>5 DEF Phases, NormalizerStarts
    <3>2. adder'.state = "IDLE" /\ norm'.state = "S_IDLE" /\ ~norm'.done
      BY <1>2, <1>4, <1>5, <2>5, <3>1
    <3>3. f2i.done => f2i.state = "S_IDLE" /\ ~Started(instr, "f2i")
      BY <1>1, <1>5 DEF Phases
    <3>4. f2i.done => f2i'.state = "S_IDLE" /\ ~f2i'.done
      BY <1>3, <3>3
    <3>5. ~f2i.done => fpu'.busy
      BY <2>1, <2>3, <2>5, <3>1
    <3>6. f2i'.done => f2i'.state = "S_IDLE"
      BY <1>3
    <3> QED BY <2>1, <2>2, <2>5, <3>2, <3>4, <3>5, <3>6 DEF Phases
  <2>6. CASE fpu.op \in {"addsub", "mul", "i2f"}
    <3>1. f2i.state = "S_IDLE" /\ ~f2i.done
      BY <2>6 DEF Phases
    <3>2. f2i'.state = "S_IDLE" /\ ~f2i'.done
      BY <1>3, <1>5, <2>6, <3>1
    <3>3. ~norm.done => fpu'.busy
      BY <2>1, <2>3, <2>6, <3>1
    <3>4. CASE norm.done
      <4>1. /\ norm.state = "S_IDLE" /\ fpu.after >= 2 /\ adder.state = "IDLE"
            /\ (fpu.op = "mul" => fpu.after = 4)
        BY <3>4 DEF Phases
      <4>2. ~NormalizerStarts
        BY <1>1, <4>1 DEF NormalizerStarts
      <4>3. norm'.state = "S_IDLE" /\ ~norm'.done
        BY <1>2, <4>1, <4>2
      <4>5. ~Started(instr, "addsub")
        BY <1>1, <1>5, <4>1
      <4>6. adder'.state = "IDLE"
        BY <1>4, <4>1, <4>5
      <4>4. fpu'.after # 1 /\ (fpu.op = "mul" => fpu'.after = 4)
        BY <1>1, <2>1, <4>1
      <4> QED BY <2>1, <2>2, <2>6, <3>2, <4>3, <4>4, <4>6 DEF Phases
    <3>5. CASE ~norm.done /\ norm.state # "S_IDLE"
      <4>1. /\ fpu.after >= 2 /\ adder.state = "IDLE"
            /\ fpu.op \in {"addsub", "i2f"} \/ (fpu.op = "mul" /\ fpu.after = 4)
        BY <3>5 DEF Phases
      <4>2. adder'.state = "IDLE" /\ fpu'.after >= 2 /\ (fpu.op = "mul" => fpu'.after = 4)
        BY <1>1, <1>4, <1>5, <2>1, <4>1
      <4>3. norm'.done => norm'.state = "S_IDLE"
        BY <1>2
      <4> QED BY <2>1, <2>2, <3>2, <3>3, <3>5, <4>1, <4>2, <4>3 DEF Phases
    <3>6. CASE ~norm.done /\ norm.state = "S_IDLE" /\ NormalizerStarts
      <4>1. /\ ~norm'.done /\ fpu'.after >= 2
            /\ fpu.op \in {"addsub", "i2f"} \/ (fpu.op = "mul" /\ fpu'.after = 4)
        <5>1. ~norm'.done
          BY <1>2, <3>6
        <5>2. CASE fpu.op = "addsub" /\ adder.state = "DONE"
          <6>1. fpu.after >= 1
            BY <5>2 DEF Phases
          <6> QED BY <2>2, <5>1, <5>2, <6>1
        <5>3. CASE fpu.op = "mul" /\ fpu.after = 3
          BY <2>1, <5>1, <5>3
        <5>4. CASE fpu.op = "i2f" /\ fpu.after = 1
          BY <2>1, <5>1, <5>4
        <5> QED BY <3>6, <5>2, <5>3, <5>4 DEF NormalizerStarts
      <4>2. adder'.state = "IDLE"
        BY <1>4, <1>5, <3>6 DEF NormalizerStarts, Phases
      <4> QED BY <2>1, <2>2, <3>2, <3>3, <3>6, <4>1, <4>2 DEF Phases
    <3>7. CASE ~norm.done /\ norm.state = "S_IDLE" /\ ~NormalizerStarts
      <4>1. norm'.state = "S_IDLE" /\ ~norm'.done
        BY <1>2, <3>7
      <4>2. adder'.state # "IDLE" => fpu.op = "addsub"
        BY <1>4, <1>5 DEF Phases
      <4> QED BY <2>1, <2>2, <3>2, <3>3, <3>7, <4>1, <4>2 DEF Phases
    <3> QED BY <3>4, <3>5, <3>6, <3>7
  <2>7. fpu.op \in {"class", "sgnj", "comp", "minmax", "f2i", "addsub", "mul", "i2f"}
    BY DEF ControlTypes, UnitNames
  <2> QED BY <2>4, <2>5, <2>6, <2>7
<1> QED BY <1>6, <1>7

-----------------------------------------------------------------------------
(* The shifter and the bit manipulation unit.                              *)

ShifterTypes ==
    /\ {"busy", "busy_ff", "sreg", "cnt", "result"} \subseteq DOMAIN shifter
    /\ shifter.sreg \in Words /\ shifter.cnt \in Positions /\ shifter.result \in Words
BitmanipTypes ==
    /\ bitmanip.cmd \subseteq Operations /\ bitmanip.result \in Words
    /\ bitmanip.rs1 \in Words /\ bitmanip.sha \in Positions
    /\ bitshift.sreg \in Words
    /\ bitshift.cnt \in 0 .. 2 * XLEN - 1 /\ bitshift.bcnt \in 0 .. 2 * XLEN - 1

LEMMA ShifterTyped ==
    ASSUME Shapes, ShifterTypes, Operands, Clock
    PROVE  ShifterTypes'
<1>1. /\ rs.rs1 \in Words /\ ShiftAmount \in Positions /\ ShiftAmount \in 0 .. XLEN
      /\ shifter.sreg \in Words /\ shifter.cnt \in Positions /\ 0 \in Words /\ 0 \in Positions
      /\ 1 \in 0 .. XLEN /\ XLEN \in Nat
  BY AmountRange, ZeroBits, Powers DEF Operands, ShifterTypes, Positions
<1>2. CASE program.fast
  <2> DEFINE result == IF Start("shifter") THEN Shifted(rs.rs1, ShiftAmount, Right, Arithmetic)
                       ELSE 0
  <2>1. result \in Words
    BY <1>1, ShiftedBits
  <2>2. shifter' = [shifter EXCEPT !.result = result]
    BY <1>2 DEF Clock, CoProcessorsClock, ShifterClock, BarrelShifterClock, Right, Arithmetic
  <2> HIDE DEF result
  <2> QED BY <2>1, <2>2 DEF ShifterTypes
<1>3. CASE ~program.fast
  <2>1. SerialShifterClock(Start("shifter"), rs.rs1, ShiftAmount, Right, Arithmetic)
    BY <1>3 DEF Clock, CoProcessorsClock, ShifterClock, Right, Arithmetic
  <2>2. PICK busy, sreg, cnt :
          shifter' = [busy |-> busy, busy_ff |-> shifter.busy, sreg |-> sreg, cnt |-> cnt,
                      result |-> 0]
    BY <2>1, Zenon DEF SerialShifterClock
  <2>3. {"busy", "busy_ff", "sreg", "cnt", "result"} \subseteq DOMAIN shifter'
        /\ shifter'.result = 0
    BY <2>2
  <2>4. Shifted(shifter.sreg, 1, Right, Arithmetic) \in Words
    BY <1>1, ShiftedBits
  <2>5. shifter'.sreg \in Words
    BY <1>1, <1>3, <2>4, SerialShift
  <2>6. shifter'.cnt \in Positions
    BY <1>1, <1>3, SerialShift DEF Positions
  <2> QED BY <1>1, <2>3, <2>5, <2>6 DEF ShifterTypes
<1> QED BY <1>2, <1>3

LEMMA SizeOfOnes ==
    ASSUME NEW S, S \subseteq Positions
    PROVE  Cardinality(S) \in 0 .. XLEN
<1>1. XLEN \in Nat /\ 0 \in Int /\ XLEN - 1 \in Int /\ XLEN - 1 >= 0
  BY Powers
<1>2. /\ IsFiniteSet(0 .. XLEN - 1)
      /\ Cardinality(0 .. XLEN - 1) = IF 0 > XLEN - 1 THEN 0 ELSE (XLEN - 1) - 0 + 1
  BY <1>1, FS_Interval
<1>3. IsFiniteSet(S) /\ Cardinality(S) <= Cardinality(0 .. XLEN - 1)
  BY <1>2, FS_Subset DEF Positions
<1>4. Cardinality(S) \in Nat
  BY <1>3, FS_CardinalityType
<1> QED BY <1>1, <1>2, <1>3, <1>4

LEMMA ShiftCounts ==
    ASSUME Shapes, BitmanipTypes, Clock
    PROVE  /\ bitshift'.sreg \in Words
           /\ bitshift'.cnt \in 0 .. 2 * XLEN - 1 /\ bitshift'.bcnt \in 0 .. 2 * XLEN - 1
<1>1. /\ XLEN \in Nat \ {0} /\ 2 * XLEN \in Nat \ {0} /\ bitmanip.rs1 \in Words
      /\ bitmanip.sha \in 0 .. XLEN /\ Reversed(bitmanip.rs1) \in Words /\ bitshift.sreg \in Words
  BY Powers, ReversedBits DEF BitmanipTypes, Positions
<1>2. CASE program.fast
  <2>1. bitshift'.sreg \in Words
    BY <1>1, <1>2, RotatedBits, BitshiftRecord DEF RotatedRight
  <2>2. bitshift'.bcnt \in 0 .. XLEN
    BY <1>2, SizeOfOnes, BitshiftRecord DEF Ones
  <2>3. LeadingZeros(bitmanip.rs1) \in 0 .. XLEN /\ TrailingZeros(bitmanip.rs1) \in 0 .. XLEN
    BY SizeOfOnes DEF LeadingZeros, TrailingZeros
  <2>4. bitshift'.cnt \in 0 .. XLEN
    BY <1>2, <2>3, BitshiftRecord
  <2> QED BY <1>1, <2>1, <2>2, <2>4
<1>3. CASE ~program.fast
  <2> DEFINE lowest == Bit(bitshift.sreg, 0)
             new_bit == IF (Rotating /\ lowest = 1) \/ Counting THEN 1 ELSE 0
             next == new_bit * 2 ^ (XLEN - 1) + ShiftRight(bitshift.sreg, 1)
             c == bitshift.cnt + 1
             b == bitshift.bcnt + lowest
             M == 2 * XLEN
  <2>1. next \in Words
    <3>1. new_bit \in {0, 1}
      OBVIOUS
    <3> HIDE DEF new_bit
    <3> QED BY <1>1, <3>1, ShiftedIn
  <2>2. c \in Int /\ b \in Int
    <3>1. lowest \in {0, 1}
      BY <1>1, BitRange, WordRange
    <3> HIDE DEF lowest
    <3> QED BY <3>1 DEF BitmanipTypes
  <2>3. Loaded \in Words
    BY <1>1 DEF Loaded
  <2>4. \/ bitshift'.sreg = Loaded /\ bitshift'.cnt = 0 /\ bitshift'.bcnt = 0
        \/ bitshift'.sreg = next /\ bitshift'.cnt = c % M /\ bitshift'.bcnt = b % M
        \/ bitshift' = bitshift
    BY <1>3, SerialStep
  <2> HIDE DEF next, c, b, M
  <2>5. M \in Nat \ {0}
    BY <1>1 DEF M
  <2>6. c % M \in 0 .. M - 1 /\ b % M \in 0 .. M - 1
    BY <2>2, <2>5, ReducedRange
  <2>7. 0 \in 0 .. M - 1
    BY <2>5
  <2> QED BY <2>1, <2>3, <2>4, <2>6, <2>7 DEF BitmanipTypes, M
<1> QED BY <1>2, <1>3

LEMMA BitmanipTyped ==
    ASSUME Shapes, BitmanipInvariant, BitmanipTypes, Operands, Clock
    PROVE  BitmanipTypes'
<1>1. bitmanip'.result \in Words
  <2>1. SelectedResult(instr) \in Words
    BY OnesOfWord DEF SelectedResult
  <2> QED BY <2>1, ZeroBits, BitmanipControlled
<1>2. CASE bitmanip.state = "S_IDLE" /\ ~Start("bitmanip")
  <2>1. bitmanip' = [bitmanip EXCEPT !.valid = FALSE,
                       !.result = IF bitmanip.valid THEN SelectedResult(instr) ELSE 0]
    BY <1>2 DEF Clock, CoProcessorsClock, BitmanipClock, BitmanipControl, BitmanipIdle
  <2>2. /\ bitmanip'.cmd = bitmanip.cmd /\ bitmanip'.rs1 = bitmanip.rs1
        /\ bitmanip'.sha = bitmanip.sha
    BY <2>1 DEF Shapes, BitmanipFields
  <2> QED BY <1>1, <2>2, ShiftCounts DEF BitmanipTypes
<1>3. CASE bitmanip.state = "S_IDLE" /\ Start("bitmanip")
  <2>1. Decoded(instr) \subseteq Operations /\ rs.rs1 \in Words /\ ShiftAmount \in Positions
    BY AmountRange DEF Decoded, Operands
  <2> QED BY <1>1, <1>3, <2>1, BitmanipControlled, ShiftCounts DEF BitmanipTypes
<1>4. CASE bitmanip.state # "S_IDLE"
  BY <1>1, <1>4, BitmanipControlled, ShiftCounts DEF BitmanipTypes
<1> QED BY <1>2, <1>3, <1>4

-----------------------------------------------------------------------------
(* The control unit.                                                       *)

UnitTypes ==
    /\ state \in {"SYS_WAIT", "DISPATCH", "TRAP_ENTER", "TRAP_EXECUTE", "EXECUTE", "ALU_WAIT"}
    /\ ctrl \in [copro : BOOLEAN, cp : CoProcessors, wb : BOOLEAN]
    /\ {cmd_ff, exc, env, abandoned} \subseteq BOOLEAN
    /\ fflags \subseteq FlagNames

LEMMA UnitTyped ==
    ASSUME UnitTypes, ControlTypes, Clock
    PROVE  UnitTypes'
<1>1. ExecuteEngine /\ TrapController /\ Registers
  BY DEF Clock
<1>2. Off \in [copro : BOOLEAN, cp : CoProcessors, wb : BOOLEAN]
  BY DEF Off, CoProcessors
<1>3. /\ state' \in {"SYS_WAIT", "DISPATCH", "TRAP_ENTER", "TRAP_EXECUTE", "EXECUTE", "ALU_WAIT"}
      /\ ctrl' \in [copro : BOOLEAN, cp : CoProcessors, wb : BOOLEAN]
  <2>1. CASE EXECUTE
    <3>1. CASE CoProcessorOf(instr) # "none" /\ ctrl' = [copro |-> TRUE, cp |-> CoProcessorOf(instr),
                                                         wb |-> FALSE]
      <4>1. CoProcessorOf(instr) \in CoProcessors
        BY <3>1 DEF CoProcessorOf, CoProcessors
      <4> QED BY <2>1, <3>1, <4>1 DEF EXECUTE
    <3>2. CASE ctrl' = [Off EXCEPT !.wb = TRUE]
      BY <1>2, <2>1, <3>2 DEF EXECUTE
    <3>3. CASE ctrl' = Off
      BY <1>2, <2>1, <3>3 DEF EXECUTE
    <3> QED BY <2>1, <3>1, <3>2, <3>3 DEF EXECUTE
  <2>2. CASE ALU_WAIT
    <3>1. PICK wb \in BOOLEAN : ctrl' = [Off EXCEPT !.copro = TRUE, !.wb = wb]
      <4>1. (idone \/ exc) \in BOOLEAN
        OBVIOUS
      <4>2. ctrl' = [Off EXCEPT !.copro = TRUE, !.wb = idone \/ exc]
        BY <2>2 DEF ALU_WAIT
      <4> QED BY <4>1, <4>2, Zenon
    <3>2. state' \in {"DISPATCH", "ALU_WAIT"}
      BY <2>2 DEF ALU_WAIT
    <3> QED BY <1>2, <3>1, <3>2
  <2>3. CASE ~EXECUTE /\ ~ALU_WAIT
    <3>1. /\ state' \in {state, "SYS_WAIT", "DISPATCH", "TRAP_ENTER", "TRAP_EXECUTE", "EXECUTE"}
          /\ ctrl' = Off
      BY <1>1, <2>3 DEF ExecuteEngine, SYS_WAIT, DispatchWaits, Dispatch, DispatchTraps, TRAP_ENTER,
                        TRAP_EXECUTE
    <3> QED BY <1>2, <3>1 DEF UnitTypes
  <2> QED BY <2>1, <2>2, <2>3
<1>4. cmd_ff' \in BOOLEAN
  BY <1>1 DEF Registers, UnitTypes
<1>5. exc' \in BOOLEAN
  BY <1>1, Zenon DEF TrapController
<1>6. env' \in BOOLEAN
  <2>1. exc \in BOOLEAN
    BY DEF UnitTypes
  <2>2. (state # "TRAP_ENTER") \in BOOLEAN
    OBVIOUS
  <2>3. PICK irq \in BOOLEAN :
          env' = IF env THEN state # "TRAP_ENTER"
                 ELSE exc \/ (irq /\ state \in {"EXECUTE", "TRAP_ENTER"})
    BY <1>1 DEF TrapController
  <2>4. (exc \/ (irq /\ state \in {"EXECUTE", "TRAP_ENTER"})) \in BOOLEAN
    OBVIOUS
  <2> QED BY <2>2, <2>3, <2>4, Zenon
<1>7. abandoned' \in BOOLEAN
  BY <1>1, Zenon DEF Registers
<1>8. fflags' \subseteq FlagNames
  <2>1. fflags' \subseteq fflags \union fpu.flags
    BY <1>1 DEF Registers
  <2> QED BY <2>1 DEF UnitTypes, ControlTypes
<1> QED BY <1>3, <1>4, <1>5, <1>6, <1>7, <1>8 DEF UnitTypes

-----------------------------------------------------------------------------
(* All of it together.                                                     *)

Typed ==
    /\ UnitTypes /\ ShifterTypes /\ BitmanipTypes
    /\ ControlTypes /\ AdderTypes /\ NormalizerTypes /\ ConverterTypes
    /\ Controlled /\ Phases

LEMMA TypedInit == Init => Typed
<1> SUFFICES ASSUME Init PROVE Typed
  OBVIOUS
<1>1. 0 \in Words /\ 0 \in Positions /\ XLEN \in Nat /\ 0 \in 0 .. 2 * XLEN - 1
  BY ZeroBits, Powers DEF Positions
<1>2. /\ 0 \in 0 .. AllOnes /\ 0 \in 0 .. 2 ^ MAN - 1 /\ 0 \in 0 .. 2 ^ (EXP + 1) - 1
      /\ 0 \in 0 .. 2 ^ (MAN + 4) - 1 /\ 0 \in 0 .. 2 ^ (XLEN + MAN + 3) - 1
  <2> DEFINE P == 2 ^ MAN
             E == 2 ^ (EXP - 1)
             N == 2 ^ (XLEN + MAN + 3)
  <2>1. /\ P \in Nat /\ P >= 8 /\ 2 ^ (MAN + 4) = 16 * P /\ N \in Nat /\ N >= 32 * P
        /\ E \in Nat \ {0} /\ 2 ^ EXP = 2 * E /\ 2 ^ (EXP + 1) = 2 * 2 ^ EXP
    BY RegisterWidths
  <2> HIDE DEF P, E, N
  <2> QED BY <2>1 DEF AllOnes, P, N
<1>3. UnitTypes
  BY DEF Init, UnitTypes, Off, CoProcessors
<1>4. ShifterTypes
  BY <1>1 DEF Init, ShifterInit, ShifterTypes
<1>5. BitmanipTypes
  BY <1>1 DEF Init, BitmanipInit, BitmanipTypes
<1>6. ControlTypes
  BY <1>1 DEF Init, FpuInit, ControlTypes, UnitNames
<1>7. AdderTypes
  BY <1>2 DEF Init, FpuInit, AdderTypes
<1>8. NormalizerTypes
  BY <1>1, <1>2 DEF Init, FpuInit, NormalizerTypes, NormalizerRecord
<1>9. ConverterTypes
  BY <1>1, <1>2 DEF Init, FpuInit, ConverterTypes, ConverterRecord
<1>10. Controlled
  BY DEF Init, Off, Controlled
<1>11. Phases
  BY DEF Init, FpuInit, Phases
<1> QED BY <1>3, <1>4, <1>5, <1>6, <1>7, <1>8, <1>9, <1>10, <1>11 DEF Typed

LEMMA TypedStep == IInv /\ Holds /\ Typed /\ [Clock]_vars => Typed'
<1> SUFFICES ASSUME IInv, Holds, Typed, [Clock]_vars PROVE Typed'
  OBVIOUS
<1>1. /\ Shapes /\ BitmanipInvariant /\ Operands
      /\ UnitTypes /\ ShifterTypes /\ BitmanipTypes
      /\ ControlTypes /\ AdderTypes /\ NormalizerTypes /\ ConverterTypes
      /\ Controlled /\ Phases
  BY DEF IInv, Holds, Typed
<1>2. CASE Clock
  <2>1. UnitTypes' /\ ShifterTypes' /\ BitmanipTypes'
    BY <1>1, <1>2, UnitTyped, ShifterTyped, BitmanipTyped
  <2>2. ControlTypes' /\ AdderTypes' /\ NormalizerTypes' /\ ConverterTypes'
    BY <1>1, <1>2, ControlTyped, AdderTyped, NormalizerStates, ConverterStates
  <2>3. Controlled' /\ Phases'
    BY <1>1, <1>2, ControlledStep, PhasesStep
  <2> QED BY <2>1, <2>2, <2>3 DEF Typed
<1>3. CASE UNCHANGED vars
  <2>1. UNCHANGED <<i_reg, state, ctrl, cmd_ff, exc, env, fflags, abandoned, shifter, bitmanip,
                    bitshift, fpu, adder, norm, f2i>>
    BY <1>3 DEF vars, control_vars, fpu_vars
  <2>2. UnitTypes' /\ ShifterTypes' /\ BitmanipTypes'
    BY <1>1, <2>1 DEF UnitTypes, ShifterTypes, BitmanipTypes
  <2>3. ControlTypes' /\ AdderTypes'
    BY <1>1, <2>1 DEF ControlTypes, AdderTypes
  <2>4. NormalizerTypes' /\ ConverterTypes'
    BY <1>1, <2>1 DEF NormalizerTypes, NormalizerRecord, ConverterTypes, ConverterRecord
  <2>5. Controlled' /\ Phases'
    BY <1>1, <2>1 DEF Controlled, Phases, instr
  <2> QED BY <2>2, <2>3, <2>4, <2>5 DEF Typed
<1> QED BY <1>2, <1>3

LEMMA TypedSpec == Spec => []Typed
BY Invariant, Answering, TypedInit, TypedStep, PTL DEF Spec

\* The control unit is in one of its states and the registers hold words: those
\* of every co-processor keep to their widths, for every program.
THEOREM NeoTypeCorrect == Spec => []TypeOK
<1>1. IInv /\ Holds /\ Typed => TypeOK
  BY DEF IInv, BitmanipInvariant, Holds, Operands, Typed, UnitTypes, ShifterTypes, BitmanipTypes,
         ControlTypes, AdderTypes, NormalizerTypes, NormalizerRecord, ConverterTypes,
         ConverterRecord, FlagNames, TypeOK
<1> QED BY <1>1, Invariant, Answering, TypedSpec, PTL

\* Whatever traps and interrupts come between, the units of the FPU work one at
\* a time, for the operation that keeps it busy: no sum finds the normalizer at
\* work, and what ends an operation is its own unit (fu_core_done).
THEOREM UnitsWorkAlone == Spec => []OneUnitAtATime
<1>1. Typed => OneUnitAtATime
  BY DEF Typed, Phases, OneUnitAtATime
<1> QED BY <1>1, TypedSpec, PTL

-----------------------------------------------------------------------------
(* The conversions to integers. Numbers first: the integer that a float is *)
(* rounded to, and what the shift register of the converter has of it.     *)

LEMMA ExponentSizes ==
    /\ Bias \in Nat /\ Bias >= XLEN /\ XLEN \in Nat /\ XLEN >= 10
    /\ MAN \in Nat /\ MAN >= 3 /\ XLEN >= MAN + 3
    /\ 2 ^ (EXP - 1) = Bias + 1 /\ 2 ^ EXP = 2 * Bias + 2 /\ AllOnes = 2 * Bias + 1
<1> DEFINE E == 2 ^ (EXP - 1)
<1>1. E \in Nat \ {0} /\ 2 ^ EXP = 2 * E
  BY RegisterWidths
<1>2. XLEN \in Nat /\ E > XLEN /\ XLEN >= 10 /\ MAN \in Nat /\ MAN >= 3 /\ XLEN >= MAN + 3
  BY FloatSizes, Powers
<1>3. Bias = E - 1 /\ AllOnes = 2 ^ EXP - 1
  BY DEF Bias, AllOnes
<1> HIDE DEF E
<1>4. Bias \in Nat /\ Bias >= XLEN /\ E = Bias + 1 /\ 2 ^ EXP = 2 * Bias + 2
      /\ AllOnes = 2 * Bias + 1
  BY <1>1, <1>2, <1>3
<1> QED BY <1>2, <1>4 DEF E

\* With guard and round bits and a sticky bit that is not clear when the rest of
\* a fraction is not 0, the hardware rounds to the nearest integer, but for the
\* fractions of one half.
LEMMA StepOfMantissa ==
    ASSUME NEW mant \in 0 .. 2 ^ MAN - 1, NEW s, NEW odd,
           mant % 2 ^ (MAN - 2) # 0 => s, 2 * mant # 2 ^ MAN
    PROVE  RoundingStep(0, odd, 2 * (mant \div 2 ^ (MAN - 2)) + (IF s THEN 1 ELSE 0))
             = IF 2 * mant > 2 ^ MAN THEN 1 ELSE 0
<1> DEFINE Q == 2 ^ (MAN - 2)
           t == mant \div Q
           r == mant % Q
           rest == 2 * t + (IF s THEN 1 ELSE 0)
<1>1. Q \in Nat \ {0} /\ 2 ^ MAN = 4 * Q
  BY RegisterWidths
<1>2. mant \in Int /\ 0 <= mant /\ mant < 4 * Q /\ 2 * mant # 4 * Q
  BY <1>1
<1> HIDE DEF Q
<1>3. t \in Int /\ r \in Int /\ 0 <= r /\ r < Q /\ mant = Q * t + r
  BY <1>1, <1>2, DivMod
<1>4. r # 0 => s
  BY DEF Q
<1> HIDE DEF t, r
<1>5. t >= 0 /\ t < 4
  <2>1. t <= -1 => Q * t <= -Q
    BY <1>1, <1>3
  <2>2. t >= 4 => Q * t >= 4 * Q
    BY <1>1, <1>3
  <2> QED BY <1>1, <1>2, <1>3, <2>1, <2>2
<1>6. rest > 4 <=> 2 * mant > 4 * Q
  <2>1. CASE t \in {0, 1}
    BY <1>1, <1>2, <1>3, <2>1
  <2>2. CASE t = 2
    BY <1>1, <1>2, <1>3, <1>4, <2>2
  <2>3. CASE t = 3
    BY <1>1, <1>2, <1>3, <2>3
  <2> QED BY <1>3, <1>5, <2>1, <2>2, <2>3
<1>7. rest # 4
  <2>1. t = 2 => r # 0
    BY <1>1, <1>2, <1>3
  <2> QED BY <1>3, <1>4, <1>5, <2>1
<1> HIDE DEF rest
<1>8. RoundingStep(0, odd, rest) = IF rest > 4 THEN 1 ELSE 0
  BY <1>7 DEF RoundingStep
<1> QED BY <1>1, <1>6, <1>8 DEF rest, t, Q

\* The magnitude of the integer that a finite float is rounded to.
RoundedMagnitude(a) ==
    CASE Scale(a) >= 0 -> Significand(a) * 2 ^ Scale(a)
      [] Scale(a) \in -(MAN + 1) .. -1 -> NearestAway(Significand(a), -Scale(a))
      [] OTHER -> 0

LEMMA SignificandRange ==
    ASSUME NEW a \in Words, ExponentOf(a) # 0
    PROVE  /\ Significand(a) = 2 ^ MAN + MantissaOf(a) /\ Significand(a) \in Nat
           /\ Significand(a) >= 2 ^ MAN /\ Significand(a) < 2 * 2 ^ MAN
           /\ Scale(a) = ExponentOf(a) - Bias - MAN /\ ExponentOf(a) \in Nat
<1> DEFINE P == 2 ^ MAN
           m == MantissaOf(a)
           e == ExponentOf(a)
<1>1. P \in Nat /\ m \in 0 .. P - 1 /\ e \in 0 .. AllOnes /\ AllOnes \in Nat
  BY FloatParts, FloatPowers
<1>2. Significand(a) = P + m /\ Scale(a) = e - Bias - MAN
  BY DEF Significand, Scale
<1> HIDE DEF P, m, e
<1>3. P + m \in Nat /\ P + m >= P /\ P + m < 2 * P /\ e \in Nat
  BY <1>1
<1> QED BY <1>2, <1>3 DEF P, m, e

\* A significand that is shifted by the exponent, in integer and fraction.
LEMMA IntegerShifted ==
    ASSUME NEW a \in Words, ExponentOf(a) >= Bias, ExponentOf(a) - Bias <= XLEN - 1,
           NEW int \in Nat, NEW mant \in 0 .. 2 ^ MAN - 1,
           int * 2 ^ MAN + mant = Significand(a) * 2 ^ (ExponentOf(a) - Bias)
    PROVE  /\ 2 * mant = 2 ^ MAN => IsBetween(a)
           /\ RoundedMagnitude(a) = int + (IF 2 * mant >= 2 ^ MAN THEN 1 ELSE 0)
           /\ int < 2 ^ (ExponentOf(a) - Bias + 1) /\ int >= 2 ^ (ExponentOf(a) - Bias)
           /\ mant # 0 => int + 1 < 2 ^ (XLEN - 1) /\ ExponentOf(a) - Bias <= XLEN - 2
<1> DEFINE P == 2 ^ MAN
           S == Significand(a)
           k == ExponentOf(a) - Bias
           K == 2 ^ k
           h == Scale(a)
<1>1. /\ Bias \in Nat /\ XLEN \in Nat /\ MAN \in Nat /\ XLEN >= MAN + 3
      /\ ExponentOf(a) \in 0 .. AllOnes /\ AllOnes \in Nat
      /\ Bias # 0
  BY ExponentSizes, FloatParts, FloatPowers
<1>2. ExponentOf(a) # 0 /\ k \in 0 .. XLEN - 1 /\ k + 1 \in 0 .. XLEN /\ h = k - MAN
  BY <1>1, SignificandRange
<1>3. S \in Nat /\ S >= P /\ S < 2 * P /\ P \in Nat \ {0}
  BY <1>2, SignificandRange, FloatPowers
<1>4. /\ K \in Nat \ {0} /\ 2 ^ (k + 1) = 2 * K
      /\ \A n \in 0 .. XLEN : 2 ^ n \in Nat \ {0} /\ \A m \in 0 .. n : 2 ^ n = 2 ^ m * 2 ^ (n - m)
  <2>1. \A n \in 0 .. XLEN : 2 ^ n \in Nat /\ 2 ^ n >= 1
             /\ \A m \in 0 .. n : 2 ^ n = 2 ^ m * 2 ^ (n - m)
    BY Powers
  <2>2. k \in 0 .. XLEN /\ k \in 0 .. k + 1 /\ (k + 1) - k = 1 /\ 2 ^ 1 = 2
    BY <1>1, <1>2
  <2> HIDE DEF k
  <2>3. K \in Nat /\ K >= 1 /\ 2 ^ (k + 1) = 2 ^ k * 2 ^ ((k + 1) - k)
    BY <1>2, <2>1, <2>2
  <2> QED BY <2>1, <2>2, <2>3
<1>5. int * P + mant = S * K
  OBVIOUS
<1>9. k \in 0 .. XLEN - 1 /\ (k = ExponentOf(a) - Bias)
  BY <1>2
<1> HIDE DEF k, K, P, S, h
<1>6. int \in Nat /\ mant \in Nat /\ mant < P
  BY <1>3 DEF P
<1>7. int < 2 * K /\ int >= K
  <2>1. S * K >= P * K /\ S * K < 2 * P * K /\ P * K \in Nat
    BY <1>3, <1>4
  <2>2. int >= 2 * K => int * P >= 2 * K * P
    BY <1>3, <1>4, <1>6
  <2>3. int + 1 <= K => (int + 1) * P <= K * P
    BY <1>3, <1>4, <1>6
  <2>4. (int + 1) * P = int * P + P /\ P * K = K * P /\ 2 * P * K = 2 * K * P
        /\ int * P \in Nat
    BY <1>3, <1>4, <1>6
  <2> QED BY <1>3, <1>4, <1>5, <1>6, <2>1, <2>2, <2>3, <2>4
<1> DEFINE Between == h \in -(MAN + 1) .. -1 /\ S % 2 ^ (-h) = 2 ^ (-h - 1)
           rounded == CASE h >= 0 -> S * 2 ^ h
                        [] h \in -(MAN + 1) .. -1 -> NearestAway(S, -h)
                        [] OTHER -> 0
<1>8. /\ 2 * mant = P => Between
      /\ rounded = int + (IF 2 * mant >= P THEN 1 ELSE 0)
      /\ mant # 0 => int + 1 < 2 ^ (XLEN - 1) /\ k <= XLEN - 2
  <2>1. CASE k >= MAN
    <3> DEFINE D == 2 ^ (k - MAN)
    <3>1. K = P * D /\ D \in Nat \ {0} /\ h = k - MAN /\ h >= 0
      <4>1. k \in 0 .. XLEN /\ MAN \in 0 .. k /\ k - MAN \in 0 .. XLEN
        BY <1>1, <1>2, <2>1
      <4> QED BY <1>2, <1>4, <2>1, <4>1 DEF K, P
    <3>2. 2 ^ h = D
      BY <3>1
    <3> HIDE DEF D
    <3> DEFINE n == S * D
    <3>3. S * K = P * n /\ n \in Nat
      BY <1>3, <3>1
    <3>4. n \in Nat /\ int * P + mant = P * n + 0
      <4> HIDE DEF n
      <4>1. P * n \in Int
        BY <1>3, <3>3
      <4> QED BY <1>5, <3>3, <4>1
    <3> HIDE DEF n
    <3>5. int = n /\ mant = 0
      <4> DEFINE c == int * P + mant
      <4>1. c = P * int + mant /\ c = P * n + 0 /\ c \in Int
        BY <1>3, <1>6, <3>4
      <4> HIDE DEF c
      <4>2. c \div P = int /\ c % P = mant
        BY <1>3, <1>6, <4>1, Division
      <4>3. c \div P = n /\ c % P = 0
        <5>1. 0 <= 0 /\ 0 < P /\ 0 \in Int
          BY <1>3
        <5> QED BY <1>3, <3>4, <4>1, <5>1, Division
      <4> QED BY <4>2, <4>3
    <3>6. rounded = S * 2 ^ h
      BY <3>1
    <3>7. rounded = n
      BY <3>2, <3>6 DEF n
    <3> HIDE DEF rounded, Between
    <3>8. ~(2 * mant = P) /\ ~(2 * mant >= P)
      BY <1>3, <3>5
    <3> QED BY <3>4, <3>5, <3>7, <3>8
  <2>2. CASE k < MAN
    <3> DEFINE d == MAN - k
               D == 2 ^ d
               C == 2 ^ (d - 1)
               q == S \div D
               r == S % D
    <3>1. d \in 1 .. MAN /\ d - 1 \in 0 .. XLEN /\ d \in 0 .. XLEN /\ -h = d
          /\ h \in -(MAN + 1) .. -1 /\ ~(h >= 0)
      BY <1>1, <1>2, <2>2
    <3>2. P = K * D /\ D = 2 * C /\ C \in Nat \ {0} /\ D \in Nat \ {0}
      <4>1. MAN \in 0 .. XLEN /\ k \in 0 .. MAN /\ MAN - k = d /\ 1 \in 0 .. d
        BY <1>1, <1>2, <2>2
      <4> HIDE DEF d
      <4>2. P = 2 ^ k * 2 ^ (MAN - k)
        BY <1>4, <4>1 DEF P
      <4>3. D = 2 * C
        <5>1. d \in 1 .. XLEN
          BY <1>1, <3>1
        <5> QED BY <5>1, Powers
      <4> QED BY <1>4, <3>1, <4>1, <4>2, <4>3 DEF K
    <3>3. rounded = NearestAway(S, -h) /\ Between = (S % 2 ^ (-h) = 2 ^ (-h - 1))
      <4> HIDE DEF h, D, C, d
      <4> QED BY <3>1
    <3>4. rounded = q + (IF 2 * r - D >= 0 THEN 1 ELSE 0) /\ Between = (r = C)
      BY <3>1, <3>3 DEF NearestAway, Halves
    <3> HIDE DEF rounded, Between, D, C, d
    <3>5. q \in Int /\ r \in Int /\ 0 <= r /\ r < D /\ S = D * q + r
      <4>1. S \in Int /\ D \in Nat \ {0}
        BY <1>3, <3>2
      <4> QED BY <4>1, DivMod
    <3> HIDE DEF q, r
    <3>9. q \in Int
      BY <3>5
    <3>6. int = q /\ mant = K * r
      <4>1. S * K = P * q + K * r /\ K * r \in Nat
        <5>1. (D * q + r) * K = (K * D) * q + K * r
          BY <1>4, <3>2, <3>5
        <5>2. r \in Nat
          BY <3>5
        <5> QED BY <1>4, <3>2, <3>5, <5>1, <5>2
      <4>2. K * r < P
        <5>1. K * r + K <= K * D
          BY <1>4, <3>2, <3>5
        <5> QED BY <1>4, <3>2, <4>1, <5>1
      <4> DEFINE c == int * P + mant
                 x == K * r
      <4>3. c = P * int + mant /\ c = P * q + x /\ c \in Int /\ x \in Nat /\ x < P
        BY <1>3, <1>5, <1>6, <4>1, <4>2
      <4> HIDE DEF c, x
      <4>4. c \div P = int /\ c % P = mant
        BY <1>3, <1>6, <4>3, Division
      <4>5. c \div P = q /\ c % P = x
        <5>1. 0 <= x /\ x \in Int /\ P \in Nat \ {0}
          BY <1>3, <4>3
        <5> QED BY <3>9, <4>3, <5>1, Division
      <4> QED BY <4>4, <4>5 DEF x
    <3>7. (2 * mant >= P <=> 2 * r >= D) /\ (2 * mant = P => r = C)
      <4>1. 2 * mant = K * (2 * r)
        BY <1>4, <3>5, <3>6
      <4>2. 2 * r >= D => K * (2 * r) >= K * D
        BY <1>4, <3>2, <3>5
      <4>3. 2 * r + 1 <= D => K * (2 * r) + K <= K * D
        BY <1>4, <3>2, <3>5
      <4>4. 2 * r >= D + 1 => K * (2 * r) >= K * D + K
        BY <1>4, <3>2, <3>5
      <4>5. K * D \in Nat /\ K * (2 * r) \in Int
        BY <1>4, <3>2, <3>5
      <4> QED BY <1>4, <3>2, <3>5, <4>1, <4>2, <4>3, <4>4, <4>5
    <3>8. mant # 0 => int + 1 < 2 ^ (XLEN - 1) /\ k <= XLEN - 2
      <4>1. k <= XLEN - 2
        BY <1>1, <1>2, <2>2
      <4>2. 2 * K <= P
        BY <1>4, <3>2
      <4>3. 2 ^ (XLEN - 1) >= 2 * P /\ 2 ^ (XLEN - 1) \in Nat
        <5>1. 2 ^ (XLEN - 1) = P * 2 ^ EXP /\ 2 ^ EXP \in Nat /\ 2 ^ EXP >= 2
              /\ 2 ^ (XLEN - 1) \in Nat
          BY FloatPowers DEF P
        <5> DEFINE E == 2 ^ EXP
        <5> HIDE DEF E
        <5>2. P * E >= 2 * P
          BY <1>3, <5>1 DEF E
        <5> QED BY <5>1, <5>2 DEF E
      <4>4. int + 1 <= P
        BY <1>3, <1>4, <1>6, <1>7, <4>2
      <4>5. P < 2 * P
        BY <1>3
      <4> QED BY <1>3, <1>6, <4>1, <4>3, <4>4, <4>5
    <3>10. rounded = int + (IF 2 * mant >= P THEN 1 ELSE 0)
      <4>1. 2 * r - D >= 0 <=> 2 * r >= D
        BY <3>2, <3>5
      <4> QED BY <3>4, <3>6, <3>7, <4>1
    <3> QED BY <3>4, <3>7, <3>8, <3>10
  <2> QED BY <1>1, <1>2, <2>1, <2>2
<1>10. Between => IsBetween(a)
  BY DEF IsBetween, S, h
<1>11. rounded = RoundedMagnitude(a)
  BY DEF RoundedMagnitude, S, h
<1> HIDE DEF rounded, Between
<1>12. k <= XLEN - 2 => ExponentOf(a) - Bias <= XLEN - 2
  BY DEF k
<1>13. 2 ^ (ExponentOf(a) - Bias + 1) = 2 * K /\ 2 ^ (ExponentOf(a) - Bias) = K
  BY <1>4 DEF k, K
<1> QED BY <1>7, <1>8, <1>10, <1>11, <1>12, <1>13 DEF P

\* Where that magnitude lies, by the exponent.
LEMMA IntegerRange ==
    ASSUME NEW a \in Words, ExponentOf(a) # 0
    PROVE  /\ ExponentOf(a) < Bias - 1 => RoundedMagnitude(a) = 0
           /\ ExponentOf(a) = Bias - 1 => RoundedMagnitude(a) = 1
           /\ ExponentOf(a) \in Bias .. Bias + XLEN - 2 =>
                RoundedMagnitude(a) \in 1 .. 2 ^ (XLEN - 1) - 1
           /\ ExponentOf(a) = Bias + XLEN - 1 =>
                RoundedMagnitude(a) \in 2 ^ (XLEN - 1) .. 2 ^ XLEN - 1
<1> DEFINE e == ExponentOf(a)
           P == 2 ^ MAN
           S == Significand(a)
           H == 2 ^ (XLEN - 1)
<1>1. /\ e \in Nat /\ Bias \in Nat /\ MAN \in Nat /\ XLEN \in Nat /\ XLEN >= 10
      /\ S \in Nat /\ S >= P /\ S < 2 * P /\ P \in Nat \ {0} /\ Scale(a) = e - Bias - MAN
      /\ H \in Nat \ {0} /\ 2 ^ XLEN = 2 * H /\ 2 ^ (MAN + 1) = 2 * P
  BY ExponentSizes, SignificandRange, FloatPowers, RegisterWidths
<1>2. CASE e < Bias - 1
  <2>1. ~(Scale(a) >= 0) /\ ~(Scale(a) \in -(MAN + 1) .. -1) /\ ~(e = Bias - 1)
        /\ ~(e \in Bias .. Bias + XLEN - 2) /\ ~(e = Bias + XLEN - 1)
    BY <1>1, <1>2
  <2>2. RoundedMagnitude(a) = 0
    BY <2>1 DEF RoundedMagnitude
  <2> QED BY <2>1, <2>2
<1>3. CASE e = Bias - 1
  <2>1. Scale(a) \in -(MAN + 1) .. -1 /\ ~(Scale(a) >= 0) /\ -Scale(a) = MAN + 1
        /\ ~(e < Bias - 1) /\ ~(e \in Bias .. Bias + XLEN - 2) /\ ~(e = Bias + XLEN - 1)
    BY <1>1, <1>3
  <2>2. RoundedMagnitude(a) = NearestAway(S, MAN + 1)
    BY <2>1 DEF RoundedMagnitude
  <2>3. S \div (2 * P) = 0 /\ S % (2 * P) = S
    <3> DEFINE d == 2 * P
    <3>1. d \in Nat \ {0} /\ S \in Int /\ S < d /\ 0 <= S /\ 0 \in Int /\ S = d * 0 + S
      BY <1>1
    <3> HIDE DEF d, S
    <3> QED BY <3>1, Division DEF d
  <2> DEFINE D == 2 ^ (MAN + 1)
  <2>4. S \div D = 0 /\ S % D = S /\ D = 2 * P
    BY <1>1, <2>3
  <2> HIDE DEF D, S, P
  <2>5. NearestAway(S, MAN + 1) = 1
    <3>1. 2 * S - D >= 0
      BY <1>1, <2>4
    <3> QED BY <2>4, <3>1 DEF NearestAway, Halves, D
  <2> QED BY <2>1, <2>2, <2>5
<1>4. CASE e >= Bias /\ e <= Bias + XLEN - 1
  <2> DEFINE k == e - Bias
             c == S * 2 ^ k
             int == c \div P
             mant == c % P
             n == RoundedMagnitude(a)
  <2>1. k \in 0 .. XLEN - 1 /\ k \in 0 .. XLEN /\ k + 1 \in 0 .. XLEN /\ XLEN - 1 \in 0 .. XLEN
    BY <1>1, <1>4
  <2>2. 2 ^ k \in Nat /\ 2 ^ (k + 1) \in Nat
    BY <2>1, Powers
  <2>3. c \in Nat /\ c = S * 2 ^ k
    <3> HIDE DEF k, S
    <3> QED BY <1>1, <2>2
  <2> HIDE DEF c
  <2>4. int \in Nat /\ mant \in 0 .. P - 1 /\ c = int * P + mant
    <3> HIDE DEF P
    <3>4. c \in Int /\ P \in Nat \ {0}
      BY <1>1, <2>3
    <3>1. int \in Int /\ mant \in Int /\ 0 <= mant /\ mant < P /\ c = P * int + mant
      BY <3>4, DivMod
    <3> HIDE DEF int, mant
    <3>2. int >= 0
      <4>1. int <= -1 => P * int <= -P
        BY <1>1, <3>1
      <4> QED BY <1>1, <2>3, <3>1, <4>1
    <3>3. c = int * P + mant
      BY <3>1, <3>4
    <3> QED BY <3>1, <3>2, <3>3, <3>4
  <2> HIDE DEF int, mant, n
  <2>5. /\ n = int + (IF 2 * mant >= P THEN 1 ELSE 0)
        /\ int < 2 ^ (k + 1) /\ int >= 2 ^ k
        /\ mant # 0 => int + 1 < H /\ k <= XLEN - 2
    <3>1. e >= Bias /\ e - Bias <= XLEN - 1 /\ int * P + mant = S * 2 ^ (e - Bias)
      BY <1>1, <1>4, <2>3, <2>4
    <3> QED BY <2>4, <3>1, IntegerShifted DEF n
  <2>6. mant = 0 => n = int
    <3> HIDE DEF P
    <3>1. P \in Nat /\ P >= 1
      BY <1>1
    <3>2. mant = 0 => ~(2 * mant >= P)
      BY <3>1
    <3> QED BY <2>4, <2>5, <3>2 DEF P
  <2>7. mant # 0 => n <= int + 1 /\ n >= int
    BY <2>4, <2>5
  <2>8. 2 ^ k >= 1
    BY <2>1, Powers
  <2>9. CASE k <= XLEN - 2
    <3>1. 2 ^ (k + 1) <= H
      <4>1. k + 1 \in 0 .. XLEN - 1
        BY <1>1, <2>1, <2>9
      <4> QED BY <2>1, <4>1, Powers
    <3>2. n \in 1 .. H - 1
      <4> DEFINE K == 2 ^ k
                 L == 2 ^ (k + 1)
      <4>1. K \in Nat /\ K >= 1 /\ L \in Nat /\ L <= H /\ int < L /\ int >= K
        BY <2>2, <2>5, <2>8, <3>1
      <4> HIDE DEF K, L, H, k
      <4>2. n \in Int
        BY <2>4, <2>5
      <4> QED BY <1>1, <2>4, <2>5, <2>6, <2>7, <4>1, <4>2
    <3>3. ~(e < Bias - 1) /\ ~(e = Bias - 1) /\ ~(e = Bias + XLEN - 1)
      BY <1>1, <1>4, <2>9
    <3> QED BY <3>2, <3>3 DEF n
  <2>10. CASE ~(k <= XLEN - 2)
    <3>1. k = XLEN - 1 /\ k + 1 = XLEN /\ ~(e \in Bias .. Bias + XLEN - 2)
          /\ ~(e < Bias - 1) /\ ~(e = Bias - 1)
      BY <1>1, <1>4, <2>10
    <3>2. n = int /\ int >= H /\ int < 2 * H
      BY <1>1, <2>5, <2>6, <2>10, <3>1
    <3>3. n \in H .. 2 * H - 1
      BY <1>1, <2>4, <3>2
    <3> QED BY <1>1, <3>1, <3>3 DEF n
  <2> QED BY <2>9, <2>10
<1>5. CASE e > Bias + XLEN - 1
  <2>1. ~(e < Bias - 1) /\ ~(e = Bias - 1) /\ ~(e \in Bias .. Bias + XLEN - 2)
        /\ ~(e = Bias + XLEN - 1)
    BY <1>1, <1>5
  <2> QED BY <2>1
<1>6. e < Bias - 1 \/ e = Bias - 1 \/ (e >= Bias /\ e <= Bias + XLEN - 1) \/ e > Bias + XLEN - 1
  BY <1>1
<1> QED BY <1>2, <1>3, <1>4, <1>5, <1>6

\* What the integer of a float, NaN and infinity included, is in a word.
Converted(a, unsign) ==
    LET low  == IF unsign THEN 0 ELSE -(2 ^ (XLEN - 1))
        high == IF unsign THEN 2 ^ XLEN - 1 ELSE 2 ^ (XLEN - 1) - 1
    IN  IF ExponentOf(a) < Bias + XLEN /\ NearestInteger(a) \in low .. high
        THEN NearestInteger(a) % 2 ^ XLEN
        ELSE (IF SignOf(a) = 1 /\ ~IsNaN(a) THEN low ELSE high) % 2 ^ XLEN

IsSpecial(a) == ClassOf(a) \in Infinities \union Zeros \union NaNs
IsFlushed(a) == a \in Words /\ (Magnitude(a) < 2 ^ MAN => Magnitude(a) = 0)

\* What the converter has when it limits the integer.
Finalized(r) ==
    LET e == ExponentOf(fpu.a)
    IN  /\ ClassOf(fpu.a) \in Zeros => ~r.over
        /\ ClassOf(fpu.a) \in Infinities => ~r.under
        /\ ~IsSpecial(fpu.a) /\ fpu.frm = 0 =>
             /\ e < Bias - 1 => r.under /\ ~r.over
             /\ e >= Bias - 1 =>
                  /\ ~r.under
                  /\ r.over <=> e - Bias >= (IF r.unsign THEN XLEN ELSE XLEN - 1)
                  /\ ~r.over /\ ~IsBetween(fpu.a) => r.result_tmp = RoundedMagnitude(fpu.a)

LEMMA SpecialNumbers ==
    ASSUME NEW a, IsFlushed(a)
    PROVE  /\ SignOf(a) \in {0, 1} /\ ExponentOf(a) \in 0 .. AllOnes
           /\ ClassOf(a) \in Zeros => ExponentOf(a) = 0 /\ MantissaOf(a) = 0 /\ ~IsNaN(a)
           /\ ClassOf(a) \in Infinities => ExponentOf(a) = AllOnes /\ ~IsNaN(a)
           /\ ClassOf(a) = "pos_inf" <=> ClassOf(a) \in Infinities /\ SignOf(a) = 0
           /\ ClassOf(a) = "neg_inf" <=> ClassOf(a) \in Infinities /\ SignOf(a) = 1
           /\ ClassOf(a) \in NaNs => ExponentOf(a) = AllOnes
           /\ ClassOf(a) \in NaNs <=> IsNaN(a)
           /\ ~IsSpecial(a) => ExponentOf(a) # 0 /\ ExponentOf(a) # AllOnes
<1>1. /\ SignOf(a) \in {0, 1} /\ ExponentOf(a) \in 0 .. AllOnes /\ a \in Words
      /\ MantissaOf(a) \in 0 .. 2 ^ MAN - 1
  BY FloatParts DEF IsFlushed
<1>2. ExponentOf(a) = 0 <=> Magnitude(a) < 2 ^ MAN
  BY <1>1, FloatClasses
<1>3. IsZero(a) <=> Magnitude(a) = 0
  BY <1>1, FloatClasses
<1>4. ExponentOf(a) = 0 => IsZero(a)
  BY <1>2, <1>3 DEF IsFlushed
<1>5. /\ IsZero(a) <=> ExponentOf(a) = 0 /\ MantissaOf(a) = 0
      /\ IsInfinite(a) => ExponentOf(a) = AllOnes
      /\ IsNaN(a) => ExponentOf(a) = AllOnes
      /\ ExponentOf(a) = AllOnes => IsZero(a) \/ IsInfinite(a) \/ IsNaN(a)
      /\ ~(IsZero(a) /\ IsNaN(a)) /\ ~(IsInfinite(a) /\ IsNaN(a)) /\ ~(IsZero(a) /\ IsInfinite(a))
  <2>1. AllOnes # 0
    BY FloatPowers
  <2> QED BY <2>1 DEF fpclassify, IsZero, IsInfinite, IsNaN
<1>6. /\ ClassOf(a) \in Zeros <=> IsZero(a)
      /\ ClassOf(a) \in Infinities <=> IsInfinite(a)
      /\ ClassOf(a) \in NaNs <=> IsNaN(a)
      /\ ClassOf(a) = "pos_inf" <=> ClassOf(a) \in Infinities /\ SignOf(a) = 0
      /\ ClassOf(a) = "neg_inf" <=> ClassOf(a) \in Infinities /\ SignOf(a) = 1
  BY <1>1, <1>5 DEF ClassOf, Zeros, Infinities, NaNs
<1> QED BY <1>1, <1>4, <1>5, <1>6 DEF IsSpecial

LEMMA SmallReduced ==
    ASSUME NEW d \in Nat \ {0}, NEW n \in 0 .. d - 1
    PROVE  n % d = n
<1>1. n \in Int /\ 0 \in Int /\ 0 <= n /\ n < d /\ n = d * 0 + n
  OBVIOUS
<1> QED BY <1>1, Division

LEMMA OppositeOfZero ==
    ASSUME NEW n, NEW i, n = 0, i = n \/ i = -n
    PROVE  i = 0
<1>1. n \in Int /\ n >= 0 /\ n <= 0
  OBVIOUS
<1>2. \A x, y \in Int : x >= 0 /\ x <= 0 /\ y = -x => y >= 0 /\ y <= 0
  OBVIOUS
<1>3. i \in Int
  OBVIOUS
<1>4. i = -n => i >= 0 /\ i <= 0
  BY <1>1, <1>2, <1>3
<1> QED BY <1>3, <1>4

\* The integer that the converter writes is the one of its operand.
LEMMA SaturatedConverts ==
    ASSUME IsFlushed(fpu.a), Finalized(f2i), fpu.frm = 0, ~IsBetween(fpu.a)
    PROVE  Saturated = Converted(fpu.a, f2i.unsign)
<1> DEFINE a == fpu.a
           e == ExponentOf(a)
           n == RoundedMagnitude(a)
           i == NearestInteger(a)
           W == 2 ^ XLEN
           H == 2 ^ (XLEN - 1)
           low == IF f2i.unsign THEN 0 ELSE -H
           high == IF f2i.unsign THEN W - 1 ELSE H - 1
           negative == SignOf(a) = 1
           nan == ClassOf(a) \in NaNs
           zero == ClassOf(a) \in Zeros
           infinite == ClassOf(a) \in Infinities
           above == nan \/ (infinite /\ ~negative) \/ (~negative /\ f2i.over)
           nothing == zero \/ f2i.under
           below == (infinite /\ negative) \/ (negative /\ f2i.over)
<1>1. /\ SignOf(a) \in {0, 1} /\ e \in 0 .. AllOnes
      /\ zero => e = 0 /\ MantissaOf(a) = 0 /\ ~IsNaN(a)
      /\ infinite => e = AllOnes /\ ~IsNaN(a)
      /\ ClassOf(a) = "pos_inf" <=> infinite /\ ~negative
      /\ ClassOf(a) = "neg_inf" <=> infinite /\ negative
      /\ nan => e = AllOnes
      /\ nan <=> IsNaN(a)
      /\ ~IsSpecial(a) => e # 0 /\ e # AllOnes
      /\ IsSpecial(a) <=> nan \/ zero \/ infinite
  <2>1. SignOf(a) = 0 <=> ~negative
    BY SpecialNumbers
  <2> QED BY <2>1, SpecialNumbers DEF IsSpecial
<1>2. /\ Bias \in Nat /\ XLEN \in Nat /\ XLEN >= 10 /\ Bias >= XLEN /\ MAN \in Nat
      /\ AllOnes = 2 * Bias + 1 /\ H \in Nat \ {0} /\ W = 2 * H
  BY ExponentSizes, FloatPowers
<1>3. i = IF negative THEN -n ELSE n
  BY DEF NearestInteger, RoundedMagnitude
<1>4. Saturated =
        IF above THEN IF f2i.unsign THEN W - 1 ELSE H - 1
        ELSE IF nothing \/ (f2i.unsign /\ negative) THEN 0
        ELSE IF ~f2i.unsign /\ below THEN H
        ELSE IF negative THEN (-f2i.result_tmp) % W ELSE f2i.result_tmp
  <2>1. ClassOf(a) \in NaNs \union {"pos_inf"} <=> nan \/ (infinite /\ ~negative)
    BY <1>1
  <2> QED BY <1>1, <2>1 DEF Saturated
<1>5. Converted(a, f2i.unsign) =
        IF e < Bias + XLEN /\ i \in low .. high THEN i % W
        ELSE (IF negative /\ ~nan THEN low ELSE high) % W
  BY <1>1 DEF Converted
<1>6. /\ zero => ~f2i.over
      /\ infinite => ~f2i.under
      /\ ~IsSpecial(a) =>
           /\ e < Bias - 1 => f2i.under /\ ~f2i.over
           /\ e >= Bias - 1 =>
                /\ ~f2i.under
                /\ f2i.over <=> e - Bias >= (IF f2i.unsign THEN XLEN ELSE XLEN - 1)
                /\ ~f2i.over => f2i.result_tmp = n
  BY DEF Finalized
<1>7. ~IsSpecial(a) =>
        /\ e < Bias - 1 => n = 0
        /\ e = Bias - 1 => n = 1
        /\ e \in Bias .. Bias + XLEN - 2 => n \in 1 .. H - 1
        /\ e = Bias + XLEN - 1 => n \in H .. W - 1
  BY <1>1, IntegerRange DEF IsFlushed
<1>8. zero => n = 0
  <2> SUFFICES ASSUME zero PROVE n = 0
    OBVIOUS
  <2>1. Scale(a) = 1 - Bias - MAN
    BY <1>1 DEF Scale
  <2>2. ~(Scale(a) >= 0) /\ ~(Scale(a) \in -(MAN + 1) .. -1)
    BY <1>2, <2>1
  <2> QED BY <2>2 DEF RoundedMagnitude
<1>9. /\ low % W = IF f2i.unsign THEN 0 ELSE H
      /\ high % W = high
      /\ (-H) % W = H
      /\ \A m \in 0 .. W - 1 : m % W = m
  <2> HIDE DEF W, H
  <2>1. \A m \in 0 .. W - 1 : m % W = m
    <3>1. W \in Nat \ {0}
      BY <1>2
    <3> QED BY <3>1, SmallReduced
  <2>2. (-H) % W = H
    <3>1. -H \in Int /\ -1 \in Int /\ H \in Int /\ 0 <= H /\ H < W /\ -H = W * (-1) + H
          /\ W \in Nat \ {0}
      BY <1>2
    <3> QED BY <3>1, Division
  <2>3. W - 1 \in 0 .. W - 1 /\ H - 1 \in 0 .. W - 1 /\ 0 \in 0 .. W - 1
    BY <1>2
  <2> QED BY <2>1, <2>2, <2>3
<1> HIDE DEF a, e, n, i, W, H, nan, zero, infinite, negative
<1>10. CASE nan
  <2>1. ~(e < Bias + XLEN)
    BY <1>1, <1>2, <1>10
  <2>2. Converted(a, f2i.unsign) = high
    BY <1>5, <1>9, <1>10, <2>1
  <2> QED BY <1>4, <1>10, <2>2 DEF a
<1>11. CASE zero /\ ~nan
  <2>1. i = 0 /\ e = 0 /\ ~infinite
    <3>1. n = 0 => i = 0
      BY <1>3, OppositeOfZero
    <3>2. 0 # AllOnes
      BY <1>2
    <3>3. e = 0 /\ ~infinite
      BY <1>1, <1>11, <3>2
    <3> QED BY <1>8, <1>11, <3>1, <3>3
  <2>2. 0 \in low .. high /\ 0 \in 0 .. W - 1 /\ 0 < Bias + XLEN
    BY <1>2
  <2>3. Converted(a, f2i.unsign) = 0
    BY <1>5, <1>9, <2>1, <2>2
  <2> QED BY <1>4, <1>6, <1>11, <2>1, <2>3 DEF a
<1>12. CASE infinite /\ ~nan /\ ~zero
  <2>1. ~(e < Bias + XLEN)
    BY <1>1, <1>2, <1>12
  <2>2. Converted(a, f2i.unsign) =
          IF negative THEN (IF f2i.unsign THEN 0 ELSE H) ELSE high
    BY <1>5, <1>9, <1>12, <2>1
  <2> QED BY <1>4, <1>6, <1>12, <2>2 DEF a
<1>13. CASE ~IsSpecial(a)
  <2>1. ~nan /\ ~zero /\ ~infinite /\ e \in Nat
    BY <1>1, <1>2, <1>13
  <2>2. CASE e < Bias - 1
    <3>1. i = 0 /\ e < Bias + XLEN /\ f2i.under /\ ~f2i.over
      <4>1. n = 0 => i = 0
        BY <1>3, OppositeOfZero
      <4>2. e < Bias + XLEN
        BY <1>2, <2>1, <2>2
      <4> QED BY <1>6, <1>7, <1>13, <2>2, <4>1, <4>2
    <3>2. 0 \in low .. high /\ 0 \in 0 .. W - 1
      BY <1>2
    <3>3. Converted(a, f2i.unsign) = 0
      BY <1>5, <1>9, <3>1, <3>2
    <3> QED BY <1>4, <2>1, <3>1, <3>3 DEF a
  <2>3. CASE ~(e < Bias - 1) /\ ~f2i.over
    <3>1. /\ ~f2i.under /\ f2i.result_tmp = n /\ e < Bias + XLEN
          /\ f2i.unsign => n \in 0 .. W - 1
          /\ ~f2i.unsign => n \in 0 .. H - 1
      <4>1. ~f2i.under /\ f2i.result_tmp = n
            /\ ~(e - Bias >= (IF f2i.unsign THEN XLEN ELSE XLEN - 1))
        BY <1>2, <1>6, <1>13, <2>1, <2>3
      <4>2. e = Bias - 1 \/ e \in Bias .. Bias + XLEN - 2 \/ (f2i.unsign /\ e = Bias + XLEN - 1)
        BY <1>2, <2>1, <2>3, <4>1
      <4>3. (e = Bias - 1 \/ e \in Bias .. Bias + XLEN - 2) => n \in 0 .. H - 1
        <5>1. 1 \in 0 .. H - 1
          <6>1. 2 ^ (XLEN - 1) >= 2
            <7> DEFINE P == 2 ^ MAN
                       E == 2 ^ EXP
            <7>1. 2 ^ (XLEN - 1) = P * E /\ P \in Nat \ {0} /\ E \in Nat /\ E >= 2
              BY FloatPowers
            <7> HIDE DEF P, E
            <7>2. P * E >= 2
              BY <7>1
            <7> QED BY <7>1, <7>2
          <6> QED BY <1>2, <6>1 DEF H
        <5> QED BY <1>2, <1>7, <1>13, <5>1
      <4>4. e = Bias + XLEN - 1 => n \in 0 .. W - 1
        BY <1>2, <1>7, <1>13
      <4>5. e < Bias + XLEN
        BY <1>2, <4>2
      <4> QED BY <1>2, <4>1, <4>2, <4>3, <4>4, <4>5
    <3>2. CASE f2i.unsign /\ negative
      <4>1. i \in low .. high => i = 0
        BY <1>2, <1>3, <3>1, <3>2
      <4>2. Converted(a, f2i.unsign) = 0
        <5>1. 0 \in 0 .. W - 1
          BY <1>2
        <5> QED BY <1>5, <1>9, <2>1, <3>2, <4>1, <5>1
      <4> QED BY <1>4, <2>1, <3>2, <4>2, <2>3 DEF a
    <3>3. CASE f2i.unsign /\ ~negative
      <4>1. i = n /\ n \in low .. high
        BY <1>3, <3>1, <3>3
      <4>2. Converted(a, f2i.unsign) = n
        BY <1>5, <1>9, <3>1, <3>3, <4>1
      <4> QED BY <1>4, <2>1, <2>3, <3>1, <3>3, <4>2 DEF a
    <3>4. CASE ~f2i.unsign /\ negative
      <4>1. i = -n /\ -n \in low .. high
        BY <1>2, <1>3, <3>1, <3>4
      <4>2. Converted(a, f2i.unsign) = (-n) % W
        BY <1>5, <3>1, <4>1
      <4> QED BY <1>4, <2>1, <2>3, <3>1, <3>4, <4>2 DEF a
    <3>5. CASE ~f2i.unsign /\ ~negative
      <4>1. i = n /\ n \in low .. high /\ n \in 0 .. W - 1
        BY <1>2, <1>3, <3>1, <3>5
      <4>2. Converted(a, f2i.unsign) = n
        BY <1>5, <1>9, <3>1, <3>5, <4>1
      <4> QED BY <1>4, <2>1, <2>3, <3>1, <3>5, <4>2 DEF a
    <3> QED BY <3>2, <3>3, <3>4, <3>5
  <2>4. CASE ~(e < Bias - 1) /\ f2i.over
    <3>1. ~f2i.under /\ e - Bias >= (IF f2i.unsign THEN XLEN ELSE XLEN - 1)
      BY <1>2, <1>6, <1>13, <2>1, <2>4
    <3>2. Saturated = IF ~negative THEN high ELSE IF f2i.unsign THEN 0 ELSE H
      BY <1>4, <2>1, <2>4, <3>1
    <3>3. CASE ~(e < Bias + XLEN)
      BY <1>5, <1>9, <2>1, <3>2, <3>3 DEF a
    <3>4. CASE e < Bias + XLEN
      <4>1. ~f2i.unsign /\ e = Bias + XLEN - 1
        BY <1>2, <2>1, <3>1, <3>4
      <4>2. n \in H .. W - 1
        BY <1>7, <1>13, <4>1
      <4>3. i \in low .. high => negative /\ i = -H
        BY <1>2, <1>3, <4>1, <4>2
      <4> QED BY <1>5, <1>9, <2>1, <3>2, <4>1, <4>3 DEF a
    <3> QED BY <3>3, <3>4
  <2> QED BY <2>2, <2>3, <2>4
<1> QED BY <1>1, <1>10, <1>11, <1>12, <1>13

-----------------------------------------------------------------------------
(* The converter to integers, state by state.                              *)

\* An operand of less than 1 and at least one half, in halves of a last place
\* that is cut off.
HalfOf(a) == 2 ^ (MAN - 1) + MantissaOf(a) \div 2

\* What the converter has done: over says that a one was shifted out, until the
\* last shift; the sticky bit knows of the rest of the fraction.
Converting(r) ==
    LET e == ExponentOf(fpu.a)
        k == e - Bias
    IN  /\ r.state = "S_PREPARE_F2I" =>
             r.cnt = e /\ r.mant = MantissaOf(fpu.a) /\ ~r.over /\ ~r.under /\ ~r.s
        /\ r.state = "S_NORMALIZE_BUSY" =>
             /\ ~IsSpecial(fpu.a)
             /\ e < Bias - 1 => r.under /\ ~r.over /\ r.int = 0 /\ r.cnt = 0
             /\ e = Bias - 1 =>
                  /\ ~r.under /\ ~r.over /\ ~r.s
                  /\ r.int = 0 /\ r.cnt = 0 /\ r.mant = HalfOf(fpu.a)
             /\ e >= Bias =>
                  /\ ~r.under /\ r.cnt \in 0 .. k
                  /\ r.over => k >= XLEN
                  /\ ~r.over => /\ k - r.cnt <= XLEN - 1
                                /\ r.int * 2 ^ MAN + r.mant = Significand(fpu.a) * 2 ^ (k - r.cnt)
        /\ r.state = "S_ROUND" =>
             /\ ~IsSpecial(fpu.a)
             /\ e < Bias - 1 => r.under /\ ~r.over /\ r.int = 0
             /\ e = Bias - 1 =>
                  /\ ~r.under /\ ~r.over
                  /\ r.int = 0 /\ r.mant = HalfOf(fpu.a)
             /\ e >= Bias =>
                  /\ ~r.under
                  /\ r.over <=> k >= (IF r.unsign THEN XLEN ELSE XLEN - 1)
                  /\ ~r.over => r.int * 2 ^ MAN + r.mant = Significand(fpu.a) * 2 ^ k
             /\ r.mant % 2 ^ (MAN - 2) # 0 => r.s
        /\ r.state = "S_FINALIZE" => Finalized(r)

LEMMA PreparedConverts ==
    ASSUME ConverterTypes, IsFlushed(fpu.a), Converting(f2i), f2i.state = "S_PREPARE_F2I"
    PROVE  Converting(F2iPrepare)
<1> DEFINE s == IF ClassOf(fpu.a) \in Infinities \union Zeros \union NaNs
                THEN "S_FINALIZE" ELSE "S_NORMALIZE_BUSY"
           shifts == [f2i EXCEPT !.state = s]
           r == F2iPrepare
           a == fpu.a
           e == ExponentOf(a)
           m == MantissaOf(a)
           p == 2 ^ (MAN - 1)
<1>1. /\ s = IF IsSpecial(a) THEN "S_FINALIZE" ELSE "S_NORMALIZE_BUSY"
      /\ f2i.cnt = e /\ f2i.mant = m /\ ~f2i.over /\ ~f2i.under /\ ~f2i.s
  BY DEF IsSpecial, Converting
<1>2. /\ shifts.state = s /\ shifts.cnt = e /\ shifts.mant = m /\ ~shifts.over
      /\ ~shifts.under /\ ~shifts.s
      /\ {"state", "unsign", "cnt", "rounded", "over", "under", "int", "mant", "s", "result_tmp",
          "result", "done"} \subseteq DOMAIN shifts
  <2> HIDE DEF s
  <2> QED BY <1>1 DEF ConverterTypes, ConverterRecord
<1>3. r = CASE e < Bias - 1 -> [shifts EXCEPT !.int = 0, !.under = TRUE, !.cnt = 0]
            [] e = Bias - 1 -> [shifts EXCEPT !.int = 0, !.mant = p + @ \div 2, !.cnt = 0]
            [] e > Bias - 1 -> [shifts EXCEPT !.int = 1, !.cnt = @ - Bias]
  BY <1>1 DEF F2iPrepare
<1>4. /\ e \in Nat /\ Bias \in Nat /\ XLEN \in Nat /\ XLEN >= 10 /\ Bias >= XLEN
      /\ ClassOf(a) \in Infinities => e = 2 * Bias + 1
      /\ ~IsSpecial(a) => e # 0
      /\ a \in Words /\ m \in Nat
  BY ExponentSizes, SpecialNumbers, FloatParts, FloatPowers DEF IsFlushed
<1> HIDE DEF s, shifts, r, e, m, p
<1>5. CASE e < Bias - 1
  <2>1. ~(e = Bias - 1) /\ ~(e >= Bias) /\ ~(e >= Bias - 1) /\ ~(e > Bias - 1)
        /\ ~(ClassOf(a) \in Infinities)
    BY <1>4, <1>5
  <2>2. r = [shifts EXCEPT !.int = 0, !.under = TRUE, !.cnt = 0]
    BY <1>3, <1>5, <2>1
  <2>3. r.state = s /\ r.under /\ ~r.over /\ r.int = 0 /\ r.cnt = 0
    BY <1>2, <2>2
  <2> QED BY <1>1, <2>1, <2>3 DEF Converting, Finalized, r, e
<1>6. CASE e = Bias - 1
  <2>1. ~(e < Bias - 1) /\ ~(e >= Bias) /\ ~(ClassOf(a) \in Infinities)
    BY <1>4, <1>6
  <2>2. r = [shifts EXCEPT !.int = 0, !.mant = p + @ \div 2, !.cnt = 0]
    BY <1>3, <1>6, <2>1
  <2>3. [shifts EXCEPT !.int = 0].mant = m
    BY <1>2
  <2>4. r = [shifts EXCEPT !.int = 0, !.mant = p + m \div 2, !.cnt = 0]
    BY <2>2, <2>3
  <2>5. r.state = s /\ ~r.under /\ ~r.over /\ ~r.s /\ r.int = 0 /\ r.cnt = 0
        /\ r.mant = p + m \div 2
    BY <1>2, <2>4
  <2>6. r.mant = HalfOf(a)
    BY <2>5 DEF HalfOf, p, m
  <2> QED BY <1>1, <2>1, <2>5, <2>6 DEF Converting, Finalized, r, e
<1>7. CASE e > Bias - 1
  <2> DEFINE c == e - Bias
  <2>1. ~(e < Bias - 1) /\ ~(e = Bias - 1) /\ c \in Nat
    BY <1>4, <1>7
  <2>2. r = [shifts EXCEPT !.int = 1, !.cnt = @ - Bias]
    BY <1>3, <1>7, <2>1
  <2>3. [shifts EXCEPT !.int = 1].cnt = e
    BY <1>2
  <2>4. r = [shifts EXCEPT !.int = 1, !.cnt = c]
    BY <2>2, <2>3
  <2> HIDE DEF c
  <2>5. r.state = s /\ ~r.under /\ ~r.over /\ r.int = 1 /\ r.cnt = c /\ r.mant = m
    BY <1>2, <2>4
  <2>6. ~IsSpecial(a) => r.int * 2 ^ MAN + r.mant = Significand(a) * 2 ^ (c - r.cnt)
    <3> SUFFICES ASSUME ~IsSpecial(a)
                 PROVE  1 * 2 ^ MAN + m = Significand(a) * 2 ^ (c - c)
      BY <2>5
    <3>1. c - c = 0 /\ 2 ^ 0 = 1
      BY <2>1
    <3>2. Significand(a) = 2 ^ MAN + m /\ Significand(a) \in Nat /\ 2 ^ MAN \in Nat
      BY <1>4, SignificandRange, FloatPowers DEF e, m
    <3> DEFINE P == 2 ^ MAN
               S == Significand(a)
    <3>3. S = P + m /\ S \in Nat /\ P \in Nat
      BY <3>2
    <3> HIDE DEF P, S
    <3>4. 1 * P + m = S * 1
      BY <1>4, <3>3
    <3> QED BY <3>1, <3>4 DEF P, S
  <2>7. r.cnt \in 0 .. c /\ c - r.cnt <= XLEN - 1
    BY <1>4, <2>1, <2>5
  <2> QED BY <1>1, <2>1, <2>5, <2>6, <2>7 DEF Converting, Finalized, r, e, c
<1> QED BY <1>4, <1>5, <1>6, <1>7 DEF r

LEMMA BusyFields ==
    ASSUME ConverterTypes, f2i.state = "S_NORMALIZE_BUSY"
    PROVE  LET highest == Bit(f2i.int, XLEN - 1) = 1
               last == f2i.cnt % 2 ^ (EXP - 1) = 0
               r == F2iBusy
           IN  /\ r.under = f2i.under /\ r.unsign = f2i.unsign
               /\ r.s <=> f2i.s \/ f2i.mant % 2 ^ (MAN - 2) # 0
               /\ last =>
                    /\ r.state = "S_ROUND" /\ r.cnt = f2i.cnt
                    /\ r.int = f2i.int /\ r.mant = f2i.mant
                    /\ r.over <=> f2i.over \/ (~f2i.unsign /\ highest)
               /\ ~last =>
                    /\ r.state = "S_NORMALIZE_BUSY" /\ r.cnt = f2i.cnt - 1
                    /\ r.int = ShiftLeft(f2i.int, 1) + Bit(f2i.mant, MAN - 1)
                    /\ r.mant = Low(2 * f2i.mant, MAN)
                    /\ r.over <=> f2i.over \/ highest
<1> DEFINE s == f2i.s \/ f2i.mant % 2 ^ (MAN - 2) # 0
           sticky == [f2i EXCEPT !.s = s]
           highest == Bit(f2i.int, XLEN - 1) = 1
           last == f2i.cnt % 2 ^ (EXP - 1) = 0
           int == ShiftLeft(f2i.int, 1) + Bit(f2i.mant, MAN - 1)
           mant == Low(2 * f2i.mant, MAN)
           c == f2i.cnt - 1
           r == F2iBusy
           Fields == {"state", "unsign", "cnt", "rounded", "over", "under", "int", "mant", "s",
                      "result_tmp", "result", "done"}
<1>1. Fields \subseteq DOMAIN f2i
  BY DEF ConverterTypes, ConverterRecord
<1>2. r = IF last THEN [sticky EXCEPT !.over = @ \/ (~f2i.unsign /\ highest), !.state = "S_ROUND"]
          ELSE [sticky EXCEPT !.cnt = @ - 1, !.over = @ \/ highest,
                              !.int = ShiftLeft(@, 1) + Bit(f2i.mant, MAN - 1),
                              !.mant = Low(2 * @, MAN)]
  <2>1. sticky = [f2i EXCEPT !.s = @ \/ f2i.mant % 2 ^ (MAN - 2) # 0]
    OBVIOUS
  <2> QED BY <2>1 DEF F2iBusy
<1>3. /\ Fields \subseteq DOMAIN sticky /\ sticky.s = s /\ sticky.state = f2i.state
      /\ sticky.cnt = f2i.cnt /\ sticky.int = f2i.int /\ sticky.mant = f2i.mant
      /\ sticky.over = f2i.over /\ sticky.under = f2i.under /\ sticky.unsign = f2i.unsign
  <2> HIDE DEF s
  <2> QED BY <1>1
<1>4. /\ sticky.cnt - 1 = c /\ Low(2 * sticky.mant, MAN) = mant
      /\ ShiftLeft(sticky.int, 1) + Bit(f2i.mant, MAN - 1) = int
  BY <1>3
<1>5. CASE last
  <2> DEFINE over == sticky.over \/ (~f2i.unsign /\ highest)
  <2>1. r = [sticky EXCEPT !.over = over, !.state = "S_ROUND"]
    BY <1>2, <1>5
  <2>2. over <=> f2i.over \/ (~f2i.unsign /\ highest)
    BY <1>3
  <2> HIDE DEF over, sticky, r
  <2>3. /\ r.under = f2i.under /\ r.unsign = f2i.unsign /\ r.s = s
        /\ r.state = "S_ROUND" /\ r.cnt = f2i.cnt /\ r.int = f2i.int /\ r.mant = f2i.mant
        /\ r.over = over
    <3> HIDE DEF s
    <3> QED BY <1>3, <2>1
  <2> QED BY <1>5, <2>2, <2>3 DEF r
<1>6. CASE ~last
  <2> DEFINE over == sticky.over \/ highest
  <2>1. r = [sticky EXCEPT !.cnt = @ - 1, !.over = over,
                           !.int = ShiftLeft(@, 1) + Bit(f2i.mant, MAN - 1),
                           !.mant = Low(2 * @, MAN)]
    BY <1>2, <1>6
  <2>2. over <=> f2i.over \/ highest
    BY <1>3
  <2> HIDE DEF over, sticky, r
  <2>3. r = [sticky EXCEPT !.cnt = c, !.over = over, !.int = int, !.mant = mant]
    <3> HIDE DEF c, int, mant
    <3> QED BY <1>3, <1>4, <2>1
  <2>4. /\ r.under = f2i.under /\ r.unsign = f2i.unsign /\ r.s = s
        /\ r.state = f2i.state /\ r.cnt = c /\ r.int = int /\ r.mant = mant /\ r.over = over
    <3> HIDE DEF s, c, int, mant
    <3> QED BY <1>3, <2>3
  <2> QED BY <1>6, <2>2, <2>4 DEF r
<1> QED BY <1>5, <1>6

\* A significand shifted to the left by a power of two has its first one there.
LEMMA ShiftedSize ==
    ASSUME NEW P \in Nat \ {0}, NEW S \in Nat, P <= S, S < 2 * P, NEW K \in Nat \ {0},
           NEW int \in Nat, NEW mant \in Nat, mant < P, int * P + mant = S * K
    PROVE  int >= K /\ int < 2 * K
<1>1. S * K >= P * K /\ S * K < 2 * P * K /\ P * K \in Nat
  OBVIOUS
<1>2. int >= 2 * K => int * P >= 2 * K * P
  OBVIOUS
<1>3. int + 1 <= K => (int + 1) * P <= K * P
  OBVIOUS
<1>4. (int + 1) * P = int * P + P /\ P * K = K * P /\ 2 * P * K = 2 * K * P /\ int * P \in Nat
  OBVIOUS
<1> QED BY <1>1, <1>2, <1>3, <1>4

\* One more shift of integer and fraction.
LEMMA ShiftedPair ==
    ASSUME NEW int \in Words, NEW mant \in 0 .. 2 ^ MAN - 1, int < 2 ^ (XLEN - 1)
    PROVE  (ShiftLeft(int, 1) + Bit(mant, MAN - 1)) * 2 ^ MAN + Low(2 * mant, MAN)
             = 2 * (int * 2 ^ MAN + mant)
<1> DEFINE P == 2 ^ MAN
           p == 2 ^ (MAN - 1)
           H == 2 ^ (XLEN - 1)
           b == Bit(mant, MAN - 1)
           n == 2 * mant
           low == Low(n, MAN)
<1>1. P \in Nat \ {0} /\ p \in Nat \ {0} /\ P = 2 * p /\ H \in Nat \ {0} /\ 2 ^ XLEN = 2 * H
      /\ int \in Nat /\ int < H /\ mant \in Nat /\ mant < P
  BY FloatPowers, RegisterWidths, WordRange
<1>2. ShiftLeft(int, 1) = 2 * int
  <2> HIDE DEF H
  <2>1. int \in 0 .. H - 1
    BY <1>1
  <2>2. int % H = int
    BY <1>1, <2>1, SmallReduced
  <2>3. ShiftLeft(int, 1) = (int % H) * 2 ^ 1
    BY DEF ShiftLeft, Low, H
  <2>4. 2 ^ 1 = 2 /\ int * 2 = 2 * int
    BY <1>1
  <2>5. ShiftLeft(int, 1) = int * 2 ^ 1
    BY <2>2, <2>3, Zenon
  <2> QED BY <2>4, <2>5
<1>3. b = (mant \div p) % 2 /\ low = n % P
  BY DEF Bit, Low
<1> HIDE DEF P, p, H
<1>4. b \in {0, 1} /\ n = P * b + low
  <2>1. CASE mant < p
    <3>1. 0 \in Int /\ 0 <= mant /\ mant = p * 0 + mant /\ mant \in Int
          /\ n \in Int /\ 0 <= n /\ n < P /\ n = P * 0 + n
      BY <1>1, <2>1
    <3>2. mant \div p = 0
      BY <1>1, <2>1, <3>1, Division
    <3> HIDE DEF n
    <3>3. n % P = n
      BY <1>1, <3>1, Division
    <3>4. b = 0 /\ low = n
      BY <1>3, <3>2, <3>3
    <3> QED BY <1>1, <3>1, <3>4
  <2>2. CASE ~(mant < p)
    <3>1. 1 \in Int /\ mant - p \in Int /\ 0 <= mant - p /\ mant - p < p
          /\ mant = p * 1 + (mant - p) /\ mant \in Int
      BY <1>1, <2>2
    <3>2. mant \div p = 1
      BY <1>1, <3>1, Division
    <3> DEFINE c == n - P
    <3>3. n \in Int /\ c \in Int /\ 0 <= c /\ c < P /\ n = P * 1 + c
      BY <1>1, <2>2
    <3> HIDE DEF n, c
    <3>4. n % P = c
      BY <1>1, <3>1, <3>3, Division
    <3>5. b = 1 /\ low = c
      BY <1>3, <3>2, <3>4
    <3> QED BY <1>1, <3>3, <3>5
  <2> QED BY <2>1, <2>2
<1>5. low \in Int
  <2>1. n % P \in Int
    BY <1>1, ReducedRange
  <2> QED BY <1>3, <2>1
<1> HIDE DEF b, low
<1>6. (2 * int + b) * P + low = 2 * (int * P + mant)
  <2>1. (2 * int + b) * P = 2 * (int * P) + P * b /\ int * P \in Int /\ P * b \in Int
    BY <1>1, <1>4
  <2> QED BY <1>1, <1>4, <1>5, <2>1 DEF n
<1> QED BY <1>2, <1>6 DEF P, b, low

LEMMA BusyConverts ==
    ASSUME ConverterTypes, IsFlushed(fpu.a), Converting(f2i), f2i.state = "S_NORMALIZE_BUSY"
    PROVE  Converting(F2iBusy)
<1> DEFINE a == fpu.a
           e == ExponentOf(a)
           k == e - Bias
           c == f2i.cnt
           r == F2iBusy
           P == 2 ^ MAN
           S == Significand(a)
           highest == Bit(f2i.int, XLEN - 1) = 1
           last == c % 2 ^ (EXP - 1) = 0
           Q == 2 ^ (MAN - 2)
<1>1. /\ ~IsSpecial(a)
      /\ e < Bias - 1 => f2i.under /\ ~f2i.over /\ f2i.int = 0 /\ c = 0
      /\ e = Bias - 1 =>
           /\ ~f2i.under /\ ~f2i.over /\ ~f2i.s
           /\ f2i.int = 0 /\ c = 0 /\ f2i.mant = HalfOf(a)
      /\ e >= Bias =>
           /\ ~f2i.under /\ c \in 0 .. k
           /\ f2i.over => k >= XLEN
           /\ ~f2i.over => k - c <= XLEN - 1 /\ f2i.int * P + f2i.mant = S * 2 ^ (k - c)
  BY DEF Converting
<1>2. /\ e \in Nat /\ e # 0 /\ a \in Words /\ Bias \in Nat /\ XLEN \in Nat /\ XLEN >= 10
      /\ Bias >= XLEN /\ e < 2 * Bias + 1 /\ 2 ^ (EXP - 1) = Bias + 1
  <2>1. e \in 0 .. AllOnes /\ AllOnes = 2 * Bias + 1 /\ e # AllOnes /\ e # 0 /\ Bias \in Nat
    BY <1>1, SpecialNumbers, ExponentSizes
  <2> HIDE DEF e
  <2> QED BY <2>1, ExponentSizes DEF IsFlushed
<1>3. /\ r.under = f2i.under /\ r.unsign = f2i.unsign
      /\ r.s <=> f2i.s \/ f2i.mant % Q # 0
      /\ last =>
           /\ r.state = "S_ROUND" /\ r.cnt = f2i.cnt
           /\ r.int = f2i.int /\ r.mant = f2i.mant
           /\ r.over <=> f2i.over \/ (~f2i.unsign /\ highest)
      /\ ~last =>
           /\ r.state = "S_NORMALIZE_BUSY" /\ r.cnt = f2i.cnt - 1
           /\ r.int = ShiftLeft(f2i.int, 1) + Bit(f2i.mant, MAN - 1)
           /\ r.mant = Low(2 * f2i.mant, MAN)
           /\ r.over <=> f2i.over \/ highest
  BY BusyFields
<1>4. last <=> c = 0
  <2> DEFINE d == 2 ^ (EXP - 1)
  <2>1. c \in 0 .. d - 1 /\ d \in Nat \ {0}
    <3> HIDE DEF e, c
    <3>1. c = 0 \/ (e >= Bias /\ c \in 0 .. e - Bias)
      BY <1>1, <1>2
    <3> QED BY <1>2, <3>1
  <2> HIDE DEF d, c
  <2>2. c % d = c
    BY <2>1, SmallReduced
  <2> QED BY <2>2 DEF d
<1>5. /\ f2i.int \in Words /\ f2i.mant \in 0 .. P - 1 /\ f2i.int \in Nat /\ f2i.mant \in Nat
      /\ f2i.mant < P /\ P \in Nat \ {0} /\ S \in Nat /\ P <= S /\ S < 2 * P
      /\ 2 ^ (XLEN - 1) \in Nat \ {0}
      /\ highest <=> f2i.int >= 2 ^ (XLEN - 1)
  <2>1. f2i.int \in Words /\ f2i.mant \in 0 .. P - 1 /\ P \in Nat \ {0}
    BY FloatPowers DEF ConverterTypes, ConverterRecord
  <2>2. f2i.int \in Nat /\ (highest <=> f2i.int >= 2 ^ (XLEN - 1)) /\ 2 ^ (XLEN - 1) \in Nat \ {0}
    BY <2>1, WordRange, HighestBit, FloatPowers
  <2>3. S \in Nat /\ S >= P /\ S < 2 * P
    BY <1>2, SignificandRange
  <2> HIDE DEF S, P, highest
  <2> QED BY <2>1, <2>2, <2>3
\* Without an overflow the first one is at k - c.
<1>6. ASSUME e >= Bias, ~f2i.over
      PROVE  /\ highest <=> k - c = XLEN - 1
             /\ ~highest => f2i.int < 2 ^ (XLEN - 1)
  <2> DEFINE j == k - c
             K == 2 ^ j
  <2>1. j \in 0 .. XLEN - 1 /\ f2i.int * P + f2i.mant = S * K
    <3> HIDE DEF e, c, S, P
    <3> QED BY <1>1, <1>2, <1>6
  <2>2. K \in Nat \ {0} /\ (j < XLEN - 1 => 2 * K <= 2 ^ (XLEN - 1))
    <3>1. j \in 0 .. XLEN /\ XLEN - 1 \in 0 .. XLEN
          /\ (j < XLEN - 1 => j + 1 \in 1 .. XLEN /\ j + 1 \in 0 .. XLEN - 1 /\ (j + 1) - 1 = j)
      BY <1>2, <2>1
    <3> HIDE DEF j
    <3>2. 2 ^ j \in Nat /\ 2 ^ j >= 1
      BY <3>1, Powers
    <3>3. j < XLEN - 1 => 2 ^ (j + 1) = 2 * 2 ^ j
      <4> SUFFICES ASSUME j < XLEN - 1 PROVE 2 ^ (j + 1) = 2 * 2 ^ j
        OBVIOUS
      <4>1. 2 ^ (j + 1) = 2 * 2 ^ ((j + 1) - 1)
        BY <3>1, Powers
      <4> QED BY <3>1, <4>1
    <3>4. j < XLEN - 1 => 2 ^ (j + 1) <= 2 ^ (XLEN - 1)
      BY <3>1, Powers
    <3> QED BY <3>2, <3>3, <3>4
  <2> HIDE DEF j, S, P
  <2>3. f2i.int >= K /\ f2i.int < 2 * K
    <3> HIDE DEF K
    <3> QED BY <1>5, <2>1, <2>2, ShiftedSize
  <2>4. j = XLEN - 1 => K = 2 ^ (XLEN - 1)
    OBVIOUS
  <2> HIDE DEF K, highest
  <2>5. highest <=> j = XLEN - 1
    BY <1>2, <1>5, <2>1, <2>2, <2>3, <2>4
  <2>6. ~highest => f2i.int < 2 ^ (XLEN - 1)
    BY <1>5
  <2> QED BY <2>5, <2>6 DEF j
<1> HIDE DEF a, e, c, r, P, S, highest, last, Q
<1>7. CASE c = 0
  <2>1. last
    BY <1>4, <1>7
  <2>2. /\ r.state = "S_ROUND" /\ r.int = f2i.int /\ r.mant = f2i.mant
        /\ r.over <=> f2i.over \/ (~f2i.unsign /\ highest)
    BY <1>3, <2>1
  <2>3. e < Bias => ~highest /\ ~f2i.over
    BY <1>1, <1>2, <1>5
  <2>4. e >= Bias =>
          /\ r.over <=> k >= (IF r.unsign THEN XLEN ELSE XLEN - 1)
          /\ ~r.over => r.int * P + r.mant = S * 2 ^ k
    <3> SUFFICES ASSUME e >= Bias
                 PROVE  /\ r.over <=> k >= (IF r.unsign THEN XLEN ELSE XLEN - 1)
                        /\ ~r.over => r.int * P + r.mant = S * 2 ^ k
      OBVIOUS
    <3>1. k - c = k /\ k \in Nat
      BY <1>2, <1>7
    <3>2. f2i.over => k >= XLEN
      BY <1>1
    <3>3. ~f2i.over => k <= XLEN - 1 /\ (highest <=> k = XLEN - 1)
                       /\ f2i.int * P + f2i.mant = S * 2 ^ k
      BY <1>1, <1>6, <3>1
    <3> HIDE DEF k
    <3> QED BY <1>2, <1>3, <2>2, <3>1, <3>2, <3>3
  <2>5. r.mant % Q # 0 => r.s
    BY <1>3, <2>2
  <2>6. /\ e < Bias - 1 => r.under /\ ~r.over /\ r.int = 0
        /\ e = Bias - 1 => ~r.under /\ ~r.over /\ r.int = 0 /\ r.mant = HalfOf(a)
        /\ e >= Bias => ~r.under
    <3>1. (e < Bias - 1 => e < Bias) /\ (e = Bias - 1 => e < Bias)
      BY <1>2
    <3> QED BY <1>1, <1>3, <2>2, <2>3, <3>1
  <2> QED BY <1>1, <2>2, <2>4, <2>5, <2>6 DEF Converting, a, e, r, P, S, Q
<1>8. CASE c # 0
  <2>1. ~last /\ ~(e < Bias - 1) /\ ~(e = Bias - 1) /\ e >= Bias
    BY <1>1, <1>2, <1>4, <1>8
  <2>2. /\ r.state = "S_NORMALIZE_BUSY" /\ r.cnt = c - 1
        /\ r.int = ShiftLeft(f2i.int, 1) + Bit(f2i.mant, MAN - 1)
        /\ r.mant = Low(2 * f2i.mant, MAN)
        /\ r.over <=> f2i.over \/ highest
        /\ r.under = f2i.under
    BY <1>3, <2>1 DEF c
  <2>3. ~r.under /\ r.cnt \in 0 .. k
    BY <1>1, <1>2, <1>8, <2>1, <2>2
  <2>4. c \in 0 .. k /\ k \in Nat
    BY <1>1, <1>2, <2>1
  <2>5. r.over => k >= XLEN
    <3>1. ~f2i.over /\ highest => k - c = XLEN - 1
      BY <1>6, <2>1
    <3>2. f2i.over => k >= XLEN
      BY <1>1, <2>1
    <3> HIDE DEF k
    <3> QED BY <1>2, <1>8, <2>2, <2>4, <3>1, <3>2
  <2>6. ASSUME ~r.over
        PROVE  k - r.cnt <= XLEN - 1 /\ r.int * P + r.mant = S * 2 ^ (k - r.cnt)
    <3> DEFINE j == k - c
    <3>1. ~f2i.over /\ ~highest
      BY <2>2, <2>6
    <3>2. j <= XLEN - 1 /\ j # XLEN - 1 /\ f2i.int < 2 ^ (XLEN - 1)
          /\ f2i.int * P + f2i.mant = S * 2 ^ j
      BY <1>1, <1>6, <2>1, <3>1
    <3>3. j \in Nat /\ k - r.cnt = j + 1
      <4> HIDE DEF k
      <4> QED BY <2>2, <2>4
    <3> HIDE DEF j
    <3>4. j + 1 \in 1 .. XLEN /\ (j + 1) - 1 = j
      BY <1>2, <3>2, <3>3
    <3>5. 2 ^ (j + 1) = 2 * 2 ^ j /\ 2 ^ j \in Nat
      <4>1. 2 ^ (j + 1) = 2 * 2 ^ ((j + 1) - 1) /\ j \in 0 .. XLEN
        BY <1>2, <3>3, <3>4, Powers
      <4> QED BY <3>4, <4>1, Powers
    <3>6. r.int * P + r.mant = 2 * (f2i.int * P + f2i.mant)
      <4>1. (ShiftLeft(f2i.int, 1) + Bit(f2i.mant, MAN - 1)) * P + Low(2 * f2i.mant, MAN)
              = 2 * (f2i.int * P + f2i.mant)
        BY <1>5, <3>2, ShiftedPair DEF P
      <4> QED BY <2>2, <4>1
    <3>7. S * 2 ^ (j + 1) = 2 * (S * 2 ^ j)
      <4> DEFINE K == 2 ^ j
      <4>1. K \in Nat /\ S * (2 * K) = 2 * (S * K)
        <5>1. K \in Nat
          BY <3>5
        <5> HIDE DEF K
        <5> QED BY <1>5, <5>1
      <4> QED BY <3>5, <4>1
    <3>8. r.int * P + r.mant = S * 2 ^ (j + 1)
      BY <3>2, <3>6, <3>7
    <3> QED BY <1>2, <3>2, <3>3, <3>8
  <2> QED BY <1>1, <2>1, <2>2, <2>3, <2>5, <2>6 DEF Converting, a, e, r, P, S
<1> QED BY <1>7, <1>8 DEF r

\* Of the numbers between one half and 1 the hardware rounds up all but the two
\* smallest.
LEMMA RoundedHalf ==
    ASSUME NEW a \in Words, ExponentOf(a) = Bias - 1, ~IsBetween(a)
    PROVE  2 * HalfOf(a) > 2 ^ MAN
<1> DEFINE P == 2 ^ MAN
           m == MantissaOf(a)
           S == Significand(a)
           h == Scale(a)
           B == Bias
<1>1. /\ P \in Nat \ {0} /\ m \in Nat /\ m < P /\ 2 ^ (MAN - 1) \in Nat /\ P = 2 * 2 ^ (MAN - 1)
      /\ B \in Nat /\ B >= 10 /\ MAN \in Nat /\ 2 ^ (MAN + 1) = 2 * P
  BY FloatPowers, RegisterWidths, FloatParts, ExponentSizes
<1>2. ExponentOf(a) # 0
  BY <1>1
<1>3. S = P + m /\ h = -(MAN + 1) /\ Magnitude(a) = P * (B - 1) + m
  <2>1. S = P + m /\ h = ExponentOf(a) - B - MAN
    BY <1>2, SignificandRange
  <2>2. Magnitude(a) = P * ExponentOf(a) + m
    BY FloatParts
  <2>3. (B - 1) - B - MAN = -(MAN + 1)
    BY <1>1
  <2> QED BY <2>1, <2>2, <2>3
<1>4. m # 0
  <2> SUFFICES ASSUME m = 0 PROVE FALSE
    OBVIOUS
  <2>1. S = P /\ S % 2 ^ (-h) = 2 ^ (-h - 1)
    <3>1. -h = MAN + 1 /\ -h - 1 = MAN /\ S = P
      BY <1>1, <1>3
    <3>2. P % (2 * P) = P
      <4> DEFINE d == 2 * P
      <4> HIDE DEF P
      <4>1. d \in Nat \ {0} /\ P \in 0 .. d - 1
        BY <1>1
      <4> HIDE DEF d
      <4>2. P % d = P
        BY <4>1, SmallReduced
      <4> QED BY <4>2 DEF d
    <3>3. P % 2 ^ (MAN + 1) = P
      BY <1>1, <3>2
    <3> HIDE DEF S, h
    <3> QED BY <3>1, <3>3
  <2>2. h \in -(MAN + 1) .. -1
    BY <1>1, <1>3
  <2> QED BY <2>1, <2>2 DEF IsBetween
<1>5. m # 1
  <2>1. FloatWord(0, B - 1, 1) = 0 * 2 ^ (XLEN - 1) + (B - 1) * P + 1
    BY DEF FloatWord
  <2> DEFINE H == 2 ^ (XLEN - 1)
  <2>2. 0 * H = 0
    <3>1. H \in Nat
      BY FloatPowers
    <3> HIDE DEF H
    <3> QED BY <3>1
  <2>3. m = 1 => Magnitude(a) = FloatWord(0, B - 1, 1)
    <3> DEFINE x == (B - 1) * P
    <3>1. P * (B - 1) = x /\ x \in Int
      <4> HIDE DEF P, B
      <4> QED BY <1>1
    <3> HIDE DEF x, P, B, m, H
    <3>2. FloatWord(0, B - 1, 1) = x + 1
      BY <2>1, <2>2, <3>1 DEF x, H
    <3> QED BY <1>3, <3>1, <3>2
  <2> QED BY <2>3 DEF IsBetween
<1> DEFINE p == 2 ^ (MAN - 1)
           t == m \div 2
<1>6. t >= 1 /\ t \in Int
  <2> HIDE DEF m
  <2> QED BY <1>1, <1>4, <1>5
<1>7. HalfOf(a) = p + t
  BY DEF HalfOf
<1> HIDE DEF p, t, P
<1> QED BY <1>1, <1>6, <1>7 DEF p, P

LEMMA RoundConverts ==
    ASSUME ConverterTypes, IsFlushed(fpu.a), Converting(f2i), f2i.state = "S_ROUND"
    PROVE  Converting(F2iRound)
<1> DEFINE a == fpu.a
           e == ExponentOf(a)
           k == e - Bias
           P == 2 ^ MAN
           W == 2 ^ XLEN
           int == f2i.int
           mant == f2i.mant
           rest == 2 * (mant \div 2 ^ (MAN - 2)) + (IF f2i.s THEN 1 ELSE 0)
           step == RoundingStep(fpu.frm, int % 2 = 1, rest)
           sum == (int + step) % 2 ^ (XLEN + 1)
           over == f2i.over \/ sum >= W
           tmp == sum % W
           r == F2iRound
           limit == IF f2i.unsign THEN XLEN ELSE XLEN - 1
           n == RoundedMagnitude(a)
<1>1. /\ ~IsSpecial(a)
      /\ e < Bias - 1 => f2i.under /\ ~f2i.over /\ int = 0
      /\ e = Bias - 1 => ~f2i.under /\ ~f2i.over /\ int = 0 /\ mant = HalfOf(a)
      /\ e >= Bias =>
           /\ ~f2i.under
           /\ f2i.over <=> k >= limit
           /\ ~f2i.over => int * P + mant = Significand(a) * 2 ^ k
      /\ mant % 2 ^ (MAN - 2) # 0 => f2i.s
  BY DEF Converting
<1>2. /\ r.state = "S_FINALIZE" /\ r.over = over /\ r.result_tmp = tmp
      /\ r.under = f2i.under /\ r.unsign = f2i.unsign
  <2>1. {"state", "unsign", "cnt", "rounded", "over", "under", "int", "mant", "s", "result_tmp",
         "result", "done"} \subseteq DOMAIN f2i
    BY DEF ConverterTypes, ConverterRecord
  <2>2. \E rounded : r = [f2i EXCEPT !.rounded = rounded, !.over = over, !.result_tmp = tmp,
                                     !.state = "S_FINALIZE"]
    <3>1. r = [f2i EXCEPT !.rounded = @ \/ step # 0, !.over = @ \/ sum >= W,
                          !.result_tmp = sum % W, !.state = "S_FINALIZE"]
      BY DEF F2iRound
    <3> HIDE DEF step, sum, W, r
    <3>2. r = [f2i EXCEPT !.rounded = f2i.rounded \/ step # 0, !.over = over,
                          !.result_tmp = tmp, !.state = "S_FINALIZE"]
      BY <2>1, <3>1
    <3> HIDE DEF over, tmp
    <3> QED BY <3>2
  <2> HIDE DEF over, tmp, r
  <2> QED BY <2>1, <2>2
<1>3. /\ e \in Nat /\ e # 0 /\ a \in Words /\ Bias \in Nat /\ XLEN \in Nat /\ XLEN >= 10
      /\ int \in Words /\ int \in Nat /\ mant \in 0 .. P - 1 /\ int < W /\ W \in Nat \ {0}
      /\ P \in Nat \ {0} /\ P >= 8
      /\ 2 ^ (XLEN - 1) \in Nat \ {0} /\ W = 2 * 2 ^ (XLEN - 1) /\ 2 ^ (XLEN + 1) = 2 * W
  <2>1. e \in 0 .. AllOnes /\ AllOnes \in Nat /\ e # 0
    BY <1>1, SpecialNumbers, FloatPowers
  <2>2. int \in Words /\ mant \in 0 .. P - 1
    BY DEF ConverterTypes, ConverterRecord
  <2>3. 2 ^ (XLEN + 1) = 2 * W
    <3> DEFINE x == XLEN + 1
    <3>1. x \in 0 .. XLEN + MAN + 3 /\ XLEN \in 0 .. x /\ x - XLEN = 1
      BY ExponentSizes
    <3> HIDE DEF x
    <3>2. 2 ^ x = 2 ^ XLEN * 2 ^ (x - XLEN)
      BY <3>1, RegisterPowers
    <3>3. 2 ^ 1 = 2 /\ W \in Nat
      BY FloatPowers
    <3>4. 2 ^ x = 2 ^ XLEN * 2
      BY <3>1, <3>2, <3>3
    <3> HIDE DEF W
    <3>5. W * 2 = 2 * W
      BY <3>3
    <3> QED BY <3>4, <3>5 DEF x, W
  <2>4. W \in Nat \ {0} /\ P \in Nat \ {0} /\ P >= 8 /\ 2 ^ (XLEN - 1) \in Nat \ {0}
        /\ W = 2 * 2 ^ (XLEN - 1)
    BY FloatPowers, RegisterWidths
  <2>5. int \in Nat /\ int < W
    BY <2>2, WordRange
  <2> HIDE DEF e, P, W, int, mant
  <2> QED BY <2>1, <2>2, <2>3, <2>4, <2>5, ExponentSizes DEF IsFlushed, a
<1>4. ASSUME fpu.frm = 0
      PROVE  /\ step \in {0, 1}
             /\ mant = 0 => step = 0
             /\ 2 * mant # P => step = IF 2 * mant > P THEN 1 ELSE 0
  <2>1. step \in {0, 1} /\ (rest \in {0, 1} => step = 0)
    <3> HIDE DEF rest
    <3> QED BY <1>4 DEF RoundingStep
  <2>2. mant = 0 => rest \in {0, 1}
    <3> DEFINE q == 2 ^ (MAN - 2)
    <3>1. q \in Nat \ {0}
      BY RegisterWidths
    <3> HIDE DEF q
    <3>2. 0 \div q = 0
      <4>1. 0 \in Int /\ 0 <= 0 /\ 0 < q /\ 0 = q * 0 + 0
        BY <3>1
      <4> QED BY <3>1, <4>1, Division
    <3>3. mant = 0 => mant \div q = 0
      BY <3>2
    <3> QED BY <3>3 DEF q
  <2>3. 2 * mant # P => step = IF 2 * mant > P THEN 1 ELSE 0
    <3> DEFINE odd == int % 2 = 1
    <3> HIDE DEF odd
    <3>1. 2 * mant # P => RoundingStep(0, odd, rest) = IF 2 * mant > P THEN 1 ELSE 0
      BY <1>1, <1>3, StepOfMantissa
    <3>2. step = RoundingStep(0, odd, rest)
      BY <1>4 DEF odd
    <3> HIDE DEF step, rest, P, mant
    <3> QED BY <3>1, <3>2
  <2> QED BY <2>1, <2>2, <2>3
<1> HIDE DEF a, e, P, W, int, mant, rest, step, r, n
<1>5. ASSUME fpu.frm = 0, int + step < W
      PROVE  (over <=> f2i.over) /\ tmp = int + step
  <2> DEFINE x == int + step
             d == 2 ^ (XLEN + 1)
  <2>1. x \in 0 .. W - 1 /\ x \in 0 .. d - 1 /\ d \in Nat \ {0}
    BY <1>3, <1>4, <1>5
  <2>2. sum = x % d
    OBVIOUS
  <2> HIDE DEF x, d, sum
  <2>3. x % d = x /\ x % W = x
    BY <1>3, <2>1, SmallReduced
  <2>4. ~(x >= W) /\ x = int + step
    BY <1>3, <2>1 DEF x
  <2> QED BY <2>2, <2>3, <2>4
<1> HIDE DEF over, tmp, sum
<1>6. ASSUME fpu.frm = 0, f2i.over PROVE over
  BY <1>6 DEF over
<1>7. CASE fpu.frm # 0
  BY <1>1, <1>2, <1>7 DEF Converting, Finalized, IsSpecial, a, r
<1>8. CASE fpu.frm = 0 /\ e < Bias
  <2>1. int = 0 /\ ~f2i.over
    <3>1. e < Bias - 1 \/ e = Bias - 1
      BY <1>3, <1>8
    <3> QED BY <1>1, <3>1
  <2>2. ~over /\ tmp = int + step
    <3>1. int + step < W
      BY <1>3, <1>4, <1>8, <2>1
    <3> QED BY <1>5, <1>8, <2>1, <3>1
  <2>3. e = Bias - 1 /\ ~IsBetween(a) => tmp = n
    <3> SUFFICES ASSUME e = Bias - 1, ~IsBetween(a) PROVE tmp = n
      OBVIOUS
    <3>1. n = 1
      BY <1>3, IntegerRange DEF n, e
    <3>2. 2 * mant > P
      BY <1>1, <1>3, RoundedHalf DEF e, P
    <3>3. step = 1
      <4>1. 2 * mant # P
        BY <1>3, <3>2
      <4> QED BY <1>4, <1>8, <3>2, <4>1
    <3> QED BY <2>1, <2>2, <3>1, <3>3
  <2>4. ~(e - Bias >= limit)
    BY <1>3, <1>8
  <2>5. e >= Bias - 1 => e = Bias - 1
    BY <1>3, <1>8
  <2> HIDE DEF limit
  <2>6. Finalized(r)
    <3>1. ~(r.over) /\ r.result_tmp = tmp
      BY <1>2, <2>2
    <3>2. e < Bias - 1 => r.under
      BY <1>1, <1>2
    <3>3. e >= Bias - 1 => ~r.under
      BY <1>1, <1>2, <2>5
    <3>4. ~(e - Bias >= (IF r.unsign THEN XLEN ELSE XLEN - 1))
      BY <1>2, <2>4 DEF limit
    <3>5. e >= Bias - 1 /\ ~IsBetween(a) => r.result_tmp = RoundedMagnitude(a)
      BY <2>3, <2>5, <3>1 DEF n
    <3> QED BY <1>1, <3>1, <3>2, <3>3, <3>4, <3>5 DEF Finalized, IsSpecial, a, e
  <2> QED BY <1>2, <2>6 DEF Converting, r
<1>9. CASE fpu.frm = 0 /\ ~(e < Bias)
  <2>1. e >= Bias /\ ~(e < Bias - 1)
    BY <1>3, <1>9
  <2>2. ~f2i.over => k <= XLEN - 1
    BY <1>1, <1>3, <2>1
  <2>3. ASSUME ~f2i.over
        PROVE  ~over /\ (~IsBetween(a) => tmp = n)
    <3>1. /\ 2 * mant = P => IsBetween(a)
          /\ n = int + (IF 2 * mant >= P THEN 1 ELSE 0)
          /\ mant # 0 => int + 1 < 2 ^ (XLEN - 1)
      BY <1>1, <1>3, <2>1, <2>2, <2>3, IntegerShifted DEF e, P, n
    <3>2. int + step < W
      BY <1>3, <1>4, <1>9, <3>1
    <3>3. ~over /\ tmp = int + step
      BY <1>5, <1>9, <2>3, <3>2
    <3>4. ~IsBetween(a) => step = IF 2 * mant >= P THEN 1 ELSE 0
      <4> SUFFICES ASSUME ~IsBetween(a) PROVE step = IF 2 * mant >= P THEN 1 ELSE 0
        OBVIOUS
      <4>1. 2 * mant # P /\ mant \in Nat
        BY <1>3, <3>1
      <4>2. 2 * mant >= P <=> 2 * mant > P
        BY <1>3, <4>1
      <4> QED BY <1>4, <1>9, <4>1, <4>2
    <3> QED BY <3>1, <3>3, <3>4
  <2>4. Finalized(r)
    <3>1. r.over <=> f2i.over
      BY <1>2, <1>6, <1>9, <2>3
    <3>2. ~r.over /\ ~IsBetween(a) => r.result_tmp = RoundedMagnitude(a)
      BY <1>2, <2>3, <3>1 DEF n
    <3>3. ~r.under
      BY <1>1, <1>2, <2>1
    <3>4. r.over <=> e - Bias >= (IF r.unsign THEN XLEN ELSE XLEN - 1)
      BY <1>1, <1>2, <2>1, <3>1
    <3> QED BY <1>1, <2>1, <3>2, <3>3, <3>4 DEF Finalized, IsSpecial, a, e
  <2> QED BY <1>2, <2>4 DEF Converting, r
<1> QED BY <1>7, <1>8, <1>9 DEF r

\* The converter at work and its result, as long as no trapped instruction has
\* left one of the co-processors running.
ToUnsigned == Bits(instr.rs2, 0, 0) = 1
ConverterHeld ==
    /\ fpu.busy \/ fpu.valid => fpu.frm = RoundingMode(instr)
    /\ f2i.state # "S_IDLE" => (f2i.unsign <=> ToUnsigned) /\ Converting(f2i)
    /\ f2i.done \/ (fpu.valid /\ fpu.op = "f2i") =>
         (fpu.frm = 0 /\ ~IsBetween(fpu.a) => f2i.result = Converted(fpu.a, ToUnsigned))

LEMMA ConvertedAlike ==
    ASSUME NEW a, NEW u, NEW v, u <=> v
    PROVE  Converted(a, u) = Converted(a, v)
BY DEF Converted

\* One period of the converter.
LEMMA ConverterSteps ==
    ASSUME ConverterTypes, IsFlushed(fpu.a), f2i.state # "S_IDLE" => Converting(f2i)
    PROVE  /\ F2iStep(instr).state # "S_IDLE" => Converting(F2iStep(instr))
           /\ f2i.state \notin {"S_IDLE", "S_FINALIZE"} => F2iStep(instr).unsign = f2i.unsign
           /\ f2i.state = "S_IDLE" =>
                /\ F2iStep(instr).unsign = ToUnsigned
                /\ F2iStep(instr).result = f2i.result
           /\ f2i.state = "S_FINALIZE" =>
                F2iStep(instr).result = Saturated /\ F2iStep(instr).state = "S_IDLE"
<1> DEFINE r == F2iStep(instr)
<1>1. CASE f2i.state = "S_IDLE"
  <2> DEFINE idle == [f2i EXCEPT !.rounded = FALSE, !.over = FALSE, !.under = FALSE,
                                 !.s = FALSE, !.unsign = (Bits(instr.rs2, 0, 0) = 1)]
             started == [idle EXCEPT !.state = "S_PREPARE_F2I", !.cnt = ExponentOf(fpu.a),
                                     !.mant = MantissaOf(fpu.a)]
  <2>1. r \in {idle, started}
    BY <1>1 DEF F2iStep
  <2>2. /\ idle.state = "S_IDLE" /\ idle.unsign = ToUnsigned /\ idle.result = f2i.result
        /\ ~idle.over /\ ~idle.under /\ ~idle.s
        /\ {"state", "unsign", "cnt", "rounded", "over", "under", "int", "mant", "s", "result_tmp",
            "result", "done"} \subseteq DOMAIN idle
    BY <1>1 DEF ConverterTypes, ConverterRecord, ToUnsigned
  <2> HIDE DEF idle
  <2>3. /\ started.state = "S_PREPARE_F2I" /\ started.unsign = ToUnsigned
        /\ started.result = f2i.result
        /\ started.cnt = ExponentOf(fpu.a) /\ started.mant = MantissaOf(fpu.a)
        /\ ~started.over /\ ~started.under /\ ~started.s
    BY <2>2
  <2> HIDE DEF started, r
  <2>4. Converting(started)
    BY <2>3 DEF Converting
  <2> QED BY <1>1, <2>1, <2>2, <2>3, <2>4 DEF r
<1>2. CASE f2i.state = "S_PREPARE_F2I"
  <2>1. r = F2iPrepare /\ Converting(F2iPrepare)
    BY <1>2, PreparedConverts DEF F2iStep
  <2>2. F2iPrepare.unsign = f2i.unsign
    <3> DEFINE state1 == IF ClassOf(fpu.a) \in Infinities \union Zeros \union NaNs
                         THEN "S_FINALIZE" ELSE "S_NORMALIZE_BUSY"
               shifts == [f2i EXCEPT !.state = state1]
               c == f2i.cnt
    <3>1. shifts.unsign = f2i.unsign /\ {"unsign", "int", "under", "cnt", "mant"} \subseteq DOMAIN shifts
      BY DEF ConverterTypes, ConverterRecord
    <3>2. F2iPrepare \in
            {[shifts EXCEPT !.int = 0, !.under = TRUE, !.cnt = 0],
             [shifts EXCEPT !.int = 0, !.mant = 2 ^ (MAN - 1) + @ \div 2, !.cnt = 0],
             [shifts EXCEPT !.int = 1, !.cnt = @ - Bias]}
      <4>1. c \in Int /\ Bias \in Int
        BY ExponentSizes, FloatPowers DEF ConverterTypes, ConverterRecord
      <4>2. c < Bias - 1 \/ c = Bias - 1 \/ c > Bias - 1
        BY <4>1
      <4> QED BY <4>2 DEF F2iPrepare
    <3> HIDE DEF shifts
    <3> QED BY <3>1, <3>2
  <2> QED BY <1>2, <2>1, <2>2
<1>3. CASE f2i.state = "S_NORMALIZE_BUSY"
  <2>1. r = F2iBusy /\ Converting(F2iBusy)
    BY <1>3, BusyConverts DEF F2iStep
  <2>2. F2iBusy.unsign = f2i.unsign
    BY <1>3, BusyFields
  <2> QED BY <1>3, <2>1, <2>2
<1>4. CASE f2i.state = "S_ROUND"
  <2>1. r = F2iRound /\ Converting(F2iRound)
    BY <1>4, RoundConverts DEF F2iStep
  <2>2. F2iRound.unsign = f2i.unsign
    BY DEF F2iRound, ConverterTypes, ConverterRecord
  <2> QED BY <1>4, <2>1, <2>2
<1>5. CASE f2i.state = "S_FINALIZE"
  <2>1. r = [f2i EXCEPT !.result = Saturated, !.state = "S_IDLE"]
    BY <1>5 DEF F2iStep
  <2>2. r.result = Saturated /\ r.state = "S_IDLE"
    BY <2>1 DEF ConverterTypes, ConverterRecord
  <2> QED BY <1>5, <2>2
<1> QED BY <1>1, <1>2, <1>3, <1>4, <1>5 DEF ConverterTypes, ConverterRecord

LEMMA ConverterHeldStep ==
    ASSUME IInv, Awaited, Operands, FloatHeld, Typed, ConverterHeld, Clock, ~abandoned'
    PROVE  ConverterHeld'
<1>1. /\ ControlTypes /\ ConverterTypes /\ Phases /\ Controlled /\ Shapes /\ FpuInvariant
  BY DEF Typed, IInv
<1>2. /\ f2i'.done = (f2i.state = "S_FINALIZE")
      /\ f2i.state = "S_FINALIZE" => f2i'.state = "S_IDLE"
      /\ f2i.state = "S_IDLE" /\ ~Started(instr, "f2i") => f2i'.state = "S_IDLE"
  BY <1>1, ConverterStates
<1>3. CASE ~fpu.busy
  <2>1. f2i.state = "S_IDLE" /\ ~Started(instr, "f2i")
    BY <1>1, <1>3 DEF Phases, Started
  <2>2. f2i'.state = "S_IDLE" /\ ~f2i'.done /\ ~fpu'.valid
    BY <1>1, <1>2, <1>3, <2>1, FpuRecord
  <2>3. fpu'.busy => fpu'.frm = RoundingMode(instr)'
    <3>1. fpu'.busy => Start("fpu")
      BY <1>1, <1>3, FpuRecord
    <3>2. Start("fpu") => instr' = instr
      BY <1>1, StartHolds
    <3>3. fpu'.frm = RoundingMode(instr)
      BY <1>1, <1>3, ControllerFields
    <3>4. instr' = instr => RoundingMode(instr)' = RoundingMode(instr)
      OBVIOUS
    <3> QED BY <3>1, <3>2, <3>3, <3>4
  <2> QED BY <2>2, <2>3 DEF ConverterHeld
<1>4. CASE fpu.busy
  <2>1. state = "ALU_WAIT" /\ instr' = instr /\ rs.rs1 \in Words
    <3>1. state = "ALU_WAIT"
      BY <1>4 DEF Awaited, Working
    <3> QED BY <1>1, <3>1, Waiting DEF instr, Operands
  <2>2. fpu'.a = fpu.a /\ fpu'.frm = fpu.frm /\ fpu'.op = fpu.op
    BY <1>1, <1>4, ControllerFields
  <2>3. RoundingMode(instr)' = RoundingMode(instr) /\ ToUnsigned' = ToUnsigned
    BY <2>1 DEF ToUnsigned
  <2>4. fpu.frm = RoundingMode(instr)
    BY <1>4 DEF ConverterHeld
  <2>5. IsFlushed(fpu.a)
    <3>1. fpu.a = OperandData(rs.rs1)
      BY <1>4 DEF FloatHeld
    <3>2. OperandData(rs.rs1) \in Words
          /\ (Magnitude(OperandData(rs.rs1)) = 0 \/ ~(Magnitude(OperandData(rs.rs1)) < 2 ^ MAN))
      <4>1. Magnitude(rs.rs1) \in Nat /\ 2 ^ MAN \in Nat
        BY <2>1, FloatParts, FloatPowers
      <4> QED BY <2>1, <4>1, Flushed
    <3> QED BY <3>1, <3>2 DEF IsFlushed
  <2> DEFINE r == F2iStep(instr)
  <2>6. f2i' = [r EXCEPT !.done = (f2i.state = "S_FINALIZE")]
    BY DEF Clock, CoProcessorsClock, FpuClock, F2iClock
  <2>7. /\ r.state # "S_IDLE" => Converting(r)
        /\ f2i.state \notin {"S_IDLE", "S_FINALIZE"} => r.unsign = f2i.unsign
        /\ f2i.state = "S_IDLE" => r.unsign = ToUnsigned /\ r.result = f2i.result
        /\ f2i.state = "S_FINALIZE" => r.result = Saturated /\ r.state = "S_IDLE"
    BY <1>1, <2>5, ConverterSteps DEF ConverterHeld
  <2> HIDE DEF r
  <2>8. /\ f2i'.state = r.state /\ f2i'.unsign = r.unsign /\ f2i'.cnt = r.cnt
        /\ f2i'.over = r.over /\ f2i'.under = r.under /\ f2i'.int = r.int /\ f2i'.mant = r.mant
        /\ f2i'.s = r.s /\ f2i'.result_tmp = r.result_tmp /\ f2i'.result = r.result
    BY <2>6
  <2>9. Converting(r) => Converting(f2i)'
    BY <2>2, <2>8 DEF Converting, Finalized
  <2>10. f2i'.state # "S_IDLE" => (f2i'.unsign <=> ToUnsigned') /\ Converting(f2i)'
    <3>1. r.state # "S_IDLE" => (r.unsign <=> ToUnsigned)
      BY <2>7 DEF ConverterHeld
    <3> QED BY <2>3, <2>7, <2>8, <2>9, <3>1
  <2>11. ASSUME f2i'.done \/ (fpu'.valid /\ fpu'.op = "f2i"), fpu'.frm = 0, ~IsBetween(fpu'.a)
         PROVE  f2i'.result = Converted(fpu'.a, ToUnsigned')
    <3>1. CASE f2i'.done
      <4>1. f2i.state = "S_FINALIZE"
        BY <1>2, <3>1
      <4>2. f2i'.result = Saturated /\ Finalized(f2i) /\ (f2i.unsign <=> ToUnsigned)
        BY <2>7, <2>8, <4>1 DEF ConverterHeld, Converting
      <4>3. Saturated = Converted(fpu.a, f2i.unsign)
        BY <2>2, <2>5, <2>11, <4>2, SaturatedConverts
      <4>4. Converted(fpu.a, f2i.unsign) = Converted(fpu.a, ToUnsigned)
        BY <4>2, ConvertedAlike
      <4> QED BY <2>2, <2>3, <4>2, <4>3, <4>4
    <3>2. CASE fpu'.valid /\ fpu.op = "f2i"
      <4>1. CoreDone(instr)
        <5>1. fpu'.busy = ~CoreDone(instr) /\ (fpu'.busy <=> ~fpu'.valid)
          BY <1>1, <1>4, ControllerFields, FpuRecord
        <5> QED BY <3>2, <5>1
      <4>2. f2i.done /\ f2i.state = "S_IDLE"
        <5>1. /\ Started(instr, "class") => fpu.op = "class"
              /\ Started(instr, "sgnj") => fpu.op = "sgnj"
          BY <1>1, StartedOperation DEF UnitNames
        <5> QED BY <1>1, <3>2, <4>1, <5>1 DEF CoreDone, Phases
      <4>3. f2i.result = Converted(fpu.a, ToUnsigned)
        BY <2>2, <2>11, <4>2 DEF ConverterHeld
      <4> QED BY <2>2, <2>3, <2>7, <2>8, <4>2, <4>3
    <3> QED BY <2>2, <2>11, <3>1, <3>2
  <2>12. fpu'.frm = RoundingMode(instr)'
    BY <2>2, <2>3, <2>4
  <2> QED BY <2>10, <2>11, <2>12 DEF ConverterHeld
<1> QED BY <1>3, <1>4

ConverterAnswered ==
    ctrl.wb /\ CoProcessorOf(instr) = "fpu" /\ OperationOf(instr) = "f2i" =>
      (RoundingMode(instr) = 0 /\ ~IsBetween(OperandData(rs.rs1)) =>
         fpu.result = Converted(OperandData(rs.rs1), ToUnsigned))

LEMMA ConverterAnsweredStep ==
    ASSUME IInv, Awaited, Operands, FloatHeld, ConverterHeld, Clock, ~abandoned'
    PROVE  ConverterAnswered'
<1> SUFFICES ASSUME ctrl'.wb, CoProcessorOf(instr)' = "fpu", OperationOf(instr)' = "f2i",
                    RoundingMode(instr)' = 0, ~IsBetween(OperandData(rs.rs1))'
             PROVE  fpu'.result = Converted(OperandData(rs.rs1), ToUnsigned)'
  BY DEF ConverterAnswered
<1>1. ~EXECUTE
  <2> SUFFICES ASSUME EXECUTE PROVE FALSE
    OBVIOUS
  <2>1. i_reg' = i_reg /\ CoProcessorOf(instr) = "none"
    BY DEF EXECUTE, Off
  <2>2. CoProcessorOf(instr)' = "none"
    BY <2>1 DEF instr
  <2> QED BY <2>2
<1>2. ALU_WAIT
  BY <1>1 DEF Clock, ExecuteEngine, SYS_WAIT, DispatchWaits, Dispatch, DispatchTraps, TRAP_ENTER,
              TRAP_EXECUTE, Off
<1>3. i_reg' = i_reg /\ rs' = rs /\ idone
  BY <1>2, Waiting DEF ALU_WAIT, IInv
<1>4. /\ CoProcessorOf(instr)' = CoProcessorOf(instr) /\ OperationOf(instr)' = OperationOf(instr)
      /\ RoundingMode(instr)' = RoundingMode(instr) /\ ToUnsigned' = ToUnsigned
      /\ OperandData(rs.rs1)' = OperandData(rs.rs1)
      /\ IsBetween(OperandData(rs.rs1))' = IsBetween(OperandData(rs.rs1))
      /\ Converted(OperandData(rs.rs1), ToUnsigned)' = Converted(OperandData(rs.rs1), ToUnsigned)
  BY <1>3 DEF instr, ToUnsigned
<1>5. fpu.valid
  <2>1. Valid("fpu")
    BY <1>3, <1>4, OneAnswers
  <2> QED BY <2>1 DEF Valid
<1>6. fpu.op = "f2i" /\ fpu.a = OperandData(rs.rs1) /\ fpu.frm = 0
  BY <1>4, <1>5 DEF FloatHeld, ConverterHeld
<1>7. fpu'.result = f2i.result
  <2>1. fpu'.result = FpuResult(instr)
    BY <1>5, FloatControl DEF IInv, OutputGate
  <2> QED BY <1>6, <2>1 DEF FpuResult
<1>8. f2i.result = Converted(OperandData(rs.rs1), ToUnsigned)
  BY <1>4, <1>5, <1>6 DEF ConverterHeld
<1> QED BY <1>4, <1>7, <1>8

Converts == abandoned \/ (ConverterHeld /\ ConverterAnswered)

LEMMA ConvertsInit == Init => Converts
BY DEF Init, FpuInit, Off, Converts, ConverterHeld, ConverterAnswered

LEMMA ConvertsStep == IInv /\ Holds /\ Typed /\ Converts /\ [Clock]_vars => Converts'
<1> SUFFICES ASSUME IInv, Holds, Typed, Converts, [Clock]_vars PROVE Converts'
  OBVIOUS
<1>1. CASE Clock
  <2> SUFFICES ASSUME ~abandoned' PROVE ConverterHeld' /\ ConverterAnswered'
    BY DEF Converts
  <2>1. ~abandoned
    BY <1>1, Zenon DEF Clock, Registers
  <2>2. Awaited /\ Operands /\ FloatHeld /\ ConverterHeld
    BY <2>1 DEF IInv, Holds, Converts
  <2> QED BY <1>1, <2>2, ConverterHeldStep, ConverterAnsweredStep
<1>2. CASE UNCHANGED vars
  <2>1. i_reg' = i_reg /\ rs' = rs /\ ctrl' = ctrl /\ abandoned' = abandoned /\ fpu' = fpu /\ f2i' = f2i
    BY <1>2 DEF vars, control_vars, fpu_vars
  <2>2. ToUnsigned' = ToUnsigned /\ instr' = instr
    BY <2>1 DEF ToUnsigned, instr
  <2>3. Converting(f2i)' = Converting(f2i)
    BY <2>1 DEF Converting, Finalized
  <2>4. ConverterHeld' = ConverterHeld
    BY <2>1, <2>2, <2>3 DEF ConverterHeld
  <2>5. ConverterAnswered' = ConverterAnswered
    BY <2>1, <2>2 DEF ConverterAnswered
  <2> QED BY <2>1, <2>4, <2>5 DEF Converts
<1> QED BY <1>1, <1>2

LEMMA ConvertsSpec == Spec => []Converts
BY Invariant, Answering, TypedSpec, ConvertsInit, ConvertsStep, PTL DEF Spec

\* What decides of the integer is the same of a flushed operand.
LEMMA FlushedAlike ==
    ASSUME NEW w \in Words
    PROVE  /\ ExponentOf(OperandData(w)) = ExponentOf(w) /\ SignOf(OperandData(w)) = SignOf(w)
           /\ IsNaN(OperandData(w)) <=> IsNaN(w)
           /\ IsBetween(OperandData(w)) => IsBetween(w)
<1> DEFINE a == OperandData(w)
<1>1. CASE ExponentOf(w) # 0
  BY <1>1 DEF OperandData
<1>2. CASE ExponentOf(w) = 0
  <2>1. Magnitude(w) < 2 ^ MAN /\ 2 ^ MAN \in Nat \ {0} /\ 2 ^ MAN <= Infinity /\ Infinity \in Nat
    BY <1>2, FloatClasses, FloatPowers
  <2>2. a \in Words /\ SignOf(a) = SignOf(w) /\ Magnitude(a) = 0
    BY <2>1, Flushed
  <2>3. 0 < 2 ^ MAN /\ ~(0 > Infinity) /\ ~(Magnitude(w) > Infinity)
    <3>1. Magnitude(w) \in Nat
      BY FloatParts
    <3> QED BY <2>1, <3>1
  <2> HIDE DEF a
  <2>4. ExponentOf(a) = 0 /\ ~IsNaN(a) /\ ~IsNaN(w)
    BY <2>2, <2>3, FloatClasses
  <2>5. ~IsBetween(a)
    <3> DEFINE B == Bias
               P == 2 ^ MAN
    <3>1. B \in Nat /\ B >= 10 /\ MAN \in Nat /\ P \in Nat \ {0}
      BY ExponentSizes, FloatPowers
    <3>2. Scale(a) = 1 - B - MAN
      BY <2>4 DEF Scale
    <3>3. FloatWord(0, B - 1, 1) = 0 * 2 ^ (XLEN - 1) + (B - 1) * P + 1
      BY DEF FloatWord
    <3>4. 0 * 2 ^ (XLEN - 1) = 0
      <4> DEFINE H == 2 ^ (XLEN - 1)
      <4>1. H \in Nat
        BY FloatPowers
      <4> HIDE DEF H
      <4> QED BY <4>1 DEF H
    <3> HIDE DEF B, P
    <3>5. (B - 1) * P >= 0 /\ (B - 1) * P \in Int
      BY <3>1
    <3>6. FloatWord(0, B - 1, 1) # 0
      <4> DEFINE x == (B - 1) * P
                 z == 0 * 2 ^ (XLEN - 1)
      <4>1. x \in Int /\ x >= 0 /\ z = 0
        BY <3>4, <3>5
      <4>2. FloatWord(0, B - 1, 1) = z + x + 1
        BY <3>3
      <4> HIDE DEF x, z
      <4> QED BY <4>1, <4>2
    <3>7. ~(Scale(a) \in -(MAN + 1) .. -1)
      BY <3>1, <3>2
    <3> QED BY <2>2, <3>6, <3>7 DEF IsBetween, B
  <2> QED BY <1>2, <2>2, <2>4, <2>5 DEF a
<1> QED BY <1>1, <1>2

LEMMA FirstRegisters == REG_ADDR("x0") = 0 /\ REG_ADDR("x1") = 1
<1>1. "x0" \in {XNames[1], CallingNames[1]} /\ "x1" \in {XNames[2], CallingNames[2]}
  BY DEF XNames, CallingNames
<1>2. ASSUME NEW n \in 0 .. 31, "x0" \in {XNames[n + 1], CallingNames[n + 1]}
      PROVE  n = 0
  BY <1>2, SMTT(60) DEF XNames, CallingNames
<1>3. ASSUME NEW n \in 0 .. 31, "x1" \in {XNames[n + 1], CallingNames[n + 1]}
      PROVE  n = 1
  BY <1>3, SMTT(60) DEF XNames, CallingNames
<1>4. 0 \in 0 .. 31 /\ 0 + 1 = 1 /\ 1 \in 0 .. 31 /\ 1 + 1 = 2
  OBVIOUS
<1> QED BY <1>1, <1>2, <1>3, <1>4 DEF REG_ADDR

LEMMA ConversionDecoded ==
    /\ \A i \in {riscv_intrinsic_fcvt_wus, riscv_intrinsic_fcvt_ws} :
          CoProcessorOf(i) = "fpu" /\ OperationOf(i) = "f2i" /\ RoundingMode(i) = 0
    /\ Bits(riscv_intrinsic_fcvt_wus.rs2, 0, 0) = 1
    /\ Bits(riscv_intrinsic_fcvt_ws.rs2, 0, 0) = 0
<1> USE DEF CUSTOM_INSTR_R2_TYPE, CMD_WORD_R2_TYPE
<1>1. ASSUME NEW i, i.opcode = opcode_fop_c
      PROVE  CoProcessorOf(i) = "fpu"
  BY <1>1 DEF CoProcessorOf, IsAluOperation, opcode_alu_c, opcode_alui_c, opcode_fop_c
<1>2. \A i \in {riscv_intrinsic_fcvt_wus, riscv_intrinsic_fcvt_ws} :
         i.opcode = opcode_fop_c /\ i.funct7 = 96 /\ i.funct3 = 0
  BY DEF riscv_intrinsic_fcvt_wus, riscv_intrinsic_fcvt_ws, opcode_fop_c
<1>3. ASSUME NEW i, i.funct7 = 96
      PROVE  OperationOf(i) = "f2i"
  <2>1. Bits(96, 6, 2) = 24 /\ Bits(96, 6, 3) = 12
    BY DEF Bits
  <2> QED BY <1>3, <2>1 DEF OperationOf, UnitOf
<1>4. ASSUME NEW i, i.funct3 = 0
      PROVE  RoundingMode(i) = 0
  <2>1. Bits(0, 1, 0) = 0
    BY DEF Bits
  <2> QED BY <1>4, <2>1 DEF RoundingMode
<1>6. riscv_intrinsic_fcvt_wus.rs2 = 1 /\ riscv_intrinsic_fcvt_ws.rs2 = 0
  BY FirstRegisters DEF riscv_intrinsic_fcvt_wus, riscv_intrinsic_fcvt_ws
<1>7. Bits(1, 0, 0) = 1 /\ Bits(0, 0, 0) = 0
  BY DEF Bits
<1> QED BY <1>1, <1>2, <1>3, <1>4, <1>6, <1>7

LEMMA ToIntegerAnswers ==
    ASSUME Operands, Answered, ConverterAnswered, ControlTypes, ctrl.wb, ~IsBetween(a0)
    PROVE  LET low  == -(2 ^ (XLEN - 1))
               high == 2 ^ (XLEN - 1) - 1
           IN  /\ instr = riscv_intrinsic_fcvt_wus =>
                    AluResult = IF Convertible(0, 2 ^ XLEN - 1) THEN riscv_emulate_fcvt_wus(a0)
                                ELSE Limit(0, 2 ^ XLEN - 1)
               /\ instr = riscv_intrinsic_fcvt_ws =>
                    AluResult = IF Convertible(low, high) THEN riscv_emulate_fcvt_ws(a0)
                                ELSE Limit(low, high) % 2 ^ XLEN
<1> DEFINE a == OperandData(a0)
           W == 2 ^ XLEN
           low == -(2 ^ (XLEN - 1))
           high == 2 ^ (XLEN - 1) - 1
           i == NearestInteger(a)
<1>1. rs.rs1 = a0 /\ a0 \in Words
  BY DEF Operands, a0
<1>2. /\ a = subnormal_flush(a0) /\ ExponentOf(a) = ExponentOf(a0) /\ SignOf(a) = SignOf(a0)
      /\ IsNaN(a) <=> IsNaN(a0)
      /\ ~IsBetween(a)
  BY <1>1, Flushed, FlushedAlike
<1>3. ASSUME CoProcessorOf(instr) = "fpu"
      PROVE  AluResult = fpu.result
  <2>1. /\ "fpu" \in CoProcessors /\ ctrl.copro
        /\ \A cp \in CoProcessors \ {"fpu"} : Result(cp) = 0
    BY <1>3 DEF Answered
  <2>2. Result("fpu") = fpu.result /\ fpu.result \in Words
    BY DEF Result, ControlTypes
  <2> QED BY <2>1, <2>2, OnlyResult
<1>4. instr \in {riscv_intrinsic_fcvt_wus, riscv_intrinsic_fcvt_ws} =>
         AluResult = Converted(a, ToUnsigned)
  <2> HIDE DEF a
  <2> QED BY <1>1, <1>2, <1>3, ConversionDecoded DEF ConverterAnswered, a
<1>5. /\ instr = riscv_intrinsic_fcvt_wus => ToUnsigned
      /\ instr = riscv_intrinsic_fcvt_ws => ~ToUnsigned
  BY ConversionDecoded DEF ToUnsigned
<1>6. Converted(a, TRUE) = IF Convertible(0, W - 1) THEN i % W ELSE Limit(0, W - 1)
  <2>1. W \in Nat \ {0}
    BY FloatPowers
  <2>2. Converted(a, TRUE) = IF Convertible(0, W - 1) THEN i % W ELSE Limit(0, W - 1) % W
    <3> HIDE DEF W, a, i
    <3> QED BY <1>2 DEF Converted, Convertible, Limit, W, i
  <2> HIDE DEF W
  <2>3. Limit(0, W - 1) \in 0 .. W - 1
    BY <2>1 DEF Limit
  <2>4. Limit(0, W - 1) % W = Limit(0, W - 1)
    BY <2>1, <2>3, SmallReduced
  <2> QED BY <2>2, <2>4
<1>7. Converted(a, FALSE) = IF Convertible(low, high) THEN i % W ELSE Limit(low, high) % W
  <2> HIDE DEF a
  <2> QED BY <1>2 DEF Converted, Convertible, Limit
<1>8. riscv_emulate_fcvt_wus(a0) = i % W /\ riscv_emulate_fcvt_ws(a0) = i % W
  BY <1>2 DEF riscv_emulate_fcvt_wus, riscv_emulate_fcvt_ws
<1>9. /\ ToUnsigned => Converted(a, ToUnsigned) = Converted(a, TRUE)
      /\ ~ToUnsigned => Converted(a, ToUnsigned) = Converted(a, FALSE)
  BY ConvertedAlike
<1> HIDE DEF a, W, low, high, i
<1> QED BY <1>4, <1>5, <1>6, <1>7, <1>8, <1>9 DEF low, high, W

-----------------------------------------------------------------------------
(* Numbers with a sticky bit: an integer that is shifted to the right, and *)
(* its rounding.                                                           *)

\* What is left of x with one bit, the sticky one, for the rest.
Sticky(x, d) == 2 * (x \div d) + (IF x % d = 0 THEN 0 ELSE 1)

LEMMA StickyShifted ==
    ASSUME NEW x \in Nat, NEW d \in Nat \ {0}
    PROVE  ShiftedToSticky(Sticky(x, d)) = Sticky(x, 2 * d)
<1> DEFINE q == x \div d
           r == x % d
           h == q \div 2
           b == q % 2
           s == IF r = 0 THEN 0 ELSE 1
           n == 2 * q + s
<1>1. q \in Int /\ r \in Int /\ 0 <= r /\ r < d /\ x = d * q + r
  BY DivMod
<1>2. Sticky(x, d) = n
  BY DEF Sticky
<1> HIDE DEF q, r
<1>3. h \in Int /\ b \in {0, 1} /\ q = 2 * h + b
  BY <1>1
<1> HIDE DEF h, b
<1>4. n \div 4 = h /\ n % 4 = 2 * b + s
  <2>1. n \in Int /\ 2 * b + s \in Int /\ 0 <= 2 * b + s /\ 2 * b + s < 4 /\ n = 4 * h + (2 * b + s)
    BY <1>1, <1>3
  <2> HIDE DEF n, s
  <2> DEFINE g == 2 * b + s
  <2> HIDE DEF g
  <2>2. 4 \in Nat \ {0}
    OBVIOUS
  <2> QED BY <1>3, <2>1, <2>2, Division DEF g
<1>5. x \div (2 * d) = h /\ x % (2 * d) = d * b + r
  <2> DEFINE g == d * b + r
             e == 2 * d
  <2>1. g \in Int /\ 0 <= g /\ g < e /\ e \in Nat \ {0} /\ x = e * h + g
    <3>1. d * q = 2 * d * h + d * b
      BY <1>3
    <3>2. d * b = IF b = 0 THEN 0 ELSE d
      BY <1>3
    <3>3. 2 * d * h \in Int
      BY <1>3
    <3> QED BY <1>1, <3>1, <3>2, <3>3
  <2> HIDE DEF g, e
  <2>2. x \div e = h /\ x % e = g
    BY <1>3, <2>1, Division
  <2> QED BY <2>2 DEF g, e
<1>6. 2 * b + s = 0 <=> d * b + r = 0
  <2>1. d * b = IF b = 0 THEN 0 ELSE d
    BY <1>3
  <2> QED BY <1>1, <1>3, <2>1
<1>7. ShiftedToSticky(n) = 2 * (n \div 4) + (IF n % 4 = 0 THEN 0 ELSE 1)
  BY DEF ShiftedToSticky
<1>8. Sticky(x, 2 * d) = 2 * (x \div (2 * d)) + (IF x % (2 * d) = 0 THEN 0 ELSE 1)
  BY DEF Sticky
<1> HIDE DEF n, s
<1> QED BY <1>2, <1>4, <1>5, <1>6, <1>7, <1>8

\* The bits above the mantissa count how often the shifted one goes into n.
LEMMA StickyAbove ==
    ASSUME NEW n \in Nat, NEW d \in Nat \ {0}, NEW m \in Nat \ {0}
    PROVE  Sticky(n * (2 * m), 2 * d) \div (2 * m) = n \div d
<1> DEFINE k == n \div d
           r == n % d
           p == m * r
           h == p \div d
           g == p % d
           x == n * (2 * m)
           e == 2 * d
           s == IF x % e = 0 THEN 0 ELSE 1
<1>1. k \in Int /\ r \in Int /\ 0 <= r /\ r < d /\ n = d * k + r
  BY DivMod
<1> HIDE DEF k, r
<1>2. p \in Int /\ 0 <= p /\ p < m * d
  <2>1. r + 1 <= d => m * (r + 1) <= m * d
    BY <1>1
  <2>2. m * (r + 1) = p + m /\ p \in Int /\ p >= 0
    BY <1>1
  <2> HIDE DEF p
  <2> QED BY <1>1, <2>1, <2>2
<1>3. h \in Int /\ g \in Int /\ 0 <= g /\ g < d /\ p = d * h + g
  <2> HIDE DEF p
  <2> QED BY <1>2, DivMod
<1> HIDE DEF h, g
<1>4. 0 <= h /\ h < m
  <2>1. h <= -1 => d * h <= -d
    BY <1>3
  <2>2. h >= m => d * h >= d * m
    BY <1>3
  <2>3. d * m = m * d /\ d * h \in Int /\ m * d \in Int
    BY <1>3
  <2> HIDE DEF p
  <2> QED BY <1>2, <1>3, <2>1, <2>2, <2>3
<1>5. x \div e = m * k + h
  <2> DEFINE q == m * k + h
             g2 == 2 * g
  <2>1. x = e * q + g2 /\ x \in Int /\ q \in Int /\ g2 \in Int /\ 0 <= g2 /\ g2 < e
        /\ e \in Nat \ {0}
    <3>1. x = 2 * (m * n) /\ m * n = m * (d * k) + p
      BY <1>1
    <3>2. e * q = 2 * (d * (m * k)) + 2 * (d * h)
      BY <1>1, <1>3
    <3>3. m * (d * k) = d * (m * k) /\ d * (m * k) \in Int /\ d * h \in Int /\ m * n \in Int
          /\ m * k \in Int
      BY <1>1, <1>3
    <3> HIDE DEF p
    <3>4. x = e * q + g2
      <4> DEFINE y == d * (m * k)
                 z == d * h
      <4>1. x = 2 * (y + p) /\ e * q = 2 * y + 2 * z /\ p = z + g /\ y \in Int /\ z \in Int
        BY <1>3, <3>1, <3>2, <3>3
      <4> HIDE DEF y, z, x, e, q
      <4> QED BY <1>3, <4>1
    <3> QED BY <1>3, <3>1, <3>3, <3>4
  <2> HIDE DEF q, g2, x, e
  <2> QED BY <2>1, Division DEF q
<1>6. s \in {0, 1}
  OBVIOUS
<1>7. Sticky(x, e) = 2 * (x \div e) + s
  BY DEF Sticky
<1> HIDE DEF x, e, s
<1>8. Sticky(x, e) = 2 * (m * k + h) + s
  BY <1>5, <1>7
<1> DEFINE a == Sticky(x, e)
           f == 2 * m
           t == 2 * h + s
<1>9. a = f * k + t /\ a \in Int /\ t \in Int /\ 0 <= t /\ t < f /\ f \in Nat \ {0}
  <2>1. m * k \in Int /\ f * k = 2 * (m * k)
    BY <1>1
  <2>2. 2 * (m * k + h) + s = 2 * (m * k) + t
    BY <1>3, <1>6, <2>1
  <2> QED BY <1>3, <1>4, <1>6, <1>8, <2>1, <2>2
<1> HIDE DEF a, f, t
<1>10. a \div f = k
  BY <1>1, <1>9, Division
<1> QED BY <1>10 DEF a, f, k, x, e

\* The three bits below tell where the rest lies between two places.
LEMMA StickyBelow ==
    ASSUME NEW c \in Nat, NEW d \in Nat \ {0}
    PROVE  LET x == Sticky(8 * c, 2 * d)
           IN  /\ x \div 8 = c \div d
               /\ x % 8 \in 0 .. 7
               /\ x % 8 > 4 <=> 2 * (c % d) > d
               /\ x % 8 = 4 <=> 2 * (c % d) = d
<1> DEFINE k == c \div d
           r == c % d
           n == 4 * r
           h == n \div d
           g == n % d
           e == 2 * d
           s == IF (8 * c) % e = 0 THEN 0 ELSE 1
<1>1. k \in Int /\ r \in Int /\ 0 <= r /\ r < d /\ c = d * k + r
  BY DivMod
<1> HIDE DEF k, r
<1>2. h \in Int /\ g \in Int /\ 0 <= g /\ g < d /\ n = d * h + g
  BY <1>1, DivMod
<1> HIDE DEF h, g
<1>3. h \in {0, 1, 2, 3}
  <2>1. h <= -1 => d * h <= -d
    BY <1>2
  <2>2. h >= 4 => d * h >= d * 4
    BY <1>2
  <2>3. d * h \in Int
    BY <1>2
  <2> QED BY <1>1, <1>2, <2>1, <2>2, <2>3
<1>4. d * h = IF h = 0 THEN 0 ELSE IF h = 1 THEN d ELSE IF h = 2 THEN 2 * d ELSE 3 * d
  BY <1>3
<1>5. (8 * c) \div e = 4 * k + h /\ (8 * c) % e = 2 * g
  <2> DEFINE a == 8 * c
             q == 4 * k + h
             g2 == 2 * g
  <2>1. a = e * q + g2
    <3>1. e * q = 8 * (d * k) + 2 * (d * h) /\ d * k \in Int /\ d * h \in Int
      BY <1>1, <1>2
    <3>2. a = 8 * (d * k) + 2 * n
      BY <1>1, <3>1
    <3>3. n = d * h + g
      BY <1>2
    <3> HIDE DEF a, n, e, q
    <3> QED BY <1>2, <3>1, <3>2, <3>3
  <2>2. a \in Int /\ q \in Int /\ g2 \in Int /\ 0 <= g2 /\ g2 < e /\ e \in Nat \ {0}
    BY <1>1, <1>2
  <2> HIDE DEF a, q, g2, e
  <2>3. a \div e = q /\ a % e = g2
    BY <2>1, <2>2, Division
  <2> QED BY <2>3 DEF a, q, g2
<1>6. s = IF g = 0 THEN 0 ELSE 1
  BY <1>2, <1>5
<1> DEFINE x == Sticky(8 * c, e)
           y == 2 * h + s
<1>7. x = 8 * k + y /\ y \in 0 .. 7
  <2>1. x = 2 * ((8 * c) \div e) + s
    BY DEF Sticky
  <2> HIDE DEF x, e
  <2>2. x = 2 * (4 * k + h) + s
    BY <1>5, <2>1
  <2>3. s \in {0, 1}
    OBVIOUS
  <2> HIDE DEF s
  <2> QED BY <1>1, <1>3, <2>2, <2>3
<1>8. x \div 8 = k /\ x % 8 = y
  <2> HIDE DEF x, y
  <2>1. x \in Int /\ y \in Int /\ 0 <= y /\ y < 8 /\ 8 \in Nat \ {0}
    BY <1>1, <1>7
  <2> QED BY <1>1, <1>7, <2>1, Division
<1>9. y > 4 <=> 2 * r > d
  <2> HIDE DEF s
  <2> QED BY <1>1, <1>2, <1>3, <1>4, <1>6
<1>10. y = 4 <=> 2 * r = d
  <2> HIDE DEF s
  <2> QED BY <1>1, <1>2, <1>3, <1>4, <1>6
<1> HIDE DEF x, y
<1> QED BY <1>7, <1>8, <1>9, <1>10 DEF x, k, r, e

\* A number of units of a power of two, to the nearest multiple of another.
LEMMA NearestEvenOf ==
    ASSUME NEW c \in Nat, NEW t \in 0 .. XLEN, NEW x, x = Sticky(8 * c, 2 * 2 ^ t)
    PROVE  x \div 8 + RoundingStep(0, (x \div 8) % 2 = 1, x % 8) = NearestEven(c, t)
<1> DEFINE d == 2 ^ t
           r == c % d
           odd == (x \div 8) % 2 = 1
<1>1. d \in Nat \ {0}
  BY Powers
<1>2. /\ x \div 8 = c \div d /\ x % 8 \in 0 .. 7
      /\ x % 8 > 4 <=> 2 * r > d
      /\ x % 8 = 4 <=> 2 * r = d
  <2> HIDE DEF d
  <2> QED BY <1>1, StickyBelow DEF d
<1>3. Halves(c, t) = 2 * r - d /\ r \in Int
  <2>1. r \in Int
    BY <1>1, DivMod
  <2> QED BY <2>1 DEF Halves
<1>4. RoundingStep(0, odd, x % 8) = IF x % 8 > 4 \/ (x % 8 = 4 /\ odd) THEN 1 ELSE 0
  BY DEF RoundingStep
<1>5. (Halves(c, t) > 0 <=> 2 * r > d) /\ (Halves(c, t) = 0 <=> 2 * r = d)
  <2> HIDE DEF r, d
  <2> QED BY <1>1, <1>3
<1>6. NearestEven(c, t) = c \div d + (IF Halves(c, t) > 0 \/ (Halves(c, t) = 0 /\ (c \div d) % 2 = 1)
                                     THEN 1 ELSE 0)
  BY DEF NearestEven
<1> HIDE DEF d, r
<1> QED BY <1>2, <1>4, <1>5, <1>6

\* What the highest one of an integer is, t places to the left of the last.
HighestOne(n, t) == t \in 0 .. XLEN - 1 /\ 2 ^ t <= n /\ n < 2 ^ (t + 1)

LEMMA NextPower ==
    ASSUME NEW t \in 0 .. XLEN - 1
    PROVE  2 ^ (t + 1) = 2 * 2 ^ t /\ 2 ^ t \in Nat \ {0} /\ t + 1 \in 0 .. XLEN /\ t \in 0 .. XLEN
           /\ t \in Nat
<1> DEFINE u == t + 1
<1>1. XLEN \in Nat /\ u \in 1 .. XLEN /\ u - 1 = t /\ t \in 0 .. XLEN /\ t \in Nat
  BY ExponentSizes
<1> HIDE DEF u
<1>2. 2 ^ u = 2 * 2 ^ t /\ 2 ^ t \in Nat \ {0}
  BY <1>1, Powers
<1> QED BY <1>1, <1>2 DEF u

LEMMA LengthOf ==
    ASSUME NEW n \in Nat, NEW t, HighestOne(n, t)
    PROVE  Length(n) = t + 1
<1> DEFINE N == XLEN + MAN + 3
           u == t + 1
           Fits(k) == 2 ^ k > n /\ (k = 0 \/ 2 ^ (k - 1) <= n)
<1>1. t \in 0 .. XLEN - 1 /\ XLEN \in Nat /\ MAN \in Nat /\ N \in Nat /\ u \in 1 .. N /\ u - 1 = t
  BY ExponentSizes DEF HighestOne
<1>2. 2 ^ u > n /\ 2 ^ (u - 1) <= n
  <2>1. 2 ^ t \in Nat /\ 2 ^ (t + 1) \in Nat
    BY <1>1, NextPower, Powers
  <2>2. 2 ^ u > n
    BY <2>1 DEF HighestOne
  <2>3. 2 ^ t <= n
    BY DEF HighestOne
  <2> HIDE DEF u
  <2> QED BY <1>1, <2>2, <2>3
<1> HIDE DEF N
<1>3. ASSUME NEW k \in 0 .. N, NEW j \in 0 .. N, k < j, 2 ^ k > n, 2 ^ (j - 1) <= n
      PROVE  FALSE
  <2> DEFINE i == j - 1
             z == i - k
  <2>1. i \in 0 .. N /\ k \in 0 .. i /\ z \in 0 .. N
    BY <1>1, <1>3
  <2> HIDE DEF i
  <2>2. 2 ^ i = 2 ^ k * 2 ^ (i - k) /\ 2 ^ k \in Nat \ {0} /\ 2 ^ z \in Nat \ {0}
    BY <2>1, RegisterPowers DEF N
  <2>3. 2 ^ i = 2 ^ k * 2 ^ z
    BY <2>2
  <2> HIDE DEF z
  <2> DEFINE x == 2 ^ k
             y == 2 ^ z
  <2> HIDE DEF x, y
  <2>4. x \in Nat \ {0} /\ y \in Nat \ {0} /\ x * y <= n /\ x > n
    BY <1>3, <2>2, <2>3 DEF x, y, i
  <2>5. x * y = x + x * (y - 1) /\ x * (y - 1) \in Nat
    BY <2>4
  <2> QED BY <2>4, <2>5
<1>4. u \in 0 .. N /\ Fits(u)
  BY <1>1, <1>2
<1>5. ASSUME NEW k \in 0 .. N, Fits(k)
      PROVE  k = u
  <2>1. ~(k < u)
    BY <1>2, <1>3, <1>4, <1>5
  <2>2. ~(u < k)
    <3>1. u < k => k # 0
      BY <1>1, <1>5
    <3> QED BY <1>2, <1>3, <1>4, <1>5, <3>1
  <2> QED BY <1>1, <1>4, <1>5, <2>1, <2>2
<1>6. Length(n) = CHOOSE k \in 0 .. N : Fits(k)
  BY DEF Length, N
<1> HIDE DEF Fits, u
<1> QED BY <1>4, <1>5, <1>6 DEF u

\* The significand of an integer: kept places, and the carry of the rounding.
LEMMA SignificandSize ==
    ASSUME NEW n \in Nat, NEW t, HighestOne(n, t)
    PROVE  LET c == n * 2 ^ MAN
           IN  /\ c \div 2 ^ t >= 2 ^ MAN /\ c \div 2 ^ t < 2 * 2 ^ MAN /\ c \div 2 ^ t \in Nat
               /\ NearestEven(c, t) \in 2 ^ MAN .. 2 * 2 ^ MAN
<1> DEFINE P == 2 ^ MAN
           d == 2 ^ t
           c == n * P
           k == c \div d
           r == c % d
<1>1. P \in Nat \ {0} /\ d \in Nat \ {0} /\ d <= n /\ n < 2 * d
  BY FloatPowers, NextPower DEF HighestOne
<1> HIDE DEF P, d
<1>2. c \in Nat /\ d * P <= c /\ c < 2 * (d * P) /\ d * P \in Nat
  <2>1. (n - d) \in Nat /\ (n - d) * P \in Nat /\ c = d * P + (n - d) * P
    BY <1>1
  <2>2. (2 * d - n) - 1 \in Nat /\ ((2 * d - n) - 1) * P \in Nat
        /\ 2 * (d * P) = c + ((2 * d - n) - 1) * P + P
    BY <1>1
  <2> QED BY <1>1, <2>1, <2>2
<1> HIDE DEF c
<1>3. k \in Int /\ r \in Int /\ 0 <= r /\ r < d /\ c = d * k + r
  BY <1>1, <1>2, DivMod
<1> HIDE DEF k, r
<1>4. k >= P
  <2>1. k <= P - 1 => d * k <= d * (P - 1)
    BY <1>1, <1>3
  <2>2. d * (P - 1) = d * P - d /\ d * k \in Int
    BY <1>1, <1>3
  <2> QED BY <1>1, <1>2, <1>3, <2>1, <2>2
<1>5. k < 2 * P
  <2>1. k >= 2 * P => d * k >= d * (2 * P)
    BY <1>1, <1>3
  <2>2. d * (2 * P) = 2 * (d * P) /\ d * k \in Int
    BY <1>1, <1>3
  <2> QED BY <1>1, <1>2, <1>3, <2>1, <2>2
<1>6. NearestEven(c, t) \in {k, k + 1}
  <2>1. NearestEven(c, t) = k + (IF Halves(c, t) > 0 \/ (Halves(c, t) = 0 /\ k % 2 = 1)
                                 THEN 1 ELSE 0)
    BY DEF NearestEven, k, d
  <2> QED BY <1>3, <2>1
<1>7. NearestEven(c, t) \in P .. 2 * P
  BY <1>1, <1>3, <1>4, <1>5, <1>6
<1> QED BY <1>3, <1>4, <1>5, <1>7, <1>1 DEF c, P, k, d

\* It is that of C, which keeps a short integer as it is and divides a long one.
LEMMA SignificandOfC ==
    ASSUME NEW n \in Nat, NEW t \in 0 .. XLEN - 1
    PROVE  /\ t <= MAN => NearestEven(n * 2 ^ MAN, t) = n * 2 ^ (MAN - t)
           /\ t > MAN => NearestEven(n * 2 ^ MAN, t) = NearestEven(n, t - MAN)
<1> DEFINE P == 2 ^ MAN
           d == 2 ^ t
           c == n * P
<1>1. P \in Nat \ {0} /\ d \in Nat \ {0} /\ MAN \in 0 .. XLEN /\ t \in 0 .. XLEN /\ XLEN \in Nat
  BY FloatPowers, NextPower, ExponentSizes
<1>2. NearestEven(c, t) = c \div d + (IF Halves(c, t) > 0 \/ (Halves(c, t) = 0 /\ (c \div d) % 2 = 1)
                                      THEN 1 ELSE 0)
  BY DEF NearestEven
<1>3. Halves(c, t) = 2 * (c % d) - d
  BY DEF Halves
<1>4. ASSUME t <= MAN PROVE NearestEven(c, t) = n * 2 ^ (MAN - t)
  <2> DEFINE y == MAN - t
             f == 2 ^ y
  <2>1. t \in 0 .. MAN /\ y \in 0 .. XLEN
    BY <1>1, <1>4
  <2>2. P = d * f /\ f \in Nat \ {0}
    BY <1>1, <2>1, Powers
  <2> HIDE DEF y, f, P, d
  <2>3. c = d * (n * f) + 0 /\ n * f \in Int /\ c \in Int
    BY <1>1, <2>2
  <2> HIDE DEF c
  <2>4. c \div d = n * f /\ c % d = 0
    <3> DEFINE q == n * f
    <3> HIDE DEF q
    <3>1. c = d * q + 0 /\ q \in Int /\ c \in Int /\ 0 \in Int /\ 0 <= 0 /\ 0 < d
      BY <1>1, <2>3 DEF q
    <3>2. c \div d = q /\ c % d = 0
      BY <1>1, <3>1, Division
    <3> QED BY <3>2 DEF q
  <2>5. Halves(c, t) < 0 /\ Halves(c, t) \in Int
    BY <1>1, <1>3, <2>4
  <2>6. NearestEven(c, t) = n * f + 0
    BY <1>2, <2>4, <2>5
  <2> QED BY <2>3, <2>6 DEF f, y
<1>5. ASSUME t > MAN PROVE NearestEven(c, t) = NearestEven(n, t - MAN)
  <2> DEFINE y == t - MAN
             f == 2 ^ y
             k == n \div f
             r == n % f
  <2>1. MAN \in 0 .. t /\ y \in 0 .. XLEN
    BY <1>1, <1>5
  <2>2. d = P * f /\ f \in Nat \ {0}
    BY <1>1, <2>1, Powers
  <2>3. k \in Int /\ r \in Int /\ 0 <= r /\ r < f /\ n = f * k + r
    <3> HIDE DEF f
    <3> QED BY <2>2, DivMod
  <2>4. Halves(n, y) = 2 * r - f
    BY DEF Halves
  <2>5. NearestEven(n, y) = k + (IF Halves(n, y) > 0 \/ (Halves(n, y) = 0 /\ k % 2 = 1)
                                 THEN 1 ELSE 0)
    BY DEF NearestEven
  <2> HIDE DEF f, k, r, P, d
  <2>6. c \div d = k /\ c % d = P * r
    <3> DEFINE g == P * r
    <3>1. c = d * k + g
      <4>1. c = P * (f * k) + g /\ d * k = P * (f * k)
        BY <1>1, <2>2, <2>3
      <4> QED BY <4>1
    <3>2. g \in Int /\ 0 <= g /\ g < d
      <4>1. g \in Nat
        BY <1>1, <2>3
      <4>2. (f - r) - 1 \in Nat /\ P * ((f - r) - 1) \in Nat /\ d = g + P * ((f - r) - 1) + P
        BY <1>1, <2>2, <2>3
      <4> HIDE DEF g
      <4> QED BY <1>1, <4>1, <4>2
    <3>3. c \in Int
      BY <1>1
    <3> HIDE DEF g, c
    <3>4. c \div d = k /\ c % d = g
      BY <1>1, <2>3, <3>1, <3>2, <3>3, Division
    <3> QED BY <3>4 DEF g
  <2>7. (Halves(c, t) > 0 <=> Halves(n, y) > 0) /\ (Halves(c, t) = 0 <=> Halves(n, y) = 0)
    <3> DEFINE h == 2 * r - f
    <3>1. h \in Int /\ Halves(c, t) = P * h
      <4>1. Halves(c, t) = 2 * (P * r) - P * f
        BY <1>3, <2>2, <2>6
      <4>2. 2 * (P * r) - P * f = P * (2 * r - f)
        BY <1>1, <2>2, <2>3
      <4> QED BY <2>2, <2>3, <4>1, <4>2
    <3> HIDE DEF h
    <3>2. (P * h > 0 <=> h > 0) /\ (P * h = 0 <=> h = 0)
      BY <1>1, <3>1
    <3> QED BY <2>4, <3>1, <3>2 DEF h
  <2> HIDE DEF c
  <2> QED BY <1>2, <2>5, <2>6, <2>7 DEF y
<1> QED BY <1>4, <1>5

LEMMA RoundedInteger ==
    ASSUME NEW n \in Nat, NEW t, HighestOne(n, t), NEW sign
    PROVE  Rounded(sign, n, 0)
             = FloatWord(sign, 0, (Bias + t - 1) * 2 ^ MAN + NearestEven(n * 2 ^ MAN, t))
<1> DEFINE P == 2 ^ MAN
           R == NearestEven(n * P, t)
           L == Length(n)
           last == LastPlace(n, 0)
           B == Bias
           D == last - 0
           E == 0 - last
           significand == CASE D > L -> 0
                            [] D \in 1 .. L -> NearestEven(n, D)
                            [] OTHER -> n * 2 ^ E
           magnitude == (last - Smallest) * P + significand
<1>1. /\ t \in 0 .. XLEN - 1 /\ L = t + 1 /\ n # 0 /\ t \in Int
      /\ B \in Nat /\ B >= XLEN /\ XLEN \in Nat /\ XLEN >= 10 /\ MAN \in Nat /\ MAN >= 3
      /\ P \in Nat \ {0} /\ AllOnes = 2 * B + 1
  <2>1. t \in 0 .. XLEN - 1 /\ L = t + 1
    BY LengthOf DEF HighestOne
  <2>2. 2 ^ t <= n /\ 2 ^ t \in Nat \ {0}
    BY <2>1, NextPower DEF HighestOne
  <2>3. n # 0
    <3> DEFINE d == 2 ^ t
    <3>1. d <= n /\ d \in Nat \ {0}
      BY <2>2
    <3> HIDE DEF d
    <3> QED BY <3>1
  <2> HIDE DEF L
  <2> QED BY <2>1, <2>3, ExponentSizes, FloatPowers
<1>2. R \in P .. 2 * P
  BY SignificandSize
<1> HIDE DEF L
<1>3. last = t - MAN /\ Smallest = 1 - B - MAN
  <2>1. last = Max({0 + L - (MAN + 1), Smallest}) /\ Smallest = 1 - B - MAN
    BY DEF LastPlace, Smallest, L
  <2> HIDE DEF last, B
  <2> DEFINE x == 0 + L - (MAN + 1)
  <2>2. x = t - MAN /\ x \in Int /\ Smallest \in Int /\ x >= Smallest
    BY <1>1, <2>1
  <2> HIDE DEF x
  <2>3. last = x
    BY <2>1, <2>2, MaximumOf DEF x
  <2> QED BY <2>1, <2>2, <2>3
<1> HIDE DEF last
<1>4. significand = R
  <2>1. D = t - MAN /\ E = MAN - t /\ ~(D > L)
    BY <1>1, <1>3
  <2> HIDE DEF D, E
  <2>2. CASE t > MAN
    <3>1. D \in 1 .. L
      BY <1>1, <2>1, <2>2
    <3>2. R = NearestEven(n, D)
      BY <1>1, <2>1, <2>2, SignificandOfC
    <3> HIDE DEF R
    <3> QED BY <2>1, <3>1, <3>2
  <2>3. CASE t <= MAN
    <3>1. ~(D \in 1 .. L)
      BY <1>1, <2>1, <2>3
    <3>2. R = n * 2 ^ E
      BY <1>1, <2>1, <2>3, SignificandOfC
    <3> HIDE DEF R
    <3> QED BY <2>1, <3>1, <3>2
  <2> QED BY <1>1, <2>2, <2>3
<1> HIDE DEF significand
<1>5. magnitude = (B + t - 1) * P + R
  <2>1. last - Smallest = B + t - 1
    BY <1>1, <1>3
  <2> QED BY <1>4, <2>1
<1>6. magnitude \in Int /\ magnitude <= Infinity /\ Infinity \in Int
  <2>1. Infinity = AllOnes * P
    <3>1. Infinity = 0 * 2 ^ (XLEN - 1) + AllOnes * P + 0
      BY DEF Infinity, FloatWord
    <3> DEFINE H == 2 ^ (XLEN - 1)
               y == AllOnes * P
    <3>2. H \in Nat /\ y \in Int
      BY <1>1, FloatPowers
    <3> HIDE DEF H, y
    <3>3. 0 * H = 0
      BY <3>2
    <3> QED BY <3>1, <3>2, <3>3 DEF H, y
  <2>2. (2 * B + 1) - (B + t + 1) \in Nat
    BY <1>1
  <2>3. (B + t - 1) * P + 2 * P = (B + t + 1) * P /\ (B + t - 1) * P \in Int
    BY <1>1
  <2>4. ((2 * B + 1) - (B + t + 1)) * P \in Nat
        /\ (2 * B + 1) * P = (B + t + 1) * P + ((2 * B + 1) - (B + t + 1)) * P
    BY <1>1, <2>2
  <2>5. Infinity = (2 * B + 1) * P
    BY <1>1, <2>1
  <2> DEFINE x == (B + t - 1) * P
             y == ((2 * B + 1) - (B + t + 1)) * P
             z == (B + t + 1) * P
  <2>6. x \in Int /\ y \in Nat /\ z = x + 2 * P /\ Infinity = z + y /\ magnitude = x + R
    BY <1>5, <2>3, <2>4, <2>5
  <2> HIDE DEF x, y, z, R, P, magnitude
  <2> QED BY <1>1, <1>2, <2>6
<1>7. Min({magnitude, Infinity}) = magnitude
  <2> HIDE DEF magnitude
  <2> QED BY <1>6 DEF Min
<1>8. Rounded(sign, n, 0) = FloatWord(sign, 0, Min({magnitude, Infinity}))
  <2>1. D = last - 0 /\ E = 0 - last
    OBVIOUS
  <2> QED BY <1>1 DEF Rounded, last, significand, L
<1> QED BY <1>5, <1>7, <1>8 DEF B, R, P
==============================================================================
