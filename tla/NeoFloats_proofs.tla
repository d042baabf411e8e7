-------------------------- MODULE NeoFloats_proofs ------------------------
(***************************************************************************)
(* What the floating point unit of NEORV32 computes by normalizing: floats *)
(* made of integers, products and sums of floats are those that C gives    *)
(* for their emulation, with its flags. Each part first says of numbers    *)
(* what C makes of them, then what the registers of the unit hold of them  *)
(* in each of its states, and at last that the instruction that waits gets *)
(* the answer.                                                             *)
(***************************************************************************)
EXTENDS NeoAlu_proofs

-----------------------------------------------------------------------------
(* The conversions from integers. How far a significand is from its place. *)

\* The bits of the register above the mantissa.
LEMMA UpperShifted ==
    ASSUME NEW n \in Nat, NEW t \in 0 .. XLEN - 1
    PROVE  Sticky(8 * (n * 2 ^ MAN), 2 * 2 ^ t) \div 2 ^ (MAN + 3) = n \div 2 ^ t
<1> DEFINE P == 2 ^ MAN
           d == 2 ^ t
           m == 4 * P
<1>1. P \in Nat \ {0} /\ d \in Nat \ {0} /\ 2 ^ (MAN + 3) = 8 * P
  BY FloatPowers, NextPower, RegisterWidths
<1> HIDE DEF P, d
<1>2. m \in Nat \ {0} /\ 2 * m = 8 * P /\ n * (2 * m) = 8 * (n * P)
  <2>1. n * (2 * (4 * P)) = 8 * (n * P)
    BY <1>1
  <2> QED BY <1>1, <2>1
<1> HIDE DEF m
<1>3. Sticky(n * (2 * m), 2 * d) \div (2 * m) = n \div d
  BY <1>1, <1>2, StickyAbove
<1> QED BY <1>1, <1>2, <1>3 DEF P, d

LEMMA HighestPlace ==
    ASSUME NEW n \in Nat, NEW d \in Nat \ {0}, d <= n
    PROVE  n \div d = 1 <=> n < 2 * d
<1> DEFINE q == n \div d
           r == n % d
<1>1. q \in Int /\ r \in Int /\ 0 <= r /\ r < d /\ n = d * q + r
  BY DivMod
<1> HIDE DEF q, r
<1>2. q = 1 => n < 2 * d
  BY <1>1
<1>3. q >= 2 => n >= 2 * d
  <2>1. q >= 2 => d * q >= d * 2
    BY <1>1
  <2> QED BY <1>1, <2>1
<1>4. q >= 1
  <2>1. q <= 0 => d * q <= 0
    BY <1>1
  <2> QED BY <1>1, <2>1
<1> QED BY <1>1, <1>2, <1>3, <1>4 DEF q

\* A rounded significand, and the one that the rounding carries to the next place.
LEMMA Carried ==
    ASSUME NEW R \in 2 ^ MAN .. 2 * 2 ^ MAN
    PROVE  LET upper == (8 * R) \div 2 ^ (MAN + 3)
           IN  /\ upper # 0
               /\ upper # 1 => R = 2 * 2 ^ MAN /\ ShiftedToSticky(8 * R) = 8 * 2 ^ MAN
               /\ upper = 1 => R < 2 * 2 ^ MAN
<1> DEFINE P == 2 ^ MAN
           d == 8 * P
           n == 8 * R
<1>1. P \in Nat \ {0} /\ 2 ^ (MAN + 3) = d /\ R \in P .. 2 * P
  BY FloatPowers, RegisterWidths
<1> HIDE DEF P
<1>2. d \in Nat \ {0} /\ n \in Nat /\ d <= n /\ R \in Int
  BY <1>1
<1>3. n \div d = 1 <=> n < 2 * d
  <2> HIDE DEF d, n
  <2> QED BY <1>2, HighestPlace
<1>4. n \div d # 0
  <2> HIDE DEF d, n
  <2>1. 0 <= n % d /\ n % d < d /\ n % d \in Int /\ n = d * (n \div d) + (n % d)
    BY <1>2, DivMod
  <2> DEFINE r == n % d
             q == n \div d
  <2>2. r < d /\ r \in Int /\ n = d * q + r
    BY <2>1
  <2> HIDE DEF r, q
  <2>3. q = 0 => n = r
    BY <1>2, <2>2
  <2> QED BY <1>2, <2>2, <2>3 DEF q
<1>5. n < 2 * d <=> R < 2 * P
  BY <1>1, <1>2
<1>6. ASSUME R = 2 * P PROVE ShiftedToSticky(n) = d
  <2>1. n = 16 * P
    BY <1>1, <1>6
  <2> HIDE DEF n, d
  <2>2. n \div 4 = 4 * P /\ n % 4 = 0
    <3> DEFINE q == 4 * P
    <3>1. 4 \in Nat \ {0} /\ q \in Int /\ n \in Int /\ n = 4 * q + 0 /\ 0 \in Int /\ 0 <= 0 /\ 0 < 4
      BY <1>1, <2>1
    <3> HIDE DEF q
    <3>2. n \div 4 = q /\ n % 4 = 0
      BY <3>1, Division
    <3> QED BY <3>2 DEF q
  <2>3. ShiftedToSticky(n) = 2 * (n \div 4) + (IF n % 4 = 0 THEN 0 ELSE 1)
    BY DEF ShiftedToSticky
  <2>4. ShiftedToSticky(n) = 8 * P
    BY <1>1, <2>2, <2>3
  <2> QED BY <2>4 DEF d
<1>7. R < 2 * P \/ R = 2 * P
  BY <1>1, <1>2
<1> HIDE DEF n, d
<1> QED BY <1>1, <1>3, <1>4, <1>5, <1>6, <1>7 DEF n, d, P

\* The exponent of an integer is far from both ends.
LEMMA ExponentInRange ==
    ASSUME NEW c \in Bias .. Bias + XLEN
    PROVE  /\ c \in Int /\ c \div 2 ^ (EXP - 1) \in {0, 1}
           /\ c % 2 ^ EXP = c /\ c # 0 /\ c # AllOnes
           /\ (c + 1) % 2 ^ (EXP + 1) = c + 1
<1> DEFINE B == Bias
           h == 2 ^ (EXP - 1)
           E == 2 ^ EXP
           F == 2 ^ (EXP + 1)
<1>1. /\ B \in Nat /\ B >= 10 /\ B >= XLEN /\ XLEN \in Nat /\ h = B + 1 /\ E = 2 * B + 2
      /\ AllOnes = 2 * B + 1 /\ F = 2 * E
  BY ExponentSizes, RegisterWidths
<1> HIDE DEF B, h, E, F
<1>2. c \in Int /\ B <= c /\ c <= 2 * B
  BY <1>1 DEF B
<1>3. c \div h \in {0, 1}
  <2>1. h \in Nat \ {0}
    BY <1>1
  <2>2. CASE c < h
    <3>1. c = h * 0 + c /\ 0 <= c /\ 0 \in Int
      BY <1>1, <1>2
    <3>2. c \div h = 0
      BY <1>2, <2>1, <2>2, <3>1, Division
    <3> QED BY <3>2
  <2>3. CASE c >= h
    <3> DEFINE r == c - h
    <3>1. c = h * 1 + r /\ 0 <= r /\ r \in Int /\ r < h /\ 1 \in Int
      BY <1>1, <1>2, <2>3
    <3> HIDE DEF r
    <3>2. c \div h = 1
      BY <1>2, <2>1, <3>1, Division
    <3> QED BY <3>2
  <2> QED BY <1>1, <1>2, <2>2, <2>3
<1>4. E \in Nat \ {0} /\ c \in 0 .. E - 1 /\ F \in Nat \ {0} /\ c + 1 \in 0 .. F - 1 /\ c # 0
      /\ c # AllOnes
  BY <1>1, <1>2
<1>5. c % E = c
  BY <1>4, SmallReduced
<1>6. (c + 1) % F = c + 1
  <2> DEFINE e == c + 1
  <2>1. e \in 0 .. F - 1
    BY <1>4
  <2> HIDE DEF e
  <2>2. e % F = e
    BY <1>4, <2>1, SmallReduced
  <2> QED BY <2>2 DEF e
<1> QED BY <1>2, <1>3, <1>4, <1>5, <1>6 DEF h, E, F

-----------------------------------------------------------------------------
(* The normalizer with an integer, state by state.                         *)

\* The normalizer on its way from the integer fpu.abs to a number, rounded to
\* the nearest: the highest one comes down to the hidden bit, and what is below
\* the last place goes into the sticky bit.
Scaled == fpu.abs * 2 ^ MAN
ShiftedTo(r, t) == r.cnt = Bias + t /\ r.sreg = Sticky(8 * Scaled, 2 * 2 ^ t)
AtPlace(r, t) == r.cnt = Bias + t /\ r.sreg = 8 * NearestEven(Scaled, t)
CarriedFrom(r, t) ==
    /\ r.cnt = Bias + t + 1 /\ r.sreg = 8 * 2 ^ MAN
    /\ NearestEven(Scaled, t) = 2 * 2 ^ MAN
Settled(r) == \E t : HighestOne(fpu.abs, t) /\ (AtPlace(r, t) \/ CarriedFrom(r, t))
Complete(r) == r.class = {} /\ Settled(r) /\ r.sreg \div 2 ^ (MAN + 3) = 1

Normalizing(r) ==
    /\ r.state # "S_PREPARE_NORM"
    /\ r.sign = (IF fpu.neg THEN 1 ELSE 0) /\ r.flags = {}
    /\ r.cnt \in Bias .. Bias + XLEN
    /\ r.state \in {"S_PREPARE_I2F", "S_CHECK_I2F"} => r.cnt = Bias /\ r.class = {} /\ ~r.norm_r
    /\ r.state = "S_CHECK_I2F" => ~r.left /\ r.sreg = 8 * Scaled
    /\ r.state = "S_NORMALIZE_BUSY" =>
         /\ r.class = {} /\ ~r.left
         /\ r.norm_r => Settled(r)
         /\ ~r.norm_r => \E t \in 0 .. XLEN - 1 : 2 ^ t <= fpu.abs /\ ShiftedTo(r, t)
    /\ r.state = "S_ROUND" =>
         r.class = {} /\ r.norm_r /\ \E t : HighestOne(fpu.abs, t) /\ ShiftedTo(r, t)
    /\ r.state = "S_PREPARE_SHIFT" =>
         r.class = {} /\ r.norm_r /\ \E t : HighestOne(fpu.abs, t) /\ AtPlace(r, t)
    /\ r.state = "S_CHECK" => Complete(r)
    /\ r.state = "S_FINALIZE" =>
         IF fpu.abs = 0 THEN r.class = {"pos_zero"} ELSE Complete(r)

\* The integer in the register, and whether it is 0.
LEMMA CheckNormalizes ==
    ASSUME NormalizerTypes, ControlTypes, Normalizing(norm), norm.state = "S_CHECK_I2F"
    PROVE  Normalizing(NormalizerStep)
<1> DEFINE n == fpu.abs
           P == 2 ^ MAN
           x == 8 * (n * P)
<1>1. /\ n \in Nat /\ P \in Nat \ {0} /\ 2 ^ (MAN + 3) = 8 * P /\ XLEN - 1 \in Nat
      /\ 2 ^ 0 = 1 /\ Bias \in Nat /\ Bias + 0 = Bias
  BY FloatPowers, RegisterWidths, WordRange, Powers, ExponentSizes DEF ControlTypes
<1>2. norm.sreg = x /\ norm.cnt = Bias /\ norm.class = {} /\ ~norm.norm_r /\ ~norm.left
  BY DEF Normalizing, Scaled
<1>3. Upper = n
  <2> DEFINE d == 8 * P
  <2>1. x = d * n + 0 /\ x \in Int /\ d \in Nat \ {0} /\ n \in Int /\ 0 \in Int /\ 0 <= 0 /\ 0 < d
    BY <1>1
  <2> HIDE DEF x, d
  <2>2. x \div d = n
    BY <2>1, Division
  <2> QED BY <1>1, <1>2, <2>2 DEF Upper, d
<1>4. ShiftedTo(norm, 0)
  <2> DEFINE y == 4 * (n * P)
  <2>1. x = 2 * y + 0 /\ y \in Int /\ x \in Int /\ 0 \in Int /\ 0 <= 0 /\ 0 < 2 /\ 2 \in Nat \ {0}
    <3> DEFINE z == n * P
    <3>1. z \in Nat
      BY <1>1
    <3> HIDE DEF z
    <3> QED BY <3>1 DEF z
  <2>2. x = 2 * y
    BY <2>1
  <2> HIDE DEF x, y
  <2>3. x \div 2 = y /\ x % 2 = 0
    BY <2>1, Division
  <2>4. Sticky(x, 2) = 2 * y + 0
    BY <2>3 DEF Sticky
  <2>5. Sticky(x, 2 * 1) = x
    BY <2>1, <2>2, <2>4
  <2> QED BY <1>1, <1>2, <2>5 DEF ShiftedTo, Scaled, x
<1>5. CASE n = 0
  <2> DEFINE r == [norm EXCEPT !.class = @ \union {"pos_zero"}, !.state = "S_FINALIZE"]
  <2>1. NormalizerStep = r
    BY <1>3, <1>5 DEF NormalizerStep
  <2>2. /\ r.state = "S_FINALIZE" /\ r.class = {"pos_zero"} /\ r.sign = norm.sign
        /\ r.flags = norm.flags /\ r.cnt = norm.cnt
    BY <1>2 DEF NormalizerTypes, NormalizerRecord
  <2> HIDE DEF r
  <2> QED BY <1>5, <2>1, <2>2 DEF Normalizing
<1>6. CASE n # 0
  <2> DEFINE r == [norm EXCEPT !.state = "S_NORMALIZE_BUSY"]
  <2>1. NormalizerStep = r
    BY <1>3, <1>6 DEF NormalizerStep
  <2>2. /\ r.state = "S_NORMALIZE_BUSY" /\ r.class = norm.class /\ r.sign = norm.sign
        /\ r.flags = norm.flags /\ r.cnt = norm.cnt /\ r.sreg = norm.sreg /\ r.left = norm.left
        /\ r.norm_r = norm.norm_r
    BY DEF NormalizerTypes, NormalizerRecord
  <2> HIDE DEF r
  <2>3. ShiftedTo(r, 0) /\ 2 ^ 0 <= fpu.abs /\ 0 \in 0 .. XLEN - 1
    BY <1>1, <1>4, <1>6, <2>2 DEF ShiftedTo
  <2>4. \E t \in 0 .. XLEN - 1 : 2 ^ t <= fpu.abs /\ ShiftedTo(r, t)
    BY <2>3
  <2> QED BY <1>2, <2>1, <2>2, <2>4 DEF Normalizing
<1> QED BY <1>5, <1>6

\* On the way to the highest one.
LEMMA ShiftNormalizes ==
    ASSUME NormalizerTypes, ControlTypes, Normalizing(norm), norm.state = "S_NORMALIZE_BUSY",
           ~norm.of, ~norm.uf, ~norm.norm_r
    PROVE  Normalizing(NormalizerStep)
<1> DEFINE n == fpu.abs
           c == norm.cnt
<1>1. PICK t \in 0 .. XLEN - 1 : 2 ^ t <= n /\ ShiftedTo(norm, t)
  BY DEF Normalizing
<1>2. /\ n \in Nat /\ n < 2 ^ XLEN /\ 2 ^ t \in Nat \ {0} /\ 2 ^ (t + 1) = 2 * 2 ^ t /\ t + 1 \in 0 .. XLEN
      /\ t \in Nat /\ XLEN \in Nat /\ Bias \in Nat
  BY WordRange, NextPower, ExponentSizes DEF ControlTypes, Words
<1>3. norm.sreg = Sticky(8 * Scaled, 2 * 2 ^ t) /\ c = Bias + t
      /\ norm.class = {} /\ ~norm.left /\ norm.flags = {} /\ c \in Bias .. Bias + XLEN
      /\ norm.sign = (IF fpu.neg THEN 1 ELSE 0)
  BY <1>1 DEF ShiftedTo, Normalizing
<1>4. Upper = n \div 2 ^ t
  BY <1>2, <1>3, UpperShifted DEF Upper, Scaled
<1>5. Upper = 1 <=> n < 2 ^ (t + 1)
  <2> DEFINE d == 2 ^ t
  <2>1. d \in Nat \ {0} /\ d <= n
    BY <1>1, <1>2
  <2> HIDE DEF d
  <2>2. n \div d = 1 <=> n < 2 * d
    BY <1>2, <2>1, HighestPlace
  <2> QED BY <1>2, <1>4, <2>2 DEF d
<1>6. NormalizerStep = NormalizeBusy
  BY DEF NormalizerStep
<1>7. CASE Upper = 1
  <2> DEFINE r == [norm EXCEPT !.norm_r = TRUE, !.state = "S_ROUND"]
  <2>1. NormalizerStep = r
    BY <1>6, <1>7 DEF NormalizeBusy
  <2>2. /\ r.state = "S_ROUND" /\ r.class = norm.class /\ r.sign = norm.sign
        /\ r.flags = norm.flags /\ r.cnt = norm.cnt /\ r.sreg = norm.sreg
        /\ r.norm_r = TRUE
    BY DEF NormalizerTypes, NormalizerRecord
  <2> HIDE DEF r
  <2>3. HighestOne(n, t) /\ ShiftedTo(r, t)
    BY <1>1, <1>5, <1>7, <2>2 DEF HighestOne, ShiftedTo
  <2> QED BY <1>3, <2>1, <2>2, <2>3 DEF Normalizing
<1>8. CASE Upper # 1
  <2> DEFINE s == ShiftedToSticky(norm.sreg)
             e == (c + 1) % 2 ^ (EXP + 1)
             r == [norm EXCEPT !.cnt = e, !.sreg = s]
             u == t + 1
  <2>1. NormalizerStep = r
    BY <1>3, <1>6, <1>8 DEF NormalizeBusy
  <2>2. e = c + 1
    BY <1>3, ExponentInRange
  <2>3. s = Sticky(8 * Scaled, 2 * 2 ^ u)
    <3> DEFINE y == 8 * Scaled
               d == 2 * 2 ^ t
    <3>1. y \in Nat /\ d \in Nat \ {0}
      <4>1. Scaled \in Nat
        BY <1>2, FloatPowers DEF Scaled
      <4> QED BY <1>2, <4>1
    <3> HIDE DEF y, d
    <3>2. ShiftedToSticky(Sticky(y, d)) = Sticky(y, 2 * d)
      BY <3>1, StickyShifted
    <3>3. 2 * d = 2 * 2 ^ u
      BY <1>2 DEF d
    <3> QED BY <1>3, <3>2, <3>3 DEF y, d
  <2>4. u \in 0 .. XLEN - 1 /\ 2 ^ u <= n
    <3>1. 2 ^ u <= n
      <4>1. 2 ^ u \in Nat
        BY <1>2, Powers
      <4> QED BY <1>2, <1>5, <1>8, <4>1
    <3>2. u # XLEN
      <4>1. u = XLEN => 2 ^ XLEN <= n
        BY <3>1
      <4>2. 2 ^ XLEN \in Nat
        BY FloatPowers
      <4> QED BY <1>2, <4>1, <4>2
    <3> QED BY <1>2, <3>1, <3>2
  <2> HIDE DEF e, s
  <2>5. /\ r.state = "S_NORMALIZE_BUSY" /\ r.class = norm.class /\ r.sign = norm.sign
        /\ r.flags = norm.flags /\ r.cnt = e /\ r.sreg = s /\ r.left = norm.left
        /\ r.norm_r = norm.norm_r
    BY DEF NormalizerTypes, NormalizerRecord
  <2> HIDE DEF r
  <2>6. e = Bias + u /\ e \in Bias .. Bias + XLEN
    BY <1>2, <1>3, <2>2, <2>4
  <2>7. ShiftedTo(r, u)
    BY <2>3, <2>5, <2>6 DEF ShiftedTo
  <2> HIDE DEF u
  <2> QED BY <1>3, <2>1, <2>4, <2>5, <2>6, <2>7 DEF Normalizing
<1> QED BY <1>7, <1>8

LEMMA ScaledTyped ==
    ASSUME ControlTypes
    PROVE  /\ fpu.abs \in Nat /\ Scaled \in Nat
           /\ \A t : HighestOne(fpu.abs, t) =>
                /\ t \in 0 .. XLEN - 1 /\ t \in 0 .. XLEN /\ t \in Nat
                /\ NearestEven(Scaled, t) \in 2 ^ MAN .. 2 * 2 ^ MAN
                /\ Scaled \div 2 ^ t \in 2 ^ MAN .. 2 * 2 ^ MAN - 1
<1>1. fpu.abs \in Nat /\ 2 ^ MAN \in Nat
  BY WordRange, FloatPowers DEF ControlTypes
<1>2. Scaled \in Nat
  BY <1>1 DEF Scaled
<1>3. ASSUME NEW t, HighestOne(fpu.abs, t)
      PROVE  /\ t \in 0 .. XLEN - 1 /\ t \in 0 .. XLEN /\ t \in Nat
             /\ NearestEven(Scaled, t) \in 2 ^ MAN .. 2 * 2 ^ MAN
             /\ Scaled \div 2 ^ t \in 2 ^ MAN .. 2 * 2 ^ MAN - 1
  <2>1. t \in 0 .. XLEN - 1 /\ t \in 0 .. XLEN /\ t \in Nat
    BY <1>3, NextPower DEF HighestOne
  <2>2. /\ Scaled \div 2 ^ t >= 2 ^ MAN /\ Scaled \div 2 ^ t < 2 * 2 ^ MAN
        /\ Scaled \div 2 ^ t \in Nat
        /\ NearestEven(Scaled, t) \in 2 ^ MAN .. 2 * 2 ^ MAN
    BY <1>1, <1>3, SignificandSize DEF Scaled
  <2> DEFINE k == Scaled \div 2 ^ t
             P == 2 ^ MAN
  <2>3. k \in P .. 2 * P - 1
    <3>1. k >= P /\ k < 2 * P /\ k \in Nat /\ P \in Nat
      BY <1>1, <2>2
    <3> HIDE DEF k, P
    <3> QED BY <3>1
  <2> QED BY <2>1, <2>2, <2>3
<1> QED BY <1>1, <1>2, <1>3

\* The rounding to the nearest, from the bits below the last place.
LEMMA RoundNormalizes ==
    ASSUME NormalizerTypes, ControlTypes, fpu.frm = 0, Normalizing(norm), norm.state = "S_ROUND"
    PROVE  Normalizing(NormalizerStep)
<1> DEFINE k == norm.sreg \div 8
           kept == k % 2 ^ (MAN + 1)
           step == RoundingStep(fpu.frm, kept % 2 = 1, norm.sreg % 8)
           P == 2 ^ MAN
           m == (kept + step) % 2 ^ (MAN + 2)
           s == 8 * m
           rounded == norm.rounded \/ step # 0
           r == [norm EXCEPT !.rounded = rounded, !.state = "S_PREPARE_SHIFT", !.sreg = s]
<1>1. PICK t : HighestOne(fpu.abs, t) /\ ShiftedTo(norm, t)
  BY DEF Normalizing
<1>2. /\ Scaled \in Nat /\ t \in 0 .. XLEN
      /\ NearestEven(Scaled, t) \in P .. 2 * P /\ Scaled \div 2 ^ t \in P .. 2 * P - 1
      /\ P \in Nat \ {0} /\ 2 ^ (MAN + 1) = 2 * P /\ 2 ^ (MAN + 2) = 4 * P
  BY <1>1, ScaledTyped, FloatPowers, RegisterWidths
<1>3. norm.sreg = Sticky(8 * Scaled, 2 * 2 ^ t)
  BY <1>1 DEF ShiftedTo
<1>4. k = Scaled \div 2 ^ t
  <2> DEFINE d == 2 ^ t
  <2>1. d \in Nat \ {0}
    BY <1>2, Powers
  <2> HIDE DEF d
  <2>2. Sticky(8 * Scaled, 2 * d) \div 8 = Scaled \div d
    BY <1>2, <2>1, StickyBelow
  <2> QED BY <1>3, <2>2 DEF d
<1>5. kept = k
  <2> DEFINE d == 2 ^ (MAN + 1)
  <2>1. d \in Nat \ {0} /\ k \in 0 .. d - 1
    <3>1. k \in P .. 2 * P - 1
      BY <1>2, <1>4
    <3> HIDE DEF k, P
    <3> QED BY <1>2, <3>1
  <2> HIDE DEF d, k
  <2>2. k % d = k
    BY <2>1, SmallReduced
  <2> QED BY <2>2 DEF d
<1>6. kept + step = NearestEven(Scaled, t)
  <2> DEFINE x == norm.sreg
  <2>1. x = Sticky(8 * Scaled, 2 * 2 ^ t)
    BY <1>3
  <2> HIDE DEF x
  <2>2. x \div 8 + RoundingStep(0, (x \div 8) % 2 = 1, x % 8) = NearestEven(Scaled, t)
    BY <1>2, <2>1, NearestEvenOf
  <2> QED BY <1>5, <2>2 DEF x
<1>7. m = NearestEven(Scaled, t)
  <2> DEFINE R == NearestEven(Scaled, t)
             d == 2 ^ (MAN + 2)
  <2>1. d \in Nat \ {0} /\ R \in 0 .. d - 1
    <3>1. R \in P .. 2 * P
      BY <1>2
    <3> HIDE DEF R, P
    <3> QED BY <1>2, <3>1
  <2> HIDE DEF R, d
  <2>2. R % d = R
    BY <2>1, SmallReduced
  <2> QED BY <1>6, <2>2 DEF R, d
<1>8. NormalizerStep = r
  BY DEF NormalizerStep, Rounding
<1>9. s = 8 * NearestEven(Scaled, t)
  BY <1>7
<1> HIDE DEF s, rounded
<1>10. /\ r.state = "S_PREPARE_SHIFT" /\ r.class = norm.class /\ r.sign = norm.sign
       /\ r.flags = norm.flags /\ r.cnt = norm.cnt /\ r.sreg = s /\ r.norm_r = norm.norm_r
  BY DEF NormalizerTypes, NormalizerRecord
<1> HIDE DEF r
<1>11. AtPlace(r, t)
  BY <1>1, <1>9, <1>10 DEF ShiftedTo, AtPlace
<1> QED BY <1>1, <1>8, <1>10, <1>11 DEF Normalizing

LEMMA PlaceNormalizes ==
    ASSUME NormalizerTypes, ControlTypes, Normalizing(norm), norm.state = "S_PREPARE_SHIFT"
    PROVE  Normalizing(NormalizerStep)
<1> DEFINE left == (Upper = 0)
           r == [norm EXCEPT !.left = left, !.state = "S_NORMALIZE_BUSY"]
<1>1. PICK t : HighestOne(fpu.abs, t) /\ AtPlace(norm, t)
  BY DEF Normalizing
<1>2. left = FALSE
  <2> DEFINE R == NearestEven(Scaled, t)
  <2>1. R \in 2 ^ MAN .. 2 * 2 ^ MAN
    BY <1>1, ScaledTyped
  <2>2. norm.sreg = 8 * R
    BY <1>1 DEF AtPlace
  <2> HIDE DEF R
  <2> QED BY <2>1, <2>2, Carried DEF Upper
<1>3. NormalizerStep = r
  BY DEF NormalizerStep
<1> HIDE DEF left
<1>4. /\ r.state = "S_NORMALIZE_BUSY" /\ r.class = norm.class /\ r.sign = norm.sign
      /\ r.flags = norm.flags /\ r.cnt = norm.cnt /\ r.sreg = norm.sreg /\ r.left = left
      /\ r.norm_r = norm.norm_r
  BY DEF NormalizerTypes, NormalizerRecord
<1> HIDE DEF r
<1>5. Settled(r)
  BY <1>1, <1>4 DEF AtPlace, Settled
<1> QED BY <1>2, <1>3, <1>4, <1>5 DEF Normalizing

\* Of a significand that the rounding has carried: one place more.
LEMMA SettledNormalizes ==
    ASSUME NormalizerTypes, ControlTypes, Normalizing(norm), norm.state = "S_NORMALIZE_BUSY",
           ~norm.of, ~norm.uf, norm.norm_r
    PROVE  Normalizing(NormalizerStep)
<1> DEFINE c == norm.cnt
           P == 2 ^ MAN
<1>1. PICK t : HighestOne(fpu.abs, t) /\ (AtPlace(norm, t) \/ CarriedFrom(norm, t))
  BY DEF Normalizing, Settled
<1>2. NormalizerStep = NormalizeBusy /\ norm.class = {} /\ ~norm.left /\ c \in Bias .. Bias + XLEN
  BY DEF NormalizerStep, Normalizing
<1>3. /\ NearestEven(Scaled, t) \in P .. 2 * P /\ t \in 0 .. XLEN - 1 /\ P \in Nat \ {0}
      /\ Bias \in Nat /\ XLEN \in Nat
  BY <1>1, ScaledTyped, FloatPowers, ExponentSizes
<1>4. CASE Upper = 1
  <2> DEFINE r == [norm EXCEPT !.norm_r = TRUE, !.state = "S_CHECK"]
  <2>1. NormalizerStep = r
    BY <1>2, <1>4 DEF NormalizeBusy
  <2>2. /\ r.state = "S_CHECK" /\ r.class = norm.class /\ r.sign = norm.sign
        /\ r.flags = norm.flags /\ r.cnt = norm.cnt /\ r.sreg = norm.sreg
    BY DEF NormalizerTypes, NormalizerRecord
  <2> HIDE DEF r
  <2>3. Complete(r)
    BY <1>1, <1>2, <1>4, <2>2 DEF Complete, Settled, AtPlace, CarriedFrom, Upper
  <2> QED BY <2>1, <2>2, <2>3 DEF Normalizing
<1>5. CASE Upper # 1
  <2> DEFINE s == ShiftedToSticky(norm.sreg)
             e == (c + 1) % 2 ^ (EXP + 1)
             r == [norm EXCEPT !.cnt = e, !.sreg = s]
             R == NearestEven(Scaled, t)
  <2>1. NormalizerStep = r
    BY <1>2, <1>5 DEF NormalizeBusy
  <2>2. e = c + 1
    BY <1>2, ExponentInRange
  <2>3. ~CarriedFrom(norm, t)
    <3> SUFFICES ASSUME CarriedFrom(norm, t) PROVE FALSE
      OBVIOUS
    <3>1. norm.sreg = 8 * P /\ P \in P .. 2 * P
      BY <1>3 DEF CarriedFrom
    <3>2. (8 * P) \div 2 ^ (MAN + 3) # 1 => P = 2 * P
      BY <3>1, Carried
    <3> HIDE DEF P
    <3> QED BY <1>3, <1>5, <3>1, <3>2 DEF Upper
  <2>4. AtPlace(norm, t)
    BY <1>1, <2>3
  <2>5. R = 2 * P /\ s = 8 * P
    <3>1. norm.sreg = 8 * R
      BY <2>4 DEF AtPlace
    <3>2. (8 * R) \div 2 ^ (MAN + 3) # 1
      BY <1>5, <3>1 DEF Upper
    <3> HIDE DEF R
    <3> QED BY <1>3, <3>1, <3>2, Carried DEF R
  <2> HIDE DEF e, s
  <2>6. /\ r.state = "S_NORMALIZE_BUSY" /\ r.class = norm.class /\ r.sign = norm.sign
        /\ r.flags = norm.flags /\ r.cnt = e /\ r.sreg = s /\ r.left = norm.left
        /\ r.norm_r = norm.norm_r
    BY DEF NormalizerTypes, NormalizerRecord
  <2> HIDE DEF r
  <2>7. c = Bias + t
    BY <2>4 DEF AtPlace
  <2>8. e = Bias + t + 1 /\ e \in Bias .. Bias + XLEN
    BY <1>3, <2>2, <2>7
  <2>9. CarriedFrom(r, t)
    BY <2>5, <2>6, <2>8 DEF CarriedFrom
  <2>10. Settled(r)
    BY <1>1, <2>9 DEF Settled
  <2> QED BY <1>2, <2>1, <2>6, <2>8, <2>10 DEF Normalizing
<1> QED BY <1>4, <1>5

\* No exponent of an integer is out of range.
LEMMA RangeNormalizes ==
    ASSUME NormalizerTypes, ControlTypes, Normalizing(norm), norm.state = "S_CHECK",
           ~norm.of, ~norm.uf
    PROVE  Normalizing(NormalizerStep)
<1> DEFINE flags == norm.flags \union RangeFlags
           r == [norm EXCEPT !.flags = flags, !.state = "S_FINALIZE"]
<1>1. norm.flags = {} /\ norm.cnt \in Bias .. Bias + XLEN /\ Complete(norm)
  BY DEF Normalizing
<1>2. RangeFlags = {}
  <2>1. norm.cnt % 2 ^ EXP # 0 /\ norm.cnt % 2 ^ EXP # AllOnes
    BY <1>1, ExponentInRange
  <2> QED BY <2>1 DEF RangeFlags
<1>3. flags = {} /\ NormalizerStep = r
  BY <1>1, <1>2 DEF NormalizerStep
<1> HIDE DEF flags
<1>4. /\ r.state = "S_FINALIZE" /\ r.class = norm.class /\ r.sign = norm.sign
      /\ r.flags = flags /\ r.cnt = norm.cnt /\ r.sreg = norm.sreg
  BY DEF NormalizerTypes, NormalizerRecord
<1> HIDE DEF r
<1>5. Complete(r)
  BY <1>1, <1>4 DEF Complete, Settled, AtPlace, CarriedFrom
<1>6. fpu.abs # 0
  <2>1. PICK t : HighestOne(fpu.abs, t)
    BY <1>1 DEF Complete, Settled
  <2> DEFINE d == 2 ^ t
  <2>2. d <= fpu.abs /\ d \in Nat \ {0}
    BY <2>1, NextPower DEF HighestOne
  <2> HIDE DEF d
  <2> QED BY <2>2
<1> QED BY <1>1, <1>3, <1>4, <1>5, <1>6 DEF Normalizing

\* The word that the normalizer ends with is the number that C makes of the integer.
LEMMA FinalNormalizes ==
    ASSUME NormalizerTypes, ControlTypes, Normalizing(norm), norm.state = "S_FINALIZE",
           fpu.abs = 0 => ~fpu.neg
    PROVE  FinalWord = Rounded(IF fpu.neg THEN 1 ELSE 0, fpu.abs, 0)
<1> DEFINE sign == IF fpu.neg THEN 1 ELSE 0
           P == 2 ^ MAN
           H == 2 ^ (XLEN - 1)
           B == Bias
<1>1. norm.sign = sign /\ norm.flags = {} /\ norm.cnt \in B .. B + XLEN
  BY DEF Normalizing
<1>2. CASE fpu.abs = 0
  <2>1. norm.class = {"pos_zero"} /\ sign = 0
    BY <1>2 DEF Normalizing
  <2>2. FinalWord = FloatWord(0, 0, 0)
    BY <1>1, <2>1 DEF FinalWord, NaNs, Infinities, Zeros
  <2>3. Rounded(0, 0, 0) = FloatWord(0, 0, 0)
    BY DEF Rounded
  <2> QED BY <1>2, <2>1, <2>2, <2>3
<1>3. CASE fpu.abs # 0
  <2>1. Complete(norm)
    BY <1>3 DEF Normalizing
  <2>2. PICK t : HighestOne(fpu.abs, t) /\ (AtPlace(norm, t) \/ CarriedFrom(norm, t))
    BY <2>1 DEF Complete, Settled
  <2> DEFINE R == NearestEven(Scaled, t)
             c == norm.cnt
  <2>3. norm.class = {} /\ Upper = 1
    BY <2>1 DEF Complete, Upper
  <2>4. FinalWord = FloatWord(norm.sign, c % 2 ^ EXP, Lower)
    BY <1>1, <2>3 DEF FinalWord
  <2>5. c % 2 ^ EXP = c
    BY <1>1, ExponentInRange
  <2>6. /\ R \in P .. 2 * P /\ t \in Nat /\ P \in Nat \ {0} /\ H \in Nat /\ B \in Nat
        /\ 2 ^ (MAN + 3) = 8 * P
    BY <2>2, ScaledTyped, FloatPowers, ExponentSizes, RegisterWidths
  <2>7. \/ c = B + t /\ norm.sreg = 8 * R
        \/ c = B + t + 1 /\ R = 2 * P /\ norm.sreg = 8 * P
    BY <2>2 DEF AtPlace, CarriedFrom
  <2>8. Rounded(sign, fpu.abs, 0) = FloatWord(sign, 0, (B + t - 1) * P + R)
    BY <2>2, ScaledTyped, RoundedInteger DEF Scaled
  <2>9. ASSUME NEW x \in P .. 2 * P, norm.sreg = 8 * x
        PROVE  x < 2 * P /\ Lower = x - P
    <3>1. x < 2 * P
      <4>1. (8 * x) \div 2 ^ (MAN + 3) = 1
        BY <2>3, <2>9 DEF Upper
      <4> HIDE DEF R
      <4> QED BY <2>9, <4>1, Carried
    <3>2. Lower = ((8 * x) \div 8) % P
      BY <2>9 DEF Lower
    <3> DEFINE r == x - P
               y == 8 * x
    <3>3. /\ x = P * 1 + r /\ r \in Int /\ 0 <= r /\ r < P /\ x \in Int /\ 1 \in Int
          /\ y = 8 * x + 0 /\ y \in Int /\ 0 \in Int /\ 0 <= 0 /\ 0 < 8 /\ 8 \in Nat \ {0}
      <4> HIDE DEF P
      <4> QED BY <2>6, <2>9, <3>1
    <3> HIDE DEF P, r, y
    <3>4. x % P = r
      <4> DEFINE one == 1
      <4>1. x = P * one + r /\ one \in Int
        BY <3>3
      <4> HIDE DEF one
      <4>2. /\ P \in Nat \ {0} /\ r \in Int /\ 0 <= r /\ r < P /\ x \in Int
        BY <2>6, <3>3
      <4> QED BY <4>1, <4>2, Division
    <3>5. y \div 8 = x
      BY <3>3, Division
    <3> QED BY <3>1, <3>2, <3>4, <3>5 DEF r, y
  <2>10. c * P + Lower = (B + t - 1) * P + R /\ Lower \in Int /\ c \in Int
    <3> DEFINE z == (B + t - 1) * P
    <3>1. (B + t) * P = z + P /\ (B + t + 1) * P = z + 2 * P /\ z \in Int
      <4> HIDE DEF B, P
      <4> QED BY <2>6
    <3>2. P \in P .. 2 * P
      <4> HIDE DEF P
      <4> QED BY <2>6
    <3>3. CASE c = B + t /\ norm.sreg = 8 * R
      <4>1. Lower = R - P
        BY <2>6, <2>9, <3>3
      <4>2. c * P = z + P
        BY <3>1, <3>3
      <4> HIDE DEF R, z, P, B
      <4> QED BY <2>6, <3>1, <3>3, <4>1, <4>2 DEF z
    <3>4. CASE c = B + t + 1 /\ R = 2 * P /\ norm.sreg = 8 * P
      <4>1. Lower = P - P
        BY <2>9, <3>2, <3>4
      <4>2. c * P = z + 2 * P
        BY <3>1, <3>4
      <4> HIDE DEF R, z, P, B
      <4> QED BY <2>6, <3>1, <3>4, <4>1, <4>2 DEF z
    <3> QED BY <2>7, <3>3, <3>4
  <2>11. FloatWord(sign, c, Lower) = FloatWord(sign, 0, (B + t - 1) * P + R)
    <3> DEFINE m == (B + t - 1) * P + R
               x == c * P
    <3>1. /\ FloatWord(sign, c, Lower) = sign * H + x + Lower
          /\ FloatWord(sign, 0, m) = sign * H + 0 * P + m
      BY DEF FloatWord
    <3> HIDE DEF R
    <3>2. sign * H \in Int /\ x \in Int /\ 0 * P = 0 /\ m \in Int
      BY <2>6, <2>10
    <3>3. x + Lower = m
      BY <2>10
    <3> DEFINE h == sign * H
    <3> HIDE DEF h, x, m
    <3>4. h + x + Lower = h + 0 + m
      BY <2>10, <3>2, <3>3 DEF h
    <3> QED BY <3>1, <3>2, <3>4 DEF h, m
  <2> QED BY <1>1, <2>4, <2>5, <2>8, <2>11
<1> QED BY <1>2, <1>3

\* One period of the normalizer.
LEMMA NormalizerSteps ==
    ASSUME NormalizerTypes, ControlTypes, fpu.frm = 0, norm.state # "S_IDLE",
           Normalizing(norm), ~norm.of, ~norm.uf
    PROVE  /\ norm.state # "S_FINALIZE" => Normalizing(NormalizerStep)
           /\ norm.state = "S_FINALIZE" =>
                NormalizerStep.result = FinalWord /\ NormalizerStep.state = "S_IDLE"
<1>1. CASE norm.state = "S_PREPARE_I2F"
  <2> DEFINE s == fpu.abs * 2 ^ (MAN + 3)
             r == [norm EXCEPT !.sreg = s, !.left = FALSE, !.state = "S_CHECK_I2F"]
  <2>1. NormalizerStep = r
    BY <1>1 DEF NormalizerStep
  <2>2. s = 8 * Scaled
    <3> DEFINE P == 2 ^ MAN
    <3>1. fpu.abs \in Nat /\ P \in Nat /\ 2 ^ (MAN + 3) = 8 * P
      BY ScaledTyped, FloatPowers, RegisterWidths
    <3> HIDE DEF P
    <3> QED BY <3>1 DEF Scaled, P
  <2> HIDE DEF s
  <2>3. /\ r.state = "S_CHECK_I2F" /\ r.class = norm.class /\ r.sign = norm.sign /\ r.left = FALSE
        /\ r.flags = norm.flags /\ r.cnt = norm.cnt /\ r.sreg = s /\ r.norm_r = norm.norm_r
    BY DEF NormalizerTypes, NormalizerRecord
  <2> HIDE DEF r
  <2>4. Normalizing(r)
    BY <1>1, <2>2, <2>3 DEF Normalizing
  <2> QED BY <1>1, <2>1, <2>4
<1>2. CASE norm.state = "S_FINALIZE"
  <2>1. NormalizerStep = [norm EXCEPT !.result = FinalWord, !.flags = FinalFlags, !.state = "S_IDLE"]
    BY <1>2 DEF NormalizerStep
  <2>2. NormalizerStep.result = FinalWord /\ NormalizerStep.state = "S_IDLE"
    BY <2>1 DEF NormalizerTypes, NormalizerRecord
  <2> QED BY <1>2, <2>2
<1>3. norm.state \in {"S_PREPARE_I2F", "S_CHECK_I2F", "S_PREPARE_SHIFT", "S_NORMALIZE_BUSY",
                      "S_ROUND", "S_CHECK", "S_FINALIZE"}
  BY DEF Normalizing, NormalizerTypes, NormalizerRecord
<1>4. CASE norm.state = "S_CHECK_I2F"
  BY <1>4, CheckNormalizes
<1>5. CASE norm.state = "S_PREPARE_SHIFT"
  BY <1>5, PlaceNormalizes
<1>6. CASE norm.state = "S_NORMALIZE_BUSY"
  BY <1>6, ShiftNormalizes, SettledNormalizes
<1>7. CASE norm.state = "S_ROUND"
  BY <1>7, RoundNormalizes
<1>8. CASE norm.state = "S_CHECK"
  BY <1>8, RangeNormalizes
<1> QED BY <1>1, <1>2, <1>3, <1>4, <1>5, <1>6, <1>7, <1>8

\* It starts with an integer, and no number that it counts to is out of range.
LEMMA NormalizerTakes ==
    ASSUME NormalizerTypes, fpu.op = "i2f", norm.state = "S_IDLE"
    PROVE  /\ NormalizerStep.state # "S_IDLE" => Normalizing(NormalizerStep)
           /\ NormalizerStep.result = norm.result
<1> DEFINE idle == [norm EXCEPT !.norm_r = FALSE, !.rounded = FALSE]
           sign == IF fpu.neg THEN 1 ELSE 0
           B == Bias
           r == [idle EXCEPT !.state = "S_PREPARE_I2F", !.cnt = B, !.sign = sign, !.class = {},
                             !.flags = {}]
<1>1. NormalizerStep \in {idle, r}
  <2>1. NormalizerInput = [state |-> "S_PREPARE_I2F", cnt |-> B, sign |-> sign, class |-> {},
                           flags |-> {}]
    BY DEF NormalizerInput
  <2> QED BY <2>1 DEF NormalizerStep
<1>2. /\ idle.state = "S_IDLE" /\ idle.result = norm.result /\ ~idle.norm_r
      /\ {"state", "norm_r", "cnt", "cnt_pre", "of", "uf", "rounded", "sign", "class", "flags",
          "sreg", "left", "result", "done"} \subseteq DOMAIN idle
  BY DEF NormalizerTypes, NormalizerRecord
<1>3. B \in Bias .. Bias + XLEN
  BY ExponentSizes
<1> HIDE DEF idle, sign, B
<1>4. /\ r.state = "S_PREPARE_I2F" /\ r.cnt = B /\ r.sign = sign /\ r.class = {} /\ r.flags = {}
      /\ ~r.norm_r /\ r.result = norm.result
  BY <1>2
<1> HIDE DEF r
<1>5. Normalizing(r)
  BY <1>3, <1>4 DEF Normalizing, sign, B
<1> QED BY <1>1, <1>2, <1>4, <1>5

\* The integer that an instruction converts: its sign and its size.
NumberSign == IF Negates(instr, rs.rs1) THEN 1 ELSE 0
NumberSize == IF Negates(instr, rs.rs1) THEN (-rs.rs1) % 2 ^ XLEN ELSE rs.rs1

\* The converter from integers at work and its result, as long as no trapped
\* instruction has left one of the co-processors running.
NumberHeld ==
    /\ fpu.busy => fpu.neg = Negates(instr, rs.rs1) /\ fpu.abs = NumberSize
    /\ fpu.op = "i2f" /\ fpu.frm = 0 /\ norm.state # "S_IDLE" =>
         Normalizing(norm) /\ ~norm.of /\ ~norm.uf
    /\ norm.done \/ fpu.valid =>
         (fpu.op = "i2f" /\ fpu.frm = 0 => norm.result = Rounded(NumberSign, NumberSize, 0))

\* A negative integer is at least 1 in size.
LEMMA NegativeSize ==
    ASSUME NEW w \in Words
    PROVE  /\ SignOf(w) = 1 <=> Bit(w, XLEN - 1) = 1
           /\ Bit(w, XLEN - 1) = 1 => (-w) % 2 ^ XLEN = 2 ^ XLEN - w /\ 2 ^ XLEN - w > 0
<1> DEFINE W == 2 ^ XLEN
           H == 2 ^ (XLEN - 1)
<1>1. W \in Nat \ {0} /\ H \in Nat \ {0} /\ W = 2 * H /\ w \in 0 .. W - 1
  BY FloatPowers DEF Words
<1>2. SignOf(w) = Bit(w, XLEN - 1)
  BY DEF SignOf
<1>3. ASSUME SignOf(w) = 1 PROVE w >= H
  <2>1. Magnitude(w) \in Nat /\ w = SignOf(w) * H + Magnitude(w)
    BY FloatParts
  <2> HIDE DEF H
  <2> QED BY <1>1, <1>3, <2>1
<1>4. ASSUME SignOf(w) = 1 PROVE (-w) % W = W - w /\ W - w > 0
  <2> DEFINE r == W - w
             n == -w
             minus == -1
  <2>1. n = W * minus + r /\ n \in Int /\ minus \in Int /\ r \in Int /\ 0 <= r /\ r < W /\ r > 0
    <3> HIDE DEF W, H
    <3> QED BY <1>1, <1>3, <1>4
  <2> HIDE DEF W, n, r, minus
  <2>2. n % W = r
    BY <1>1, <2>1, Division
  <2> QED BY <2>1, <2>2 DEF n, r
<1> QED BY <1>2, <1>4

LEMMA SizeOfNumber ==
    ASSUME Operands
    PROVE  NumberSize = 0 => ~Negates(instr, rs.rs1)
<1> SUFFICES ASSUME Negates(instr, rs.rs1) PROVE NumberSize # 0
  OBVIOUS
<1> DEFINE w == rs.rs1
<1>1. w \in Words /\ Bit(w, XLEN - 1) = 1 /\ NumberSize = (-w) % 2 ^ XLEN
  BY DEF Operands, Negates, NumberSize
<1> HIDE DEF w
<1> DEFINE r == 2 ^ XLEN - w
<1>2. NumberSize = r /\ r > 0
  BY <1>1, NegativeSize
<1>3. r \in Int
  BY <1>1, FloatPowers, WordRange
<1> HIDE DEF r
<1> QED BY <1>2, <1>3

\* The registers that take the sign and the size are written in every period.
LEMMA NumberTaken ==
    ASSUME ControlTypes, Clock
    PROVE  fpu'.neg = Negates(instr, rs.rs1) /\ fpu'.abs = NumberSize
<1> DEFINE control == ControlEngine(Start("fpu"), instr, rs.rs1 = rs.rs2,
                                    LessThan(rs.rs1, rs.rs2), rs.rs1, rs.rs2)
           Fields == {"busy", "after", "valid", "op", "equal", "less", "frm", "a", "b", "sub",
                      "neg", "abs", "result", "flags"}
           neg == Negates(instr, rs.rs1)
<1>1. \E flags, abs, sub :
        fpu' = [control EXCEPT !.result = OutputGate(instr), !.flags = flags, !.neg = neg,
                               !.abs = abs, !.sub = sub]
  BY DEF Clock, CoProcessorsClock, FpuClock
<1>2. Fields \subseteq DOMAIN control
  BY DEF ControlTypes, ControlEngine
<1> HIDE DEF control, neg
<1>3. fpu'.neg = neg
  BY <1>1, <1>2
<1> QED BY <1>3, ControllerFields DEF neg, NumberSize

\* What an edge writes to the normalizer besides its step.
LEMMA NormalizerEdge ==
    ASSUME NormalizerTypes, ControlTypes, AdderTypes, Clock
    PROVE  /\ norm'.state = NormalizerStep.state /\ norm'.norm_r = NormalizerStep.norm_r
           /\ norm'.cnt = NormalizerStep.cnt /\ norm'.sign = NormalizerStep.sign
           /\ norm'.class = NormalizerStep.class /\ norm'.flags = NormalizerStep.flags
           /\ norm'.sreg = NormalizerStep.sreg /\ norm'.left = NormalizerStep.left
           /\ norm'.result = NormalizerStep.result
           /\ norm.state = "S_IDLE" => ~norm'.of /\ ~norm'.uf
           /\ norm.state # "S_IDLE" /\ norm.cnt \in Bias .. Bias + XLEN /\ ~norm.of /\ ~norm.uf =>
                ~norm'.of /\ ~norm'.uf
<1> DEFINE r == NormalizerStep
           high(n) == n \div 2 ^ (EXP - 1)
           pre == [r EXCEPT !.cnt_pre = norm.cnt]
           of == norm.state # "S_IDLE" /\ (pre.of \/ (high(norm.cnt_pre) = 1 /\ high(norm.cnt) = 2))
           uf == norm.state # "S_IDLE" /\ (pre.uf \/ (high(norm.cnt_pre) = 0 /\ high(norm.cnt) = 3))
<1>1. /\ {"state", "norm_r", "cnt", "cnt_pre", "of", "uf", "rounded", "sign", "class", "flags",
          "sreg", "left", "result", "done"} \subseteq DOMAIN r
  BY NormalizerStepTyped DEF NormalizerRecord
<1>2. norm.state # "S_IDLE" => r.of = norm.of /\ r.uf = norm.uf
  BY DEF NormalizerStep, NormalizeBusy, Rounding, NormalizerTypes, NormalizerRecord
<1>3. \E done : norm' = [r EXCEPT !.cnt_pre = norm.cnt, !.of = of, !.uf = uf, !.done = done]
  <2>1. NormalizerClock
    BY DEF Clock, CoProcessorsClock, FpuClock
  <2>2. [pre EXCEPT !.of = of].uf = pre.uf
    OBVIOUS
  <2> QED BY <2>1, <2>2 DEF NormalizerClock
<1>4. pre.of = r.of /\ pre.uf = r.uf
  BY <1>1
<1>5. norm.cnt \in Bias .. Bias + XLEN => high(norm.cnt) # 2 /\ high(norm.cnt) # 3
  BY ExponentInRange
<1>6. norm.state = "S_IDLE" => ~of /\ ~uf
  OBVIOUS
<1>7. norm.state # "S_IDLE" /\ norm.cnt \in Bias .. Bias + XLEN /\ ~norm.of /\ ~norm.uf => ~of /\ ~uf
  BY <1>2, <1>4, <1>5
<1> HIDE DEF of, uf, r
<1>8. /\ norm'.state = r.state /\ norm'.norm_r = r.norm_r
      /\ norm'.cnt = r.cnt /\ norm'.sign = r.sign
      /\ norm'.class = r.class /\ norm'.flags = r.flags
      /\ norm'.sreg = r.sreg /\ norm'.left = r.left
      /\ norm'.result = r.result /\ norm'.of = of /\ norm'.uf = uf
  BY <1>1, <1>3
<1> QED BY <1>6, <1>7, <1>8 DEF r

LEMMA NumberHeldStep ==
    ASSUME IInv, Awaited, Operands, Typed, NumberHeld, Clock, ~abandoned'
    PROVE  NumberHeld'
<1>1. /\ ControlTypes /\ AdderTypes /\ NormalizerTypes /\ Phases /\ Controlled /\ Shapes
      /\ FpuInvariant
  BY DEF Typed, IInv
<1>2. /\ norm'.done = (norm.state = "S_FINALIZE")
      /\ norm.state = "S_IDLE" /\ ~NormalizerStarts => norm'.state = "S_IDLE"
  BY <1>1, NormalizerStates
<1>3. fpu'.neg = Negates(instr, rs.rs1) /\ fpu'.abs = NumberSize
  BY <1>1, NumberTaken
<1>4. ASSUME state = "ALU_WAIT"
      PROVE  /\ Negates(instr, rs.rs1)' = Negates(instr, rs.rs1)
             /\ NumberSize' = NumberSize /\ NumberSign' = NumberSign
  <2>1. instr' = instr /\ rs' = rs
    BY <1>1, <1>4, Waiting DEF instr
  <2> QED BY <2>1 DEF NumberSize, NumberSign
<1>5. CASE ~fpu.busy
  <2>1. /\ norm.state = "S_IDLE" /\ ~NormalizerStarts
    <3>1. fpu.after \in 0 .. 4
      BY <1>1 DEF ControlTypes
    <3> QED BY <1>1, <1>5, <3>1 DEF Phases, NormalizerStarts
  <2>2. norm'.state = "S_IDLE" /\ ~norm'.done /\ ~fpu'.valid
    BY <1>1, <1>2, <1>5, <2>1, FpuRecord
  <2>3. fpu'.busy => state = "ALU_WAIT"
    <3>1. fpu'.busy => Start("fpu")
      BY <1>1, <1>5, FpuRecord
    <3> QED BY <3>1 DEF Awaited, Start
  <2>4. fpu'.busy => fpu'.neg = Negates(instr, rs.rs1)' /\ fpu'.abs = NumberSize'
    BY <1>3, <1>4, <2>3
  <2> QED BY <2>2, <2>4 DEF NumberHeld
<1>6. CASE fpu.busy
  <2>1. state = "ALU_WAIT"
    BY <1>6 DEF Awaited, Working
  <2>2. /\ Negates(instr, rs.rs1)' = Negates(instr, rs.rs1)
        /\ NumberSize' = NumberSize /\ NumberSign' = NumberSign
    BY <1>4, <2>1
  <2>3. fpu.neg = Negates(instr, rs.rs1) /\ fpu.abs = NumberSize
    BY <1>6 DEF NumberHeld
  <2>4. fpu'.neg = fpu.neg /\ fpu'.abs = fpu.abs
    BY <1>3, <2>3
  <2>5. fpu'.op = fpu.op /\ fpu'.frm = fpu.frm
    BY <1>1, <1>6, ControllerFields
  <2> DEFINE r == NormalizerStep
  <2>6. /\ norm'.state = r.state /\ norm'.norm_r = r.norm_r /\ norm'.cnt = r.cnt
        /\ norm'.sign = r.sign /\ norm'.class = r.class /\ norm'.flags = r.flags
        /\ norm'.sreg = r.sreg /\ norm'.left = r.left /\ norm'.result = r.result
        /\ norm.state = "S_IDLE" => ~norm'.of /\ ~norm'.uf
        /\ norm.state # "S_IDLE" /\ norm.cnt \in Bias .. Bias + XLEN /\ ~norm.of /\ ~norm.uf =>
             ~norm'.of /\ ~norm'.uf
    BY <1>1, NormalizerEdge
  <2>7. ASSUME fpu.op = "i2f", norm.state = "S_IDLE"
        PROVE  (r.state # "S_IDLE" => Normalizing(r)) /\ r.result = norm.result
    BY <1>1, <2>7, NormalizerTakes
  <2>8. ASSUME fpu.op = "i2f", fpu.frm = 0, norm.state # "S_IDLE"
        PROVE  /\ Normalizing(norm) /\ ~norm.of /\ ~norm.uf
               /\ norm.state # "S_FINALIZE" => Normalizing(r)
               /\ norm.state = "S_FINALIZE" => r.result = FinalWord /\ r.state = "S_IDLE"
    <3>1. Normalizing(norm) /\ ~norm.of /\ ~norm.uf
      BY <2>8 DEF NumberHeld
    <3> QED BY <1>1, <2>8, <3>1, NormalizerSteps
  <2> HIDE DEF r
  <2>9. Normalizing(r) => Normalizing(norm)'
    <3>1. Scaled' = Scaled
      BY <2>4 DEF Scaled
    <3> QED BY <2>4, <2>6, <3>1
          DEF Normalizing, Complete, Settled, AtPlace, CarriedFrom, ShiftedTo, HighestOne
  <2>10. ASSUME fpu'.op = "i2f", fpu'.frm = 0, norm'.state # "S_IDLE"
         PROVE  Normalizing(norm)' /\ ~norm'.of /\ ~norm'.uf
    <3>1. CASE norm.state = "S_IDLE"
      BY <2>5, <2>6, <2>7, <2>9, <2>10, <3>1
    <3>2. CASE norm.state # "S_IDLE"
      <4>1. norm.cnt \in Bias .. Bias + XLEN
        BY <2>5, <2>8, <2>10, <3>2 DEF Normalizing
      <4> QED BY <2>5, <2>6, <2>8, <2>9, <2>10, <3>2, <4>1
    <3> QED BY <3>1, <3>2
  <2>11. ASSUME norm'.done \/ fpu'.valid, fpu'.op = "i2f", fpu'.frm = 0
         PROVE  norm'.result = Rounded(NumberSign, NumberSize, 0)'
    <3>1. CASE norm'.done
      <4>1. norm.state = "S_FINALIZE"
        BY <1>2, <3>1
      <4>2. norm'.result = FinalWord /\ Normalizing(norm)
        BY <2>5, <2>6, <2>8, <2>11, <4>1
      <4>3. fpu.abs = 0 => ~fpu.neg
        BY <2>3, SizeOfNumber
      <4>4. FinalWord = Rounded(IF fpu.neg THEN 1 ELSE 0, fpu.abs, 0)
        BY <1>1, <4>1, <4>2, <4>3, FinalNormalizes
      <4>5. (IF fpu.neg THEN 1 ELSE 0) = NumberSign
        BY <2>3 DEF NumberSign
      <4> QED BY <2>2, <2>3, <4>2, <4>4, <4>5
    <3>2. CASE fpu'.valid
      <4>1. CoreDone(instr)
        <5>1. fpu'.busy = ~CoreDone(instr) /\ (fpu'.busy <=> ~fpu'.valid)
          BY <1>1, <1>6, ControllerFields, FpuRecord
        <5> QED BY <3>2, <5>1
      <4>2. norm.done /\ norm.state = "S_IDLE"
        <5>1. /\ Started(instr, "class") => fpu.op = "class"
              /\ Started(instr, "sgnj") => fpu.op = "sgnj"
          BY <1>1, StartedOperation DEF UnitNames
        <5> QED BY <1>1, <2>5, <2>11, <4>1, <5>1 DEF CoreDone, Phases
      <4>3. norm.result = Rounded(NumberSign, NumberSize, 0)
        BY <2>5, <2>11, <4>2 DEF NumberHeld
      <4> QED BY <2>2, <2>5, <2>6, <2>7, <2>11, <4>2, <4>3
    <3> QED BY <2>11, <3>1, <3>2
  <2>12. fpu'.neg = Negates(instr, rs.rs1)' /\ fpu'.abs = NumberSize'
    BY <1>3, <2>2
  <2> QED BY <2>10, <2>11, <2>12 DEF NumberHeld
<1> QED BY <1>5, <1>6

NumberAnswered ==
    ctrl.wb /\ CoProcessorOf(instr) = "fpu" /\ OperationOf(instr) = "i2f" =>
      (RoundingMode(instr) = 0 => fpu.result = Rounded(NumberSign, NumberSize, 0))

LEMMA NumberAnsweredStep ==
    ASSUME IInv, Awaited, Operands, FloatHeld, ConverterHeld, NumberHeld, Clock, ~abandoned'
    PROVE  NumberAnswered'
<1> SUFFICES ASSUME ctrl'.wb, CoProcessorOf(instr)' = "fpu", OperationOf(instr)' = "i2f",
                    RoundingMode(instr)' = 0
             PROVE  fpu'.result = Rounded(NumberSign, NumberSize, 0)'
  BY DEF NumberAnswered
<1>1. ~EXECUTE
  <2> SUFFICES ASSUME EXECUTE PROVE FALSE
    OBVIOUS
  <2>1. i_reg' = i_reg /\ CoProcessorOf(instr) = "none"
    BY DEF EXECUTE, Off
  <2>2. CoProcessorOf(instr)' = "none"
    BY <2>1 DEF instr
  <2> QED BY <2>2
<1>2. ALU_WAIT
  BY <1>1 DEF Clock, ExecuteEngine, SYS_WAIT, DispatchWaits, Dispatch, DispatchTraps, TRAP_ENTER,
              TRAP_EXECUTE, Off
<1>3. i_reg' = i_reg /\ rs' = rs /\ idone
  BY <1>2, Waiting DEF ALU_WAIT, IInv
<1>4. /\ CoProcessorOf(instr)' = CoProcessorOf(instr) /\ OperationOf(instr)' = OperationOf(instr)
      /\ RoundingMode(instr)' = RoundingMode(instr)
      /\ Rounded(NumberSign, NumberSize, 0)' = Rounded(NumberSign, NumberSize, 0)
  BY <1>3 DEF instr, NumberSign, NumberSize
<1>5. fpu.valid
  <2>1. Valid("fpu")
    BY <1>3, <1>4, OneAnswers
  <2> QED BY <2>1 DEF Valid
<1>6. fpu.op = "i2f" /\ fpu.frm = 0
  BY <1>4, <1>5 DEF FloatHeld, ConverterHeld
<1>7. fpu'.result = norm.result
  <2>1. fpu'.result = FpuResult(instr)
    BY <1>5, FloatControl DEF IInv, OutputGate
  <2> QED BY <1>6, <2>1 DEF FpuResult
<1>8. norm.result = Rounded(NumberSign, NumberSize, 0)
  BY <1>5, <1>6 DEF NumberHeld
<1> QED BY <1>4, <1>7, <1>8

Numbers == abandoned \/ (NumberHeld /\ NumberAnswered)

LEMMA NumbersInit == Init => Numbers
BY DEF Init, FpuInit, Off, Numbers, NumberHeld, NumberAnswered

LEMMA NumbersStep == IInv /\ Holds /\ Typed /\ Converts /\ Numbers /\ [Clock]_vars => Numbers'
<1> SUFFICES ASSUME IInv, Holds, Typed, Converts, Numbers, [Clock]_vars PROVE Numbers'
  OBVIOUS
<1>1. CASE Clock
  <2> SUFFICES ASSUME ~abandoned' PROVE NumberHeld' /\ NumberAnswered'
    BY DEF Numbers
  <2>1. ~abandoned
    BY <1>1, Zenon DEF Clock, Registers
  <2>2. Awaited /\ Operands /\ FloatHeld /\ ConverterHeld /\ NumberHeld
    BY <2>1 DEF IInv, Holds, Converts, Numbers
  <2> QED BY <1>1, <2>2, NumberHeldStep, NumberAnsweredStep
<1>2. CASE UNCHANGED vars
  <2>1. /\ i_reg' = i_reg /\ rs' = rs /\ ctrl' = ctrl /\ abandoned' = abandoned /\ fpu' = fpu
        /\ norm' = norm
    BY <1>2 DEF vars, control_vars, fpu_vars
  <2>2. instr' = instr /\ NumberSign' = NumberSign /\ NumberSize' = NumberSize
    BY <2>1 DEF NumberSign, NumberSize, instr
  <2>3. Normalizing(norm)' = Normalizing(norm)
    BY <2>1 DEF Normalizing, Complete, Settled, AtPlace, CarriedFrom, ShiftedTo, HighestOne, Scaled
  <2>4. NumberHeld' = NumberHeld
    BY <2>1, <2>2, <2>3 DEF NumberHeld
  <2>5. NumberAnswered' = NumberAnswered
    BY <2>1, <2>2 DEF NumberAnswered
  <2> QED BY <2>1, <2>4, <2>5 DEF Numbers
<1> QED BY <1>1, <1>2

LEMMA NumbersSpec == Spec => []Numbers
BY Invariant, Answering, TypedSpec, ConvertsSpec, NumbersInit, NumbersStep, PTL DEF Spec

LEMMA NumberDecoded ==
    /\ \A i \in {riscv_intrinsic_fcvt_swu, riscv_intrinsic_fcvt_sw} :
          CoProcessorOf(i) = "fpu" /\ OperationOf(i) = "i2f" /\ RoundingMode(i) = 0
    /\ Bits(riscv_intrinsic_fcvt_swu.rs2, 0, 0) = 1
    /\ Bits(riscv_intrinsic_fcvt_sw.rs2, 0, 0) = 0
<1> USE DEF CUSTOM_INSTR_R2_TYPE, CMD_WORD_R2_TYPE
<1>1. ASSUME NEW i, i.opcode = opcode_fop_c
      PROVE  CoProcessorOf(i) = "fpu"
  BY <1>1 DEF CoProcessorOf, IsAluOperation, opcode_alu_c, opcode_alui_c, opcode_fop_c
<1>2. \A i \in {riscv_intrinsic_fcvt_swu, riscv_intrinsic_fcvt_sw} :
         i.opcode = opcode_fop_c /\ i.funct7 = 104 /\ i.funct3 = 0
  BY DEF riscv_intrinsic_fcvt_swu, riscv_intrinsic_fcvt_sw, opcode_fop_c
<1>3. ASSUME NEW i, i.funct7 = 104
      PROVE  OperationOf(i) = "i2f"
  <2>1. Bits(104, 6, 2) = 26 /\ Bits(104, 6, 3) = 13
    BY DEF Bits
  <2> QED BY <1>3, <2>1 DEF OperationOf, UnitOf
<1>4. ASSUME NEW i, i.funct3 = 0
      PROVE  RoundingMode(i) = 0
  <2>1. Bits(0, 1, 0) = 0
    BY DEF Bits
  <2> QED BY <1>4, <2>1 DEF RoundingMode
<1>5. riscv_intrinsic_fcvt_swu.rs2 = 1 /\ riscv_intrinsic_fcvt_sw.rs2 = 0
  BY FirstRegisters DEF riscv_intrinsic_fcvt_swu, riscv_intrinsic_fcvt_sw
<1>6. Bits(1, 0, 0) = 1 /\ Bits(0, 0, 0) = 0
  BY DEF Bits
<1> QED BY <1>1, <1>2, <1>3, <1>4, <1>5, <1>6

LEMMA ToFloatAnswers ==
    ASSUME Operands, Answered, NumberAnswered, ControlTypes, ctrl.wb
    PROVE  /\ instr = riscv_intrinsic_fcvt_swu => AluResult = riscv_emulate_fcvt_swu(a0)
           /\ instr = riscv_intrinsic_fcvt_sw => AluResult = riscv_emulate_fcvt_sw(a0)
<1>1. rs.rs1 = a0 /\ a0 \in Words
  BY DEF Operands, a0
<1>2. ASSUME CoProcessorOf(instr) = "fpu"
      PROVE  AluResult = fpu.result
  <2>1. /\ "fpu" \in CoProcessors /\ ctrl.copro
        /\ \A cp \in CoProcessors \ {"fpu"} : Result(cp) = 0
    BY <1>2 DEF Answered
  <2>2. Result("fpu") = fpu.result /\ fpu.result \in Words
    BY DEF Result, ControlTypes
  <2> QED BY <2>1, <2>2, OnlyResult
<1>3. instr \in {riscv_intrinsic_fcvt_swu, riscv_intrinsic_fcvt_sw} =>
         AluResult = Rounded(NumberSign, NumberSize, 0)
  BY <1>2, NumberDecoded DEF NumberAnswered
<1>4. ASSUME instr = riscv_intrinsic_fcvt_swu
      PROVE  AluResult = riscv_emulate_fcvt_swu(a0)
  <2>1. ~Negates(instr, rs.rs1)
    BY <1>4, NumberDecoded DEF Negates
  <2>2. NumberSign = 0 /\ NumberSize = a0
    BY <1>1, <2>1 DEF NumberSign, NumberSize
  <2>3. ~(a0 < 0)
    BY <1>1, WordRange
  <2> QED BY <1>3, <1>4, <2>2, <2>3 DEF riscv_emulate_fcvt_swu, FloatOf
<1>5. ASSUME instr = riscv_intrinsic_fcvt_sw
      PROVE  AluResult = riscv_emulate_fcvt_sw(a0)
  <2> DEFINE negative == Bit(a0, XLEN - 1) = 1
             W == 2 ^ XLEN
             n == Signed(a0)
  <2>1. Negates(instr, rs.rs1) <=> negative
    BY <1>1, <1>5, NumberDecoded DEF Negates
  <2>2. a0 \in Nat /\ W \in Nat
    BY <1>1, WordRange, FloatPowers
  <2>3. negative => (-a0) % W = W - a0 /\ W - a0 > 0
    BY <1>1, NegativeSize
  <2>4. n = IF negative THEN a0 - W ELSE a0
    BY DEF Signed
  <2>5. NumberSign = (IF n < 0 THEN 1 ELSE 0) /\ NumberSize = (IF n < 0 THEN -n ELSE n)
    <3>1. CASE negative
      <4>1. NumberSign = 1 /\ NumberSize = W - a0
        BY <1>1, <2>1, <2>3, <3>1 DEF NumberSign, NumberSize
      <4>2. n = a0 - W /\ W - a0 > 0
        BY <2>3, <2>4, <3>1
      <4> HIDE DEF n, W, negative
      <4>3. n < 0 /\ -n = W - a0
        BY <2>2, <4>2
      <4> QED BY <4>1, <4>3
    <3>2. CASE ~negative
      <4>1. NumberSign = 0 /\ NumberSize = a0
        BY <1>1, <2>1, <3>2 DEF NumberSign, NumberSize
      <4>2. n = a0
        BY <2>4, <3>2
      <4> HIDE DEF n
      <4>3. ~(n < 0)
        BY <2>2, <4>2
      <4> QED BY <4>1, <4>2, <4>3
    <3> QED BY <3>1, <3>2
  <2>6. riscv_emulate_fcvt_sw(a0) = FloatOf(n)
    BY DEF riscv_emulate_fcvt_sw
  <2>7. FloatOf(n) = Rounded(IF n < 0 THEN 1 ELSE 0, IF n < 0 THEN -n ELSE n, 0)
    BY DEF FloatOf
  <2> HIDE DEF n
  <2> QED BY <1>3, <1>5, <2>5, <2>6, <2>7
<1> QED BY <1>4, <1>5

\* FCVT from and to integers, signed and unsigned, write what the casts of C
\* give: the nearest number, ties to even, of every integer, and the nearest
\* integer of every number but those half way between two integers and the one
\* after 1/2; beyond the integers, and of NaNs, the nearest limit.
THEOREM ConversionsAreEmulated == Spec => []ConversionsLikeEmulated
<1>1. Holds /\ Typed /\ Converts /\ Numbers => ConversionsLikeEmulated
  <2> SUFFICES ASSUME Holds, Typed, Converts, Numbers PROVE ConversionsLikeEmulated
    OBVIOUS
  <2>1. CASE Undisturbed
    <3>1. /\ Operands /\ Answered /\ ConverterAnswered /\ NumberAnswered /\ ControlTypes /\ ctrl.wb
      BY <2>1 DEF Holds, Typed, Converts, Numbers, Undisturbed, Writes
    <3> QED BY <3>1, ToIntegerAnswers, ToFloatAnswers DEF ConversionsLikeEmulated, Gives
  <2>2. CASE ~Undisturbed
    BY <2>2 DEF ConversionsLikeEmulated, Gives
  <2> QED BY <2>1, <2>2
<1> QED BY <1>1, Answering, TypedSpec, ConvertsSpec, NumbersSpec, PTL

-----------------------------------------------------------------------------
(* Products and sums of floats. Numbers first: the number c, of which t    *)
(* places are below the last one of a significand.                         *)

IsSignificand(c, t) == t \in 0 .. XLEN /\ c \div 2 ^ t \in 2 ^ MAN .. 2 * 2 ^ MAN - 1

LEMMA PlacesOf ==
    ASSUME NEW c \in Nat, NEW t, IsSignificand(c, t)
    PROVE  LET P == 2 ^ MAN
               d == 2 ^ t
           IN  /\ P \in Nat \ {0} /\ d \in Nat \ {0} /\ t \in Nat
               /\ d * P <= c /\ c < 2 * (d * P) /\ d * P \in Nat
<1> DEFINE P == 2 ^ MAN
           d == 2 ^ t
           k == c \div d
           r == c % d
<1>1. P \in Nat \ {0} /\ d \in Nat \ {0} /\ t \in Nat /\ k \in P .. 2 * P - 1
  BY FloatPowers, Powers DEF IsSignificand
<1> HIDE DEF P, d
<1>2. r \in Int /\ 0 <= r /\ r < d /\ c = d * k + r
  BY <1>1, DivMod
<1> HIDE DEF k, r
<1>3. k - P \in Nat /\ (2 * P - 1) - k \in Nat /\ k \in Nat
  BY <1>1
<1>4. d * (k - P) \in Nat /\ d * k = d * P + d * (k - P)
  BY <1>1, <1>3
<1>5. d * ((2 * P - 1) - k) \in Nat /\ 2 * (d * P) = d * k + d + d * ((2 * P - 1) - k)
  BY <1>1, <1>3
<1>6. d * P \in Nat /\ d * k \in Nat
  BY <1>1, <1>3
<1>7. d * P <= c /\ c < 2 * (d * P)
  BY <1>1, <1>2, <1>4, <1>5, <1>6
<1> QED BY <1>1, <1>6, <1>7 DEF P, d

\* Its length, and what rounding makes of it.
LEMMA LengthOfPlaces ==
    ASSUME NEW c \in Nat, NEW t, IsSignificand(c, t)
    PROVE  /\ Length(c) = MAN + t + 1 /\ c # 0
           /\ NearestEven(c, t) \in 2 ^ MAN .. 2 * 2 ^ MAN
<1> DEFINE N == XLEN + MAN + 3
           u == MAN + t + 1
           P == 2 ^ MAN
           d == 2 ^ t
           Fits(k) == 2 ^ k > c /\ (k = 0 \/ 2 ^ (k - 1) <= c)
<1>1. /\ t \in 0 .. XLEN /\ XLEN \in Nat /\ MAN \in Nat /\ N \in Nat /\ u \in 1 .. N
      /\ u - 1 = MAN + t /\ MAN + t \in 0 .. N
  BY ExponentSizes DEF IsSignificand
<1>2. P \in Nat \ {0} /\ d \in Nat \ {0} /\ d * P <= c /\ c < 2 * (d * P) /\ d * P \in Nat
  BY PlacesOf
<1>3. 2 ^ (MAN + t) = P * d /\ 2 ^ u = 2 * (P * d)
  <2>1. /\ \A n \in 0 .. N : 2 ^ n \in Nat \ {0} /\ \A m \in 0 .. n : 2 ^ n = 2 ^ m * 2 ^ (n - m)
    BY RegisterPowers DEF N
  <2> DEFINE v == MAN + t
  <2>2. v \in 0 .. N /\ MAN \in 0 .. v /\ v - MAN = t /\ v \in 0 .. u /\ u - v = 1
    BY <1>1
  <2> HIDE DEF v, u, N
  <2>3. 2 ^ v = P * d
    BY <2>1, <2>2
  <2>4. 2 ^ u = 2 ^ v * 2 ^ (u - v)
    BY <1>1, <2>1, <2>2
  <2>5. 2 ^ u = 2 ^ v * 2
    <3> DEFINE z == u - v
    <3>1. 2 ^ u = 2 ^ v * 2 ^ z /\ z = 1
      BY <2>2, <2>4
    <3> HIDE DEF z
    <3>2. 2 ^ z = 2
      BY <3>1
    <3> QED BY <3>1, <3>2
  <2>6. P * d \in Nat
    BY <1>2
  <2> HIDE DEF P, d
  <2> DEFINE y == P * d
             z == 2 ^ v
  <2>7. z = y /\ 2 ^ u = z * 2 /\ y \in Nat
    BY <2>3, <2>5, <2>6
  <2> HIDE DEF y, z
  <2>8. 2 ^ u = 2 * y
    BY <2>7
  <2> QED BY <2>3, <2>8 DEF v, y
<1>4. P * d = d * P
  BY <1>2
<1>5. 2 ^ u > c /\ 2 ^ (u - 1) <= c
  <2> DEFINE y == d * P
  <2>1. 2 ^ u = 2 * y /\ 2 ^ (u - 1) = y /\ y <= c /\ c < 2 * y /\ y \in Nat
    BY <1>1, <1>2, <1>3, <1>4
  <2> HIDE DEF y
  <2> QED BY <2>1
<1> HIDE DEF N
<1>6. ASSUME NEW k \in 0 .. N, NEW j \in 0 .. N, k < j, 2 ^ k > c, 2 ^ (j - 1) <= c
      PROVE  FALSE
  <2> DEFINE i == j - 1
             z == i - k
  <2>1. i \in 0 .. N /\ k \in 0 .. i /\ z \in 0 .. N
    BY <1>1, <1>6
  <2> HIDE DEF i
  <2>2. 2 ^ i = 2 ^ k * 2 ^ (i - k) /\ 2 ^ k \in Nat \ {0} /\ 2 ^ z \in Nat \ {0}
    BY <2>1, RegisterPowers DEF N
  <2>3. 2 ^ i = 2 ^ k * 2 ^ z
    BY <2>2
  <2> HIDE DEF z
  <2> DEFINE x == 2 ^ k
             y == 2 ^ z
  <2> HIDE DEF x, y
  <2>4. x \in Nat \ {0} /\ y \in Nat \ {0} /\ x * y <= c /\ x > c
    BY <1>6, <2>2, <2>3 DEF x, y, i
  <2>5. x * y = x + x * (y - 1) /\ x * (y - 1) \in Nat
    BY <2>4
  <2> QED BY <2>4, <2>5
<1>7. u \in 0 .. N /\ Fits(u)
  BY <1>1, <1>5
<1>8. ASSUME NEW k \in 0 .. N, Fits(k)
      PROVE  k = u
  <2>1. ~(k < u)
    BY <1>5, <1>6, <1>7, <1>8
  <2>2. ~(u < k)
    <3>1. u < k => k # 0
      BY <1>1, <1>8
    <3> QED BY <1>5, <1>6, <1>7, <1>8, <3>1
  <2> QED BY <1>1, <1>7, <1>8, <2>1, <2>2
<1>9. Length(c) = u
  <2>1. Length(c) = CHOOSE k \in 0 .. N : Fits(k)
    BY DEF Length, N
  <2> HIDE DEF Fits, u
  <2> QED BY <1>7, <1>8, <2>1
<1>10. c # 0
  <2> DEFINE y == d * P
  <2>1. y \in Nat /\ y <= c /\ c < 2 * y
    BY <1>2
  <2> HIDE DEF y
  <2> QED BY <2>1
<1>11. NearestEven(c, t) \in P .. 2 * P
  <2> DEFINE k == c \div d
  <2>1. NearestEven(c, t) = k + (IF Halves(c, t) > 0 \/ (Halves(c, t) = 0 /\ k % 2 = 1)
                                 THEN 1 ELSE 0)
    BY DEF NearestEven
  <2>2. k \in P .. 2 * P - 1
    BY DEF IsSignificand
  <2> HIDE DEF k, P
  <2> QED BY <1>2, <2>1, <2>2
<1> QED BY <1>9, <1>10, <1>11

LEMMA InfinityWord ==
    /\ Infinity = AllOnes * 2 ^ MAN /\ Infinity \in Nat
    /\ 2 ^ MAN <= Infinity
<1> DEFINE P == 2 ^ MAN
           H == 2 ^ (XLEN - 1)
           y == AllOnes * P
<1>1. P \in Nat \ {0} /\ H \in Nat /\ AllOnes \in Nat /\ AllOnes >= 1
  BY FloatPowers
<1>2. y = P + (AllOnes - 1) * P /\ (AllOnes - 1) * P \in Nat /\ y \in Nat
  <2> HIDE DEF P
  <2>1. AllOnes - 1 \in Nat
    BY <1>1
  <2> QED BY <1>1, <2>1
<1>3. Infinity = 0 * H + y + 0
  BY DEF Infinity, FloatWord
<1> HIDE DEF P, H, y
<1>4. Infinity = y
  BY <1>1, <1>2, <1>3
<1>5. P <= y
  BY <1>1, <1>2
<1> QED BY <1>2, <1>4, <1>5 DEF P, y

\* The place that C rounds a number to: the one of its significand, or that of
\* the subnormal numbers.
LEMMA LastPlaceOf ==
    ASSUME NEW c \in Nat, NEW t, IsSignificand(c, t), NEW e \in Int
    PROVE  LET y == e + Bias + MAN + t
           IN  /\ Smallest \in Int /\ y \in Int
               /\ y >= 1 => /\ LastPlace(c, e) - e = t /\ e - LastPlace(c, e) = -t
                            /\ LastPlace(c, e) - Smallest = y - 1
               /\ y <= 0 => /\ LastPlace(c, e) - e = t + 1 - y /\ LastPlace(c, e) - Smallest = 0
<1> DEFINE B == Bias
           y == e + B + MAN + t
           L == Length(c)
           x == e + L - (MAN + 1)
           s == Smallest
<1>1. L = MAN + t + 1 /\ t \in Nat /\ B \in Nat /\ MAN \in Nat
  BY LengthOfPlaces, ExponentSizes, PlacesOf
<1>2. s = 1 - B - MAN
  BY DEF Smallest
<1>3. LastPlace(c, e) = Max({x, s})
  BY DEF LastPlace
<1> HIDE DEF B, L, s
<1>4. x = e + t /\ x \in Int /\ s \in Int /\ y \in Int /\ x - s = y - 1
  BY <1>1, <1>2
<1> HIDE DEF x
<1>5. LastPlace(c, e) = IF x >= s THEN x ELSE s
  BY <1>3, <1>4, MaximumOf
<1>6. CASE y >= 1
  <2>1. LastPlace(c, e) = x
    BY <1>4, <1>5, <1>6
  <2> QED BY <1>1, <1>4, <1>6, <2>1 DEF s, B
<1>7. CASE y <= 0
  <2>1. LastPlace(c, e) = s
    BY <1>4, <1>5, <1>7
  <2> QED BY <1>1, <1>4, <1>7, <2>1 DEF s, B
<1> QED BY <1>4, <1>6, <1>7 DEF s, B

\* The number of C that the significand is in units of a power of two.
LEMMA RoundedNormal ==
    ASSUME NEW c \in Nat, NEW t, IsSignificand(c, t), t # 0, NEW e \in Int, NEW sign,
           e + Bias + MAN + t >= 1
    PROVE  Rounded(sign, c, e)
             = FloatWord(sign, 0, Min({((e + Bias + MAN + t) - 1) * 2 ^ MAN + NearestEven(c, t), Infinity}))
<1> DEFINE y == e + Bias + MAN + t
           L == Length(c)
           last == LastPlace(c, e)
           D == last - e
           significand == CASE D > L -> 0
                            [] D \in 1 .. L -> NearestEven(c, D)
                            [] OTHER -> c * 2 ^ (e - last)
           magnitude == (last - Smallest) * 2 ^ MAN + significand
<1>1. c # 0 /\ L = MAN + t + 1 /\ t \in Nat /\ MAN \in Nat
  BY LengthOfPlaces, PlacesOf, ExponentSizes
<1>2. D = t /\ last - Smallest = y - 1
  BY LastPlaceOf
<1>3. D \in 1 .. L /\ ~(D > L)
  <2> HIDE DEF D, L
  <2> QED BY <1>1, <1>2
<1>4. significand = NearestEven(c, t)
  <2> HIDE DEF D, L, last
  <2> QED BY <1>2, <1>3
<1>5. Rounded(sign, c, e) = FloatWord(sign, 0, Min({magnitude, Infinity}))
  BY <1>1 DEF Rounded
<1> DEFINE z == last - Smallest
           w == y - 1
           S == NearestEven(c, t)
<1>6. z = w /\ magnitude = z * 2 ^ MAN + S
  <2> HIDE DEF significand, last
  <2>1. z = w
    <3> HIDE DEF y
    <3> QED BY <1>2
  <2>2. magnitude = z * 2 ^ MAN + S
    <3> HIDE DEF z
    <3> QED BY <1>4 DEF z
  <2> QED BY <2>1, <2>2
<1> HIDE DEF z, w, S, magnitude
<1>7. magnitude = w * 2 ^ MAN + S
  BY <1>6
<1>8. Rounded(sign, c, e) = FloatWord(sign, 0, Min({w * 2 ^ MAN + S, Infinity}))
  BY <1>5, <1>7
<1>9. w = (e + Bias + MAN + t) - 1
  BY DEF w, y
<1> QED BY <1>8, <1>9 DEF S

\* Below the normal numbers it is at most the smallest of them, and this one
\* if the rounding to the places of a normal number reaches it.
LEMMA NearestBelow ==
    ASSUME NEW c \in Nat, NEW t, IsSignificand(c, t), NEW D \in t + 1 .. MAN + t + 1
    PROVE  /\ NearestEven(c, D) \in 0 .. 2 ^ MAN
           /\ D = t + 1 /\ NearestEven(c, t) = 2 * 2 ^ MAN => NearestEven(c, D) = 2 ^ MAN
<1> DEFINE N == XLEN + MAN + 3
           P == 2 ^ MAN
           d == 2 ^ t
           f == 2 ^ D
           u == D - (t + 1)
           v == t + 1
           g == 2 ^ u
<1>1. /\ P \in Nat \ {0} /\ d \in Nat \ {0} /\ t \in Nat
      /\ d * P <= c /\ c < 2 * (d * P) /\ d * P \in Nat
  BY PlacesOf
<1>2. /\ D \in 0 .. N /\ v \in 0 .. D /\ D - v = u /\ v \in 0 .. N /\ t \in 0 .. v /\ v - t = 1
      /\ D \in Nat /\ u \in 0 .. N /\ D \in Int /\ t \in 0 .. XLEN
  BY <1>1, ExponentSizes DEF IsSignificand
<1>3. 2 ^ v = 2 * d /\ f = (2 * d) * g /\ g \in Nat \ {0} /\ f \in Nat \ {0}
  <2>1. /\ \A n \in 0 .. N : 2 ^ n \in Nat \ {0} /\ \A m \in 0 .. n : 2 ^ n = 2 ^ m * 2 ^ (n - m)
    BY RegisterPowers DEF N
  <2> HIDE DEF N, u, v
  <2>2. 2 ^ v = 2 ^ t * 2 ^ (v - t)
    BY <1>2, <2>1
  <2>3. 2 ^ v = 2 ^ t * 2
    <3> DEFINE z == v - t
    <3>1. 2 ^ v = 2 ^ t * 2 ^ z /\ z = 1
      BY <1>2, <2>2
    <3> HIDE DEF z
    <3>2. 2 ^ z = 2
      BY <3>1
    <3> QED BY <3>1, <3>2
  <2>4. f = 2 ^ v * 2 ^ (D - v)
    BY <1>2, <2>1
  <2>5. 2 ^ u \in Nat \ {0} /\ 2 ^ D \in Nat \ {0}
    BY <1>2, <2>1
  <2>6. 2 ^ v = 2 * d
    <3> HIDE DEF d
    <3> QED BY <1>1, <2>3 DEF d
  <2> QED BY <1>2, <2>4, <2>5, <2>6
<1> DEFINE q == c \div f
           r == c % f
           R == NearestEven(c, D)
<1>4. q \in Int /\ r \in Int /\ 0 <= r /\ r < f /\ c = f * q + r
  <2> HIDE DEF f
  <2> QED BY <1>3, DivMod
<1>5. Halves(c, D) = 2 * r - f /\ R = q + (IF Halves(c, D) > 0 \/ (Halves(c, D) = 0 /\ q % 2 = 1)
                                          THEN 1 ELSE 0)
  BY DEF Halves, NearestEven
<1> DEFINE k == c \div d
           s == c % d
           S == NearestEven(c, t)
<1>6. Halves(c, t) = 2 * s - d /\ S = k + (IF Halves(c, t) > 0 \/ (Halves(c, t) = 0 /\ k % 2 = 1)
                                          THEN 1 ELSE 0)
  BY DEF Halves, NearestEven
<1>7. k \in Int /\ s \in Int /\ 0 <= s /\ s < d /\ c = d * k + s
  <2> HIDE DEF d
  <2> QED BY <1>1, DivMod
<1>8. k \in P .. 2 * P - 1
  BY DEF IsSignificand
<1> HIDE DEF P, d, f, g, u, v, q, r, k, s, R, S, N
<1>9. q >= 0 /\ q <= P - 1
  <2>1. q >= 0
    <3>1. q <= -1 => f * q <= f * (-1)
      BY <1>3, <1>4
    <3> QED BY <1>3, <1>4, <3>1
  <2>2. f * P >= 2 * (d * P)
    <3> DEFINE y == d * P
    <3>1. y \in Nat /\ f * P = (2 * y) * g
      BY <1>1, <1>3
    <3> HIDE DEF y
    <3>2. (2 * y) * g = 2 * y + (2 * y) * (g - 1) /\ (2 * y) * (g - 1) \in Nat
      <4> DEFINE x == 2 * y
      <4>1. g - 1 \in Nat /\ x \in Nat /\ g \in Nat
        BY <1>3, <3>1
      <4> HIDE DEF x
      <4> QED BY <4>1 DEF x
    <3> QED BY <3>1, <3>2 DEF y
  <2>3. q <= P - 1
    <3> SUFFICES ASSUME q >= P PROVE FALSE
      BY <1>1, <1>4
    <3>1. q - P \in Nat /\ f * q = f * P + f * (q - P) /\ f * (q - P) \in Nat
      <4>1. q - P \in Nat
        BY <1>1, <1>4
      <4> QED BY <1>1, <1>3, <1>4, <4>1
    <3>2. f * P \in Nat /\ f * q \in Int
      BY <1>1, <1>3, <1>4
    <3> QED BY <1>1, <1>4, <2>2, <3>1, <3>2
  <2> QED BY <2>1, <2>3
<1>10. R \in 0 .. P
  BY <1>1, <1>4, <1>5, <1>9
<1>11. ASSUME D = t + 1, S = 2 * P PROVE R = P
  <2>1. u = 0 /\ g = 1
    <3>1. u = 0
      BY <1>1, <1>2, <1>11 DEF u
    <3> QED BY <3>1 DEF g
  <2>2. f = 2 * d
    BY <1>1, <1>3, <2>1
  <2>3. k = 2 * P - 1 /\ 2 * s >= d
    <3>1. k = 2 * P - 1
      BY <1>1, <1>6, <1>8, <1>11
    <3>2. Halves(c, t) >= 0
      BY <1>1, <1>6, <1>7, <1>8, <1>11
    <3> QED BY <1>1, <1>6, <1>7, <3>1, <3>2
  <2> DEFINE h == P - 1
             j == d + s
  <2>4. c = f * h + j /\ h \in Int /\ j \in Int /\ 0 <= j /\ j < f
    <3>1. d * (2 * P - 1) + s = (2 * d) * (P - 1) + (d + s)
      BY <1>1, <1>7
    <3>2. c = f * h + j
      BY <1>7, <2>2, <2>3, <3>1
    <3> QED BY <1>1, <1>7, <2>2, <3>2
  <2> HIDE DEF h, j
  <2>5. q = h /\ r = j
    <3>1. f \in Nat \ {0} /\ c \in Int
      BY <1>3
    <3>2. c \div f = h /\ c % f = j
      BY <2>4, <3>1, Division
    <3> QED BY <3>2 DEF q, r
  <2>6. 2 * r - f > 0
    <3> QED BY <1>1, <1>7, <2>2, <2>3, <2>5 DEF j
  <2> QED BY <1>1, <1>5, <2>5, <2>6 DEF h
<1> QED BY <1>10, <1>11 DEF R, S, P

LEMMA RoundedSmall ==
    ASSUME NEW c \in Nat, NEW t, IsSignificand(c, t), NEW e \in Int, e + Bias + MAN + t <= 0
    PROVE  \E m \in 0 .. 2 ^ MAN :
             /\ \A sign \in {0, 1} : Rounded(sign, c, e) = FloatWord(sign, 0, m)
             /\ e + Bias + MAN + t = 0 /\ NearestEven(c, t) = 2 * 2 ^ MAN => m = 2 ^ MAN
<1> DEFINE y == e + Bias + MAN + t
           L == Length(c)
           last == LastPlace(c, e)
           D == last - e
           P == 2 ^ MAN
           significand == CASE D > L -> 0
                            [] D \in 1 .. L -> NearestEven(c, D)
                            [] OTHER -> c * 2 ^ (e - last)
           magnitude == (last - Smallest) * 2 ^ MAN + significand
<1>1. c # 0 /\ L = MAN + t + 1 /\ t \in Nat /\ MAN \in Nat /\ P \in Nat /\ y \in Int
  BY LengthOfPlaces, PlacesOf, ExponentSizes, LastPlaceOf
<1>2. D = t + 1 - y /\ last - Smallest = 0
  BY LastPlaceOf
<1>3. D \in Int /\ D >= t + 1 /\ (y = 0 => D = t + 1)
  <2> HIDE DEF D, y
  <2>1. y <= 0
    BY DEF y
  <2> QED BY <1>1, <1>2, <2>1
<1>4. \A sign \in {0, 1} : Rounded(sign, c, e) = FloatWord(sign, 0, Min({magnitude, Infinity}))
  BY <1>1 DEF Rounded
<1>5. significand \in 0 .. P /\ (y = 0 /\ NearestEven(c, t) = 2 * P => significand = P)
  <2>1. CASE D > L
    <3>1. significand = 0
      <4> HIDE DEF D, L, last
      <4>1. ~(D \in 1 .. L)
        BY <1>1, <1>3, <2>1
      <4> QED BY <2>1, <4>1
    <3>2. y # 0
      <4> HIDE DEF D, L, y
      <4> QED BY <1>1, <1>2, <1>3, <2>1
    <3> HIDE DEF significand, P
    <3> QED BY <1>1, <3>1, <3>2
  <2>2. CASE ~(D > L)
    <3>1. D \in t + 1 .. MAN + t + 1 /\ D \in 1 .. L
      <4> HIDE DEF D, L
      <4> QED BY <1>1, <1>3, <2>2
    <3>2. significand = NearestEven(c, D)
      <4> HIDE DEF D, L, last
      <4> QED BY <2>2, <3>1
    <3> HIDE DEF D, significand, y
    <3> QED BY <1>3, <3>1, <3>2, NearestBelow
  <2> QED BY <2>1, <2>2
<1>6. magnitude = significand
  <2>1. significand \in Int
    <3> HIDE DEF significand, P
    <3> QED BY <1>1, <1>5
  <2>2. magnitude = 0 * P + significand
    BY <1>2
  <2> HIDE DEF significand, P, magnitude
  <2> QED BY <1>1, <2>1, <2>2
<1>7. Min({magnitude, Infinity}) = significand
  <2>1. Infinity \in Nat /\ P <= Infinity
    BY InfinityWord
  <2> HIDE DEF magnitude, significand, P
  <2>2. significand \in Int /\ significand <= Infinity
    BY <1>1, <1>5, <2>1
  <2> QED BY <1>6, <2>1, <2>2 DEF Min
<1> HIDE DEF significand, magnitude
<1> QED BY <1>4, <1>5, <1>7

\* The bits above the mantissa are 1 for a significand.
LEMMA UpperOf ==
    ASSUME NEW n \in Nat
    PROVE  /\ n \div 2 ^ (MAN + 3) = (n \div 8) \div 2 ^ MAN
           /\ n \div 2 ^ (MAN + 3) = 1 <=> n \div 8 \in 2 ^ MAN .. 2 * 2 ^ MAN - 1
           /\ n \div 2 ^ (MAN + 3) = 0 <=> n \div 8 < 2 ^ MAN
<1> DEFINE P == 2 ^ MAN
           k == n \div 8
           q == k \div P
           r == k % P
<1>1. P \in Nat \ {0} /\ 2 ^ (MAN + 3) = 8 * P
  BY FloatPowers, RegisterWidths
<1> HIDE DEF P
<1>2. n \div (8 * P) = k \div P
  <2> DEFINE e == 8
  <2>1. e \in Nat \ {0} /\ n \in Int
    OBVIOUS
  <2> HIDE DEF e
  <2>2. n \div (e * P) = (n \div e) \div P
    BY <1>1, <2>1, DividedTwice
  <2> QED BY <2>2 DEF e
<1>3. k \in Nat
  OBVIOUS
<1> HIDE DEF k
<1>4. q \in Int /\ r \in Int /\ 0 <= r /\ r < P /\ k = P * q + r
  BY <1>1, <1>3, DivMod
<1> HIDE DEF q, r
<1>5. q >= 2 => k >= 2 * P
  <2>1. q >= 2 => P * q >= P * 2
    BY <1>1, <1>4
  <2> QED BY <1>1, <1>4, <2>1
<1>6. q <= 0 => k < P
  <2>1. q <= 0 => P * q <= P * 0
    BY <1>1, <1>4
  <2> QED BY <1>1, <1>4, <2>1
<1>7. q = 1 => k \in P .. 2 * P - 1
  BY <1>1, <1>4
<1>8. q >= 0
  <2>1. q <= -1 => P * q <= P * (-1)
    BY <1>1, <1>4
  <2> QED BY <1>1, <1>3, <1>4, <2>1
<1>9. (q = 1 <=> k \in P .. 2 * P - 1) /\ (q = 0 <=> k < P)
  BY <1>1, <1>3, <1>4, <1>5, <1>6, <1>7, <1>8
<1> QED BY <1>1, <1>2, <1>9 DEF P, k, q

\* The product of two significands has its highest one at one of two places.
LEMMA ProductSize ==
    ASSUME NEW a \in Words, NEW b \in Words
    PROVE  MulMantissa(a, b) \in Nat /\ MulMantissa(a, b) \div 2 ^ MAN \in 2 ^ MAN .. 4 * 2 ^ MAN - 1
<1> DEFINE P == 2 ^ MAN
           x == HiddenOne(a)
           y == HiddenOne(b)
           c == x * y
           k == c \div P
           r == c % P
<1>1. P \in Nat \ {0} /\ x \in P .. 2 * P - 1 /\ y \in P .. 2 * P - 1
  <2>1. MantissaOf(a) \in 0 .. P - 1 /\ MantissaOf(b) \in 0 .. P - 1 /\ P \in Nat \ {0}
    BY FloatParts, FloatPowers
  <2>2. x = P + MantissaOf(a) /\ y = P + MantissaOf(b)
    BY DEF HiddenOne
  <2> HIDE DEF P, x, y
  <2> QED BY <2>1, <2>2
<1> HIDE DEF P, x, y
<1>2. c \in Nat /\ P * P <= c /\ c < P * (4 * P) /\ P * P \in Nat
  <2>1. x - P \in Nat /\ y - P \in Nat /\ 2 * P - x \in Nat /\ 2 * P - y \in Nat /\ x \in Nat /\ y \in Nat
        /\ x < 2 * P
    BY <1>1
  <2>2. x * y = P * P + P * (y - P) + (x - P) * y /\ P * (y - P) \in Nat /\ (x - P) * y \in Nat
    BY <1>1, <2>1
  <2>3. P * (4 * P) = (2 * P) * (2 * P) /\ P * P \in Nat /\ x * y \in Nat
    BY <1>1, <2>1
  <2>4. (2 * P) * (2 * P) = x * y + (2 * P - x) * y + (2 * P) * (2 * P - y)
    BY <1>1, <2>1
  <2>5. (2 * P - x) * y > 0 /\ (2 * P) * (2 * P - y) >= 0
    <3>1. 2 * P - x >= 1 /\ y >= 1
      BY <1>1
    <3>2. (2 * P - x) * y = y + (2 * P - x - 1) * y /\ (2 * P - x - 1) * y \in Nat
      <4>1. 2 * P - x - 1 \in Nat
        BY <1>1
      <4> QED BY <2>1, <4>1
    <3>3. (2 * P) * (2 * P - y) \in Nat
      <4>1. 2 * P \in Nat
        BY <1>1
      <4> QED BY <2>1, <4>1
    <3> QED BY <2>1, <3>1, <3>2, <3>3
  <2> DEFINE m == (2 * P - x) * y
             n == (2 * P) * (2 * P - y)
             f == P * (y - P)
             g == (x - P) * y
             e == P * P
             h == (2 * P) * (2 * P)
  <2>6. /\ c = e + f + g /\ f \in Nat /\ g \in Nat /\ e \in Nat /\ c \in Nat
        /\ h = c + m + n /\ m > 0 /\ n >= 0 /\ m \in Int /\ n \in Int /\ h = P * (4 * P)
    <3>1. m \in Int /\ n \in Int
      BY <1>1, <2>1
    <3> QED BY <2>2, <2>3, <2>4, <2>5, <3>1
  <2> HIDE DEF m, n, f, g, e, h, c
  <2>7. e <= c /\ c < h
    BY <2>6
  <2> QED BY <2>6, <2>7 DEF e
<1> HIDE DEF c
<1>3. k \in Int /\ r \in Int /\ 0 <= r /\ r < P /\ c = P * k + r
  BY <1>1, <1>2, DivMod
<1> HIDE DEF k, r
<1>4. k >= P
  <2>1. k <= P - 1 => P * k <= P * (P - 1)
    BY <1>1, <1>3
  <2>2. P * (P - 1) = P * P - P
    BY <1>1
  <2> QED BY <1>1, <1>2, <1>3, <2>1, <2>2
<1>5. k <= 4 * P - 1
  <2>1. k >= 4 * P => P * k >= P * (4 * P)
    BY <1>1, <1>3
  <2>2. P * (4 * P) \in Nat /\ P * k \in Int
    BY <1>1, <1>3
  <2> QED BY <1>1, <1>2, <1>3, <2>1, <2>2
<1>6. MulMantissa(a, b) = c
  BY DEF MulMantissa, c, x, y
<1> QED BY <1>1, <1>2, <1>3, <1>4, <1>5, <1>6 DEF k, P

LEMMA ProductPlaces ==
    ASSUME NEW c \in Nat, c \div 2 ^ MAN \in 2 ^ MAN .. 4 * 2 ^ MAN - 1
    PROVE  /\ MAN \in 1 .. XLEN /\ MAN + 1 \in 1 .. XLEN /\ 2 ^ (MAN + 1) = 2 * 2 ^ MAN
           /\ IsSignificand(c, MAN) \/ IsSignificand(c, MAN + 1)
           /\ IsSignificand(c, MAN) <=> c \div 2 ^ MAN \in 2 ^ MAN .. 2 * 2 ^ MAN - 1
<1> DEFINE P == 2 ^ MAN
           k == c \div P
           j == k \div 2
           u == MAN + 1
<1>1. P \in Nat \ {0} /\ 2 ^ u = 2 * P /\ MAN \in 1 .. XLEN /\ u \in 1 .. XLEN
      /\ u \in 0 .. XLEN /\ MAN \in 0 .. XLEN
  BY FloatPowers, RegisterWidths, ExponentSizes
<1>2. IsSignificand(c, MAN) <=> k \in P .. 2 * P - 1
  BY <1>1 DEF IsSignificand
<1> HIDE DEF u
<1>3. ASSUME ~(k \in P .. 2 * P - 1) PROVE IsSignificand(c, u)
  <2>1. k \in 2 * P .. 4 * P - 1
    <3> HIDE DEF P, k
    <3>1. k \in P .. 4 * P - 1
      BY DEF P, k
    <3> QED BY <1>1, <1>3, <3>1
  <2>2. c \div (P * 2) = j
    <3> HIDE DEF P
    <3> DEFINE two == 2
    <3>1. two \in Nat \ {0} /\ c \in Int
      OBVIOUS
    <3> HIDE DEF two
    <3>2. c \div (P * two) = (c \div P) \div two
      BY <1>1, <3>1, DividedTwice
    <3> QED BY <3>2 DEF two
  <2>3. j \in P .. 2 * P - 1
    <3> HIDE DEF P, k
    <3> QED BY <1>1, <2>1
  <2>4. P * 2 = 2 ^ u
    <3> HIDE DEF P
    <3> QED BY <1>1
  <2>5. c \div 2 ^ u = j
    <3> HIDE DEF j, P, u
    <3> QED BY <2>2, <2>4
  <2> HIDE DEF j
  <2> QED BY <1>1, <2>3, <2>5 DEF IsSignificand
<1> QED BY <1>1, <1>2, <1>3 DEF u

\* The multiplier keeps of the product what the sticky bit stands for.
LEMMA StickyProduct ==
    ASSUME NEW c \in Nat
    PROVE  2 * (c \div 2 ^ (MAN - 2)) + (IF c % 2 ^ (MAN - 2) = 0 THEN 0 ELSE 1)
             = Sticky(8 * c, 2 * 2 ^ MAN)
<1> DEFINE p == 2 ^ (MAN - 2)
           q == c \div p
           r == c % p
           e == 8 * p
           n == 8 * c
           s == 8 * r
<1>1. p \in Nat \ {0} /\ 2 * 2 ^ MAN = e /\ e \in Nat \ {0}
  <2>1. p \in Nat \ {0} /\ 2 ^ MAN = 4 * p
    BY RegisterWidths
  <2> HIDE DEF p
  <2> QED BY <2>1
<1> HIDE DEF p
<1>2. q \in Int /\ r \in Int /\ 0 <= r /\ r < p /\ c = p * q + r
  BY <1>1, DivMod
<1> HIDE DEF q, r
<1>3. n = e * q + s /\ n \in Int /\ s \in Int /\ 0 <= s /\ s < e /\ (s = 0 <=> r = 0)
  <2>1. 8 * (p * q + r) = (8 * p) * q + 8 * r
    BY <1>1, <1>2
  <2> QED BY <1>1, <1>2, <2>1
<1> HIDE DEF n, e, s
<1>4. n \div e = q /\ n % e = s
  BY <1>1, <1>2, <1>3, Division
<1>5. Sticky(n, e) = 2 * q + (IF s = 0 THEN 0 ELSE 1)
  BY <1>4 DEF Sticky
<1> QED BY <1>1, <1>3, <1>5 DEF n, p, q, r

-----------------------------------------------------------------------------
(* The normalizer with a product, state by state.                          *)

\* The normalizer one period later: its step, and the limits that its counter
\* was seen to pass.
Follows(r) ==
    LET high(n) == n \div 2 ^ (EXP - 1)
    IN  /\ r.state = NormalizerStep.state /\ r.norm_r = NormalizerStep.norm_r
        /\ r.cnt = NormalizerStep.cnt /\ r.sign = NormalizerStep.sign
        /\ r.class = NormalizerStep.class /\ r.flags = NormalizerStep.flags
        /\ r.sreg = NormalizerStep.sreg /\ r.left = NormalizerStep.left
        /\ r.result = NormalizerStep.result
        /\ r.cnt_pre = norm.cnt
        /\ norm.state = "S_IDLE" => ~r.of /\ ~r.uf
        /\ norm.state # "S_IDLE" =>
             /\ r.of <=> norm.of \/ (high(norm.cnt_pre) = 1 /\ high(norm.cnt) = 2)
             /\ r.uf <=> norm.uf \/ (high(norm.cnt_pre) = 0 /\ high(norm.cnt) = 3)

LEMMA NormalizerFollows ==
    ASSUME NormalizerTypes, ControlTypes, AdderTypes, Clock
    PROVE  Follows(norm')
<1> DEFINE r == NormalizerStep
           high(n) == n \div 2 ^ (EXP - 1)
           pre == [r EXCEPT !.cnt_pre = norm.cnt]
           of == norm.state # "S_IDLE" /\ (pre.of \/ (high(norm.cnt_pre) = 1 /\ high(norm.cnt) = 2))
           uf == norm.state # "S_IDLE" /\ (pre.uf \/ (high(norm.cnt_pre) = 0 /\ high(norm.cnt) = 3))
<1>1. /\ {"state", "norm_r", "cnt", "cnt_pre", "of", "uf", "rounded", "sign", "class", "flags",
          "sreg", "left", "result", "done"} \subseteq DOMAIN r
  BY NormalizerStepTyped DEF NormalizerRecord
<1>2. norm.state # "S_IDLE" => r.of = norm.of /\ r.uf = norm.uf
  BY DEF NormalizerStep, NormalizeBusy, Rounding, NormalizerTypes, NormalizerRecord
<1>3. \E done : norm' = [r EXCEPT !.cnt_pre = norm.cnt, !.of = of, !.uf = uf, !.done = done]
  <2>1. NormalizerClock
    BY DEF Clock, CoProcessorsClock, FpuClock
  <2>2. [pre EXCEPT !.of = of].uf = pre.uf
    OBVIOUS
  <2> QED BY <2>1, <2>2 DEF NormalizerClock
<1>4. pre.of = r.of /\ pre.uf = r.uf
  BY <1>1
<1>5. norm.state = "S_IDLE" => ~of /\ ~uf
  OBVIOUS
<1>6. norm.state # "S_IDLE" =>
        /\ of <=> norm.of \/ (high(norm.cnt_pre) = 1 /\ high(norm.cnt) = 2)
        /\ uf <=> norm.uf \/ (high(norm.cnt_pre) = 0 /\ high(norm.cnt) = 3)
  BY <1>2, <1>4
<1> HIDE DEF of, uf, r
<1>7. /\ norm'.state = r.state /\ norm'.norm_r = r.norm_r
      /\ norm'.cnt = r.cnt /\ norm'.sign = r.sign
      /\ norm'.class = r.class /\ norm'.flags = r.flags
      /\ norm'.sreg = r.sreg /\ norm'.left = r.left /\ norm'.cnt_pre = norm.cnt
      /\ norm'.result = r.result /\ norm'.of = of /\ norm'.uf = uf
  BY <1>1, <1>3
<1> QED BY <1>5, <1>6, <1>7 DEF Follows, r

\* The counter has passed the largest exponent, which is seen one period later.
Watched(r) ==
    /\ r.cnt \in 0 .. 2 ^ EXP
    /\ r.of => r.cnt = 2 ^ EXP
    /\ r.cnt = 2 ^ EXP => r.of \/ (r.state = "S_NORMALIZE_BUSY" /\ r.cnt_pre = AllOnes)

\* The two highest bits of an exponent that has not passed it, and of the next.
LEMMA HighestBits ==
    ASSUME NEW c \in 0 .. 2 ^ EXP
    PROVE  LET high == c \div 2 ^ (EXP - 1)
           IN  /\ high # 3 /\ (high = 2 <=> c = 2 ^ EXP) /\ (c = AllOnes => high = 1)
               /\ c < 2 ^ EXP => c % 2 ^ EXP = c /\ (c + 1) % 2 ^ (EXP + 1) = c + 1
               /\ c = 2 ^ EXP => c % 2 ^ EXP = 0
               /\ c \in Int /\ AllOnes = 2 ^ EXP - 1 /\ 2 ^ EXP \in Nat \ {0} /\ AllOnes # 0
<1> DEFINE B == Bias
           h == 2 ^ (EXP - 1)
           E == 2 ^ EXP
           F == 2 ^ (EXP + 1)
           q == c \div h
           r == c % h
<1>1. /\ B \in Nat /\ B >= 10 /\ h = B + 1 /\ E = 2 * B + 2 /\ AllOnes = 2 * B + 1 /\ F = 2 * E
      /\ h \in Nat \ {0} /\ E \in Nat \ {0} /\ F \in Nat \ {0} /\ E = 2 * h /\ AllOnes = E - 1
  BY ExponentSizes, RegisterWidths
<1> HIDE DEF B, h, E, F
<1>2. c \in Int /\ 0 <= c /\ c <= E
  BY <1>1 DEF E
<1>3. q \in Int /\ r \in Int /\ 0 <= r /\ r < h /\ c = h * q + r
  BY <1>1, <1>2, DivMod
<1> HIDE DEF q, r
<1>4. q < 3
  <2>1. q >= 3 => h * q >= h * 3
    BY <1>1, <1>3
  <2> QED BY <1>1, <1>2, <1>3, <2>1
<1>5. q >= 0
  <2>1. q <= -1 => h * q <= h * (-1)
    BY <1>1, <1>3
  <2> QED BY <1>1, <1>2, <1>3, <2>1
<1>6. q \in {0, 1, 2}
  BY <1>3, <1>4, <1>5
<1>7. (q = 2 <=> c = E) /\ (c = AllOnes => q = 1)
  <2>1. q = 0 => c < h
    BY <1>1, <1>2, <1>3
  <2>2. q = 1 => c < 2 * h
    BY <1>1, <1>2, <1>3
  <2>3. q = 2 => c >= 2 * h
    BY <1>1, <1>2, <1>3
  <2> QED BY <1>1, <1>2, <1>6, <2>1, <2>2, <2>3
<1>8. ASSUME c < E PROVE c % E = c /\ (c + 1) % F = c + 1
  <2> DEFINE e == c + 1
  <2>1. c \in 0 .. E - 1 /\ e \in 0 .. F - 1
    BY <1>1, <1>2, <1>8
  <2> HIDE DEF e
  <2>2. c % E = c /\ e % F = e
    BY <1>1, <2>1, SmallReduced
  <2> QED BY <2>2 DEF e
<1>9. ASSUME c = E PROVE c % E = 0
  <2>1. c = E * 1 + 0 /\ 0 \in Int /\ 0 <= 0 /\ 0 < E /\ 1 \in Int
    BY <1>1, <1>2, <1>9
  <2> QED BY <1>1, <1>2, <2>1, Division
<1> QED BY <1>1, <1>2, <1>6, <1>7, <1>8, <1>9 DEF q, h, E, F

LEMMA WatchedStep ==
    ASSUME Watched(norm), norm.state # "S_IDLE", ~norm.uf, NEW r, Follows(r),
           \/ r.cnt = norm.cnt
           \/ r.cnt = norm.cnt + 1 /\ r.cnt <= 2 ^ EXP /\ r.state = "S_NORMALIZE_BUSY"
    PROVE  Watched(r) /\ ~r.uf /\ (r.cnt = norm.cnt /\ r.cnt = 2 ^ EXP => r.of)
<1> DEFINE h == 2 ^ (EXP - 1)
           E == 2 ^ EXP
           high(n) == n \div h
           c == norm.cnt
<1>1. /\ r.of <=> norm.of \/ (high(norm.cnt_pre) = 1 /\ high(c) = 2)
      /\ r.uf <=> norm.uf \/ (high(norm.cnt_pre) = 0 /\ high(c) = 3)
      /\ r.cnt_pre = c
  BY DEF Follows
<1>2. /\ c \in 0 .. E /\ (norm.of => c = E) /\ E \in Nat \ {0} /\ AllOnes = E - 1 /\ AllOnes \in 0 .. E
      /\ c = E => norm.of \/ norm.cnt_pre = AllOnes
  BY FloatPowers, ExponentSizes DEF Watched, AllOnes
<1>3. /\ high(c) # 3 /\ (high(c) = 2 <=> c = E)
      /\ high(AllOnes) = 1
  BY <1>2, HighestBits
<1> HIDE DEF E, h, high
<1>4. ~r.uf
  BY <1>1, <1>3
<1>5. r.of <=> c = E
  BY <1>1, <1>2, <1>3
<1> QED BY <1>1, <1>2, <1>4, <1>5 DEF Watched, E

\* An exact number is c units with the highest one at place p; x is the exponent
\* that the counter has for place 0. What the counter can stand for goes from 0
\* to one more than the largest exponent.
IsExact(c, x, p) ==
    /\ c \in Nat /\ p # 0 /\ IsSignificand(c, p)
    /\ x \in Int /\ x + p \in 0 .. 2 ^ EXP

LEMMA ExactTyped ==
    ASSUME NEW c, NEW x, NEW p, IsExact(c, x, p)
    PROVE  /\ c \in Nat /\ c # 0 /\ x \in Int /\ x + p \in 0 .. 2 ^ EXP /\ IsSignificand(c, p)
           /\ p \in 1 .. XLEN /\ p \in 0 .. XLEN /\ p \in Nat /\ XLEN \in Nat /\ p # 0
           /\ c \div 2 ^ p \in 2 ^ MAN .. 2 * 2 ^ MAN - 1
           /\ NearestEven(c, p) \in 2 ^ MAN .. 2 * 2 ^ MAN
<1>1. c \in Nat /\ x \in Int /\ x + p \in 0 .. 2 ^ EXP /\ IsSignificand(c, p) /\ p # 0
  BY DEF IsExact
<1>2. p \in 0 .. XLEN /\ XLEN \in Nat /\ c \div 2 ^ p \in 2 ^ MAN .. 2 * 2 ^ MAN - 1
  BY <1>1, ExponentSizes DEF IsSignificand
<1>3. p \in 1 .. XLEN /\ p \in Nat
  BY <1>1, <1>2
<1>4. c # 0 /\ NearestEven(c, p) \in 2 ^ MAN .. 2 * 2 ^ MAN
  BY <1>1, LengthOfPlaces
<1> QED BY <1>1, <1>2, <1>3, <1>4

\* The register s has the places of c from t on, and rounds as c does there.
Kept(s, c, t) ==
    /\ s \in Nat /\ s \div 8 = c \div 2 ^ t
    /\ s \div 8 + RoundingStep(0, (s \div 8) % 2 = 1, s % 8) = NearestEven(c, t)

\* It has all of c, with an empty place at the end.
Whole(s, c, t) == s % 2 = 0 /\ s * 2 ^ t = 8 * c

\* It comes to place p from t: the sticky bit is enough for one place.
Coming(s, c, p, t) ==
    /\ t \in 0 .. XLEN /\ s = Sticky(8 * c, 2 * 2 ^ t)
    /\ t \in {p - 1, p, p + 1} \/ (t > p /\ Whole(s, c, t))

LEMMA StickyKept ==
    ASSUME NEW c \in Nat, NEW t \in 0 .. XLEN, NEW s, s = Sticky(8 * c, 2 * 2 ^ t)
    PROVE  Kept(s, c, t)
<1> DEFINE d == 2 ^ t
           n == 8 * c
           m == 2 * d
           q == n \div m
<1>1. d \in Nat \ {0}
  BY Powers
<1>2. s \div 8 = c \div d
  <2> HIDE DEF d
  <2>1. Sticky(8 * c, 2 * d) \div 8 = c \div d
    BY <1>1, StickyBelow
  <2> QED BY <2>1 DEF d
<1>3. s \in Nat
  <2>1. n \in Nat /\ m \in Nat \ {0}
    BY <1>1
  <2> HIDE DEF n, m
  <2>2. q \in Nat
    BY <2>1
  <2>3. Sticky(n, m) = 2 * q + (IF n % m = 0 THEN 0 ELSE 1)
    BY DEF Sticky
  <2> HIDE DEF q
  <2> QED BY <2>2, <2>3 DEF n, m, d
<1> QED BY <1>2, <1>3, NearestEvenOf DEF Kept

\* The places of a number above and below the one of its highest one.
LEMMA OtherPlaces ==
    ASSUME NEW c \in Nat, NEW p \in 1 .. XLEN, IsSignificand(c, p), NEW t \in 0 .. XLEN
    PROVE  /\ t > p => c \div 2 ^ t < 2 ^ MAN
           /\ t = p - 1 => c \div 2 ^ t >= 2 * 2 ^ MAN
           /\ c \div 2 ^ t \in Int
<1> DEFINE P == 2 ^ MAN
           d == 2 ^ p
           f == 2 ^ t
           k == c \div f
           r == c % f
<1>1. /\ P \in Nat \ {0} /\ d \in Nat \ {0} /\ d * P <= c /\ c < 2 * (d * P) /\ d * P \in Nat
  BY PlacesOf
<1>2. f \in Nat \ {0}
  BY Powers
<1>3. k \in Int /\ r \in Int /\ 0 <= r /\ r < f /\ c = f * k + r
  <2> HIDE DEF f
  <2> QED BY <1>2, DivMod DEF k, r
<1>4. ASSUME t > p PROVE k < P
  <2> DEFINE u == p + 1
             g == 2 ^ u
             h == 2 ^ (t - u)
  <2>1. u \in 1 .. XLEN /\ u \in 0 .. t /\ u - 1 = p /\ t - u \in 0 .. XLEN
    BY <1>4, ExponentSizes
  <2>2. g = 2 * d /\ f = g * h /\ h \in Nat /\ h >= 1
    <3> HIDE DEF u
    <3> QED BY <2>1, Powers
  <2> HIDE DEF g, h, d, f, k, r, P
  <2>3. f >= 2 * d
    <3>1. g \in Nat
      BY <1>1, <2>2
    <3>2. g * h >= g
      BY <2>2, <3>1
    <3> QED BY <2>2, <3>2
  <2> SUFFICES ASSUME k >= P PROVE FALSE
    BY <1>1, <1>3
  <2>4. f * k >= f * P
    BY <1>1, <1>2, <1>3
  <2>5. f * P >= (2 * d) * P
    BY <1>1, <1>2, <2>3
  <2>6. (2 * d) * P = 2 * (d * P)
    BY <1>1
  <2>7. f * k \in Int /\ f * P \in Int
    BY <1>1, <1>2, <1>3
  <2> QED BY <1>1, <1>3, <2>4, <2>5, <2>6, <2>7
<1>5. ASSUME t = p - 1 PROVE k >= 2 * P
  <2>1. d = 2 * f
    BY <1>5, Powers
  <2> HIDE DEF d, f, k, r, P
  <2> SUFFICES ASSUME k <= 2 * P - 1 PROVE FALSE
    BY <1>1, <1>3
  <2>2. f * k <= f * (2 * P - 1)
    BY <1>1, <1>2, <1>3
  <2>3. f * (2 * P - 1) = (2 * f) * P - f /\ (2 * f) * P \in Int
    BY <1>1, <1>2
  <2>4. f * k \in Int /\ (2 * f) * P = d * P
    BY <1>1, <1>2, <1>3, <2>1
  <2> QED BY <1>1, <1>2, <1>3, <2>2, <2>3, <2>4
<1> QED BY <1>3, <1>4, <1>5

\* The bits of the register above the mantissa tell whether it is there.
LEMMA KeptUpper ==
    ASSUME NEW c, NEW x, NEW p, IsExact(c, x, p), NEW t \in 0 .. XLEN, Kept(norm.sreg, c, t)
    PROVE  /\ t = p => Upper = 1
           /\ t > p => Upper = 0
           /\ t = p - 1 => Upper # 0 /\ Upper # 1
<1> DEFINE P == 2 ^ MAN
           k == c \div 2 ^ t
<1>1. norm.sreg \in Nat /\ norm.sreg \div 8 = k /\ P \in Nat \ {0}
  BY FloatPowers DEF Kept
<1>2. /\ Upper = 1 <=> k \in P .. 2 * P - 1
      /\ Upper = 0 <=> k < P
  BY <1>1, UpperOf DEF Upper
<1>3. /\ t = p => k \in P .. 2 * P - 1
      /\ t > p => k < P
      /\ t = p - 1 => k >= 2 * P
      /\ k \in Int
  BY ExactTyped, OtherPlaces
<1> HIDE DEF P, k
<1> QED BY <1>1, <1>2, <1>3

\* One more place to the left: what came out of the sticky bit rounds as the rest.
LEMMA KeptFromSticky ==
    ASSUME NEW c \in Nat, NEW t \in 1 .. XLEN, NEW s, s = Sticky(8 * c, 2 * 2 ^ t)
    PROVE  Kept(ShiftedFromSticky(s), c, t - 1)
<1> DEFINE u == t - 1
           d == 2 ^ u
           e == 4 * d
           n == 8 * c
           q == n \div e
           r == n % e
           s1 == IF r = 0 THEN 0 ELSE 1
           m == q \div 2
           j == q % 2
           y == 4 * j + 3 * s1
           z == ShiftedFromSticky(s)
<1>1. /\ d \in Nat \ {0} /\ 2 * 2 ^ t = e /\ u \in 0 .. XLEN
  <2>1. 2 ^ t = 2 * 2 ^ (t - 1) /\ t - 1 \in 0 .. XLEN /\ 2 ^ (t - 1) \in Nat \ {0}
    BY Powers, ExponentSizes
  <2> QED BY <2>1
<1>2. n \in Nat /\ e \in Nat \ {0}
  <2> HIDE DEF d
  <2> QED BY <1>1
<1>3. q \in Int /\ r \in Int /\ 0 <= r /\ r < e /\ n = e * q + r
  <2> HIDE DEF n, e
  <2> QED BY <1>2, DivMod DEF q, r
<1>4. s = 2 * q + s1
  BY <1>1 DEF Sticky
<1>5. q \in Nat
  <2> HIDE DEF n, e
  <2> QED BY <1>2 DEF q
<1>6. m \in Nat /\ j \in {0, 1} /\ q = 2 * m + j
  <2> HIDE DEF q
  <2>1. m \in Nat
    BY <1>5
  <2>2. j \in {0, 1} /\ q = 2 * m + j
    BY <1>5
  <2> QED BY <2>1, <2>2
<1>7. s1 \in {0, 1} /\ (s1 = 0 <=> r = 0)
  OBVIOUS
<1> HIDE DEF s1, m, j, q, r
<1>8. s % 2 = s1
  <2> DEFINE w == 2 * q + s1
  <2>1. w % 2 = s1
    BY <1>5, <1>7
  <2> QED BY <1>4, <2>1
<1>9. z = 8 * m + y /\ y \in {0, 3, 4, 7} /\ z \in Nat
  <2>1. z = 2 * s + s1
    BY <1>8 DEF ShiftedFromSticky
  <2> HIDE DEF z
  <2>2. y \in {0, 3, 4, 7}
    BY <1>6, <1>7
  <2>3. z = 8 * m + y
    BY <1>4, <1>6, <1>7, <2>1
  <2> HIDE DEF y
  <2> QED BY <1>6, <2>2, <2>3
<1>10. z \div 8 = m /\ z % 8 = y
  <2> HIDE DEF z, y
  <2>1. z \in Int /\ m \in Int /\ y \in Int /\ 0 <= y /\ y < 8 /\ 8 \in Nat \ {0}
    BY <1>6, <1>9
  <2> QED BY <1>9, <2>1, Division
<1>11. \E g \in Int : /\ c = d * m + g /\ 0 <= g /\ g < d
                      /\ 8 * g = 4 * (d * j) + r
  <2> DEFINE g == c - d * m
             w == d * m
             v == d * j
  <2>1. w \in Int /\ v \in Int /\ g \in Int
    <3> HIDE DEF d
    <3> QED BY <1>1, <1>6
  <2>2. e * q = 8 * w + 4 * v
    <3>1. e * q = (4 * d) * (2 * m + j)
      BY <1>6
    <3>2. (4 * d) * (2 * m + j) = 8 * (d * m) + 4 * (d * j)
      <4> HIDE DEF d
      <4> QED BY <1>1, <1>6
    <3> QED BY <3>1, <3>2
  <2>3. 8 * g = 4 * v + r
    <3> DEFINE eq == e * q
    <3>1. 8 * c = eq + r /\ eq = 8 * w + 4 * v
      BY <1>3, <2>2
    <3>2. g = c - w
      OBVIOUS
    <3> HIDE DEF eq, w, v, g
    <3> QED BY <1>3, <2>1, <3>1, <3>2
  <2>4. 0 <= v /\ v <= d
    <3>1. v = IF j = 0 THEN 0 ELSE d
      <4> HIDE DEF d
      <4> QED BY <1>1, <1>6
    <3> HIDE DEF v, d
    <3> QED BY <1>1, <1>6, <3>1
  <2>5. r < 4 * d
    BY <1>3
  <2>6. 0 <= g /\ g < d
    <3> HIDE DEF g, v, d
    <3> QED BY <1>1, <1>3, <2>1, <2>3, <2>4, <2>5
  <2>7. c = d * m + g
    <3>1. g = c - w
      OBVIOUS
    <3> HIDE DEF g, w
    <3>2. c = w + g
      BY <2>1, <3>1
    <3> QED BY <3>2 DEF w
  <2> QED BY <2>1, <2>3, <2>6, <2>7
<1>12. PICK g \in Int : /\ c = d * m + g /\ 0 <= g /\ g < d
                        /\ 8 * g = 4 * (d * j) + r
  BY <1>11
<1>13. c \div d = m /\ c % d = g
  <2> HIDE DEF d
  <2>1. c \in Int /\ m \in Int /\ g \in Int /\ d \in Nat \ {0} /\ c = d * m + g /\ 0 <= g /\ g < d
    BY <1>1, <1>6, <1>12
  <2> QED BY <2>1, Division
<1>14. Halves(c, u) = 2 * g - d
  BY <1>13 DEF Halves
<1>15. d * j = IF j = 0 THEN 0 ELSE d
  <2> HIDE DEF d
  <2> QED BY <1>1, <1>6
<1> HIDE DEF d, e, n, z
<1>16. (y > 4 <=> 2 * g - d > 0) /\ (y = 4 <=> 2 * g - d = 0)
  <2>1. r < 4 * d
    BY <1>3 DEF e
  <2>2. y = IF j = 0 THEN 3 * s1 ELSE 4 + 3 * s1
    BY <1>6, <1>7
  <2>3. j = 0 => 8 * g = r
    BY <1>1, <1>3, <1>12, <1>15
  <2>4. j # 0 => 8 * g = 4 * d + r
    BY <1>1, <1>3, <1>12, <1>15
  <2> HIDE DEF y
  <2>5. CASE j = 0
    BY <1>1, <1>3, <1>7, <1>12, <2>1, <2>2, <2>3, <2>5
  <2>6. CASE j # 0
    BY <1>1, <1>3, <1>7, <1>12, <2>1, <2>2, <2>4, <2>6
  <2> QED BY <2>5, <2>6
<1>17. NearestEven(c, u) = m + (IF 2 * g - d > 0 \/ (2 * g - d = 0 /\ m % 2 = 1) THEN 1 ELSE 0)
  BY <1>13, <1>14 DEF NearestEven, d
<1>18. RoundingStep(0, m % 2 = 1, y) = IF y > 4 \/ (y = 4 /\ m % 2 = 1) THEN 1 ELSE 0
  BY DEF RoundingStep
<1> HIDE DEF y
<1>19. z \div 8 + RoundingStep(0, (z \div 8) % 2 = 1, z % 8) = NearestEven(c, u)
  BY <1>10, <1>16, <1>17, <1>18
<1>20. z \div 8 = c \div d
  BY <1>10, <1>13
<1> QED BY <1>9, <1>19, <1>20 DEF Kept, d, u, z

\* A number with all of its places in the register goes to the left as it is.
LEMMA WholeShifted ==
    ASSUME NEW c \in Nat, NEW t \in 1 .. XLEN, NEW s \in Nat, Whole(s, c, t)
    PROVE  /\ Whole(ShiftedFromSticky(s), c, t - 1)
           /\ ShiftedFromSticky(s) = Sticky(8 * c, 2 * 2 ^ (t - 1))
<1> DEFINE d == 2 ^ (t - 1)
           e == 2 * d
           n == 8 * c
           z == ShiftedFromSticky(s)
<1>1. d \in Nat \ {0} /\ 2 ^ t = 2 * d
  <2>1. 2 ^ t = 2 * 2 ^ (t - 1) /\ t - 1 \in 0 .. XLEN /\ 2 ^ (t - 1) \in Nat \ {0}
    BY Powers, ExponentSizes
  <2> QED BY <2>1
<1>2. z = 2 * s /\ z % 2 = 0
  <2>1. s % 2 = 0
    BY DEF Whole
  <2>2. z = 2 * s
    BY <2>1 DEF ShiftedFromSticky
  <2> HIDE DEF z
  <2> QED BY <2>2
<1>3. s * (2 * d) = n
  BY <1>1 DEF Whole
<1> HIDE DEF z, d
<1>4. z * d = n /\ e * s = n
  <2>1. s * (2 * d) = (2 * s) * d /\ s * (2 * d) = (2 * d) * s
    BY <1>1
  <2> QED BY <1>2, <1>3, <2>1
<1>5. n \div e = s /\ n % e = 0
  <2>1. e \in Nat \ {0} /\ n \in Int /\ s \in Int
    BY <1>1
  <2> DEFINE o == 0
  <2>2. n = e * s + o /\ o \in Int /\ 0 <= o /\ o < e
    <3>1. e * s \in Int
      BY <2>1
    <3> DEFINE y == e * s
    <3> HIDE DEF y
    <3>2. y + 0 = y
      BY <3>1 DEF y
    <3> HIDE DEF e, n
    <3> QED BY <1>4, <2>1, <3>2 DEF y
  <2> HIDE DEF o, e, n
  <2>3. n \div e = s /\ n % e = o
    BY <2>1, <2>2, Division
  <2> QED BY <2>3 DEF o
<1>6. Sticky(n, e) = 2 * s
  <2> HIDE DEF n, e
  <2> QED BY <1>5 DEF Sticky
<1> QED BY <1>2, <1>4, <1>6 DEF Whole, z, d

LEMMA WatchedDown ==
    ASSUME Watched(norm), norm.state # "S_IDLE", ~norm.uf, NEW r, Follows(r),
           norm.cnt # 2 ^ EXP, norm.cnt # 0, r.cnt = norm.cnt - 1
    PROVE  Watched(r) /\ ~r.uf
<1> DEFINE h == 2 ^ (EXP - 1)
           E == 2 ^ EXP
           high(n) == n \div h
           c == norm.cnt
<1>1. /\ r.of <=> norm.of \/ (high(norm.cnt_pre) = 1 /\ high(c) = 2)
      /\ r.uf <=> norm.uf \/ (high(norm.cnt_pre) = 0 /\ high(c) = 3)
  BY DEF Follows
<1>2. c \in 0 .. E /\ (norm.of => c = E) /\ E \in Nat \ {0}
  BY FloatPowers DEF Watched
<1>3. high(c) # 3 /\ (high(c) = 2 <=> c = E)
  BY <1>2, HighestBits
<1> HIDE DEF h, high
<1>4. ~r.uf /\ ~r.of
  BY <1>1, <1>2, <1>3
<1>5. r.cnt \in 0 .. E /\ r.cnt # E
  <2> HIDE DEF E
  <2> QED BY <1>2 DEF E
<1> QED BY <1>4, <1>5 DEF Watched

-----------------------------------------------------------------------------
(* The normalizer with an exact number, state by state.                    *)

\* The number rounded, and the next power of two if the rounding has carried.
RoundedAt(r, c, x, p) == r.cnt = x + p /\ r.sreg = 8 * NearestEven(c, p)
CarriedTo(r, c, x, p) ==
    r.cnt = (x + p) + 1 /\ r.sreg = 8 * 2 ^ MAN /\ NearestEven(c, p) = 2 * 2 ^ MAN
SettledAt(r, c, x, p) == (RoundedAt(r, c, x, p) /\ (r.cnt = 2 ^ EXP => r.of)) \/ CarriedTo(r, c, x, p)
CompleteAt(r, c, x, p) ==
    /\ RoundedAt(r, c, x, p) \/ CarriedTo(r, c, x, p)
    /\ r.cnt = 2 ^ EXP \/ r.sreg \div 2 ^ (MAN + 3) = 1

\* On the way to place p, from one below it or from above.
Moving(r, c, x, p, t) ==
    /\ r.cnt = x + t
    /\ IF t = p THEN Kept(r.sreg, c, p)
       ELSE Coming(r.sreg, c, p, t) /\ (r.left <=> t > p) /\ r.cnt <= AllOnes

\* The flags of an exponent that is none of a normal number.
Limits(c) == IF c = 0 THEN {"uf"} ELSE IF c \in {AllOnes, 2 ^ EXP} THEN {"of"} ELSE {}

Underway(r, c, x, p) ==
    /\ r.class = {} /\ Watched(r) /\ ~r.uf
    /\ r.state # "S_FINALIZE" => r.flags = {}
    /\ r.state = "S_PREPARE_SHIFT" =>
         IF r.norm_r THEN RoundedAt(r, c, x, p)
         ELSE r.cnt <= AllOnes /\ \E t : r.cnt = x + t /\ Coming(r.sreg, c, p, t)
    /\ r.state = "S_NORMALIZE_BUSY" =>
         IF r.norm_r THEN ~r.left /\ SettledAt(r, c, x, p) ELSE \E t : Moving(r, c, x, p, t)
    /\ r.state = "S_ROUND" => r.norm_r /\ r.cnt = x + p /\ Kept(r.sreg, c, p)
    /\ r.state = "S_CHECK" => CompleteAt(r, c, x, p)
    /\ r.state = "S_FINALIZE" => CompleteAt(r, c, x, p) /\ r.flags = Limits(r.cnt)

\* What every step but those of the ends leaves alone.
LEMMA StepKeeps ==
    ASSUME NormalizerTypes, norm.state \in {"S_PREPARE_SHIFT", "S_NORMALIZE_BUSY", "S_ROUND", "S_CHECK"},
           NEW r, Follows(r)
    PROVE  /\ r.sign = norm.sign /\ r.class = norm.class
           /\ norm.state # "S_CHECK" => r.flags = norm.flags
<1>1. /\ NormalizerStep.sign = norm.sign /\ NormalizerStep.class = norm.class
      /\ norm.state # "S_CHECK" => NormalizerStep.flags = norm.flags
  BY DEF NormalizerStep, NormalizeBusy, Rounding, NormalizerTypes, NormalizerRecord
<1> QED BY <1>1 DEF Follows

\* The places that the register comes from.
LEMMA ComingKept ==
    ASSUME NEW c, NEW x, NEW p, IsExact(c, x, p), NEW s, NEW t, Coming(s, c, p, t)
    PROVE  /\ t \in 0 .. XLEN /\ t \in Int /\ p \in Int /\ Kept(s, c, t) /\ s = Sticky(8 * c, 2 * 2 ^ t)
           /\ s \in Nat /\ (t = p - 1 \/ t = p \/ t > p)
<1>1. c \in Nat /\ p \in 1 .. XLEN /\ XLEN \in Nat
  BY ExactTyped
<1>2. t \in 0 .. XLEN /\ s = Sticky(8 * c, 2 * 2 ^ t) /\ (t \in {p - 1, p, p + 1} \/ t > p)
  BY DEF Coming
<1>3. Kept(s, c, t)
  BY <1>1, <1>2, StickyKept
<1>4. t \in Int /\ p \in Int /\ (t = p - 1 \/ t = p \/ t > p)
  BY <1>1, <1>2
<1> QED BY <1>2, <1>3, <1>4 DEF Kept

\* A rounded number in the register is never below the hidden bit.
LEMMA SettledUpper ==
    ASSUME NEW c, NEW x, NEW p, IsExact(c, x, p),
           norm.sreg = 8 * NearestEven(c, p) \/ norm.sreg = 8 * 2 ^ MAN
    PROVE  /\ Upper # 0
           /\ norm.sreg = 8 * 2 ^ MAN => Upper = 1
           /\ Upper # 1 => /\ NearestEven(c, p) = 2 * 2 ^ MAN
                           /\ ShiftedToSticky(norm.sreg) = 8 * 2 ^ MAN
<1> DEFINE P == 2 ^ MAN
<1>1. P \in Nat \ {0} /\ P \in P .. 2 * P
  <2>1. P \in Nat \ {0}
    BY FloatPowers
  <2> HIDE DEF P
  <2> QED BY <2>1
<1>2. PICK R \in P .. 2 * P : norm.sreg = 8 * R /\ (R = P \/ R = NearestEven(c, p))
  BY <1>1, ExactTyped
<1>3. /\ Upper # 0
      /\ Upper # 1 => R = 2 * P /\ ShiftedToSticky(norm.sreg) = 8 * P
  BY <1>2, Carried DEF Upper
<1>4. norm.sreg = 8 * P => R = P
  <2> HIDE DEF P
  <2> QED BY <1>1, <1>2
<1>5. R = P => R # 2 * P
  <2> HIDE DEF P
  <2> QED BY <1>1
<1> QED BY <1>2, <1>3, <1>4, <1>5

LEMMA ShiftPrepared ==
    ASSUME NormalizerTypes, NEW c, NEW x, NEW p, IsExact(c, x, p), Underway(norm, c, x, p),
           norm.state = "S_PREPARE_SHIFT", NEW r, Follows(r)
    PROVE  Underway(r, c, x, p) /\ r.state = "S_NORMALIZE_BUSY"
<1> DEFINE left == (Upper = 0)
           n == [norm EXCEPT !.left = left, !.state = "S_NORMALIZE_BUSY"]
<1>1. NormalizerStep = n
  BY DEF NormalizerStep
<1> HIDE DEF left
<1>2. /\ n.state = "S_NORMALIZE_BUSY" /\ n.cnt = norm.cnt /\ n.sreg = norm.sreg /\ n.left = left
      /\ n.norm_r = norm.norm_r
  BY DEF NormalizerTypes, NormalizerRecord
<1> HIDE DEF n
<1>3. /\ r.state = "S_NORMALIZE_BUSY" /\ r.cnt = norm.cnt /\ r.sreg = norm.sreg /\ r.left = left
      /\ r.norm_r = norm.norm_r /\ r.class = norm.class /\ r.flags = norm.flags
  BY <1>1, <1>2, StepKeeps DEF Follows
<1>4. Watched(r) /\ ~r.uf /\ (r.cnt = 2 ^ EXP => r.of)
  BY <1>3, WatchedStep DEF Underway
<1>5. ASSUME norm.norm_r PROVE ~r.left /\ SettledAt(r, c, x, p)
  <2>1. RoundedAt(norm, c, x, p)
    BY <1>5 DEF Underway
  <2>2. Upper # 0
    BY <2>1, SettledUpper DEF RoundedAt
  <2> QED BY <1>3, <1>4, <2>1, <2>2 DEF RoundedAt, SettledAt, left
<1>6. ASSUME ~norm.norm_r PROVE \E t : Moving(r, c, x, p, t)
  <2>1. norm.cnt <= AllOnes
    BY <1>6 DEF Underway
  <2>2. PICK t : norm.cnt = x + t /\ Coming(norm.sreg, c, p, t)
    BY <1>6 DEF Underway
  <2>3. /\ Kept(norm.sreg, c, t) /\ t \in 0 .. XLEN /\ t \in Int /\ p \in Int
        /\ t = p - 1 \/ t = p \/ t > p
    BY <2>2, ComingKept
  <2>4. /\ t > p => Upper = 0
        /\ t = p - 1 => Upper # 0
    BY <2>3, KeptUpper
  <2>5. t # p => (left <=> t > p)
    BY <2>3, <2>4 DEF left
  <2> QED BY <1>3, <2>1, <2>2, <2>3, <2>5 DEF Moving
<1>7. r.class = {} /\ r.flags = {}
  BY <1>3 DEF Underway
<1> QED BY <1>3, <1>4, <1>5, <1>6, <1>7 DEF Underway

\* At its place the number is rounded next.
LEMMA PlaceReached ==
    ASSUME NormalizerTypes, NEW c, NEW x, NEW p, IsExact(c, x, p), Underway(norm, c, x, p),
           norm.state = "S_NORMALIZE_BUSY", ~norm.norm_r, NEW r, Follows(r), Moving(norm, c, x, p, p)
    PROVE  Underway(r, c, x, p) /\ r.state = "S_ROUND"
<1> DEFINE n == [norm EXCEPT !.norm_r = TRUE, !.state = "S_ROUND"]
<1>1. norm.cnt = x + p /\ Kept(norm.sreg, c, p) /\ p \in 0 .. XLEN
  BY ExactTyped DEF Moving
<1>2. Upper = 1
  BY <1>1, KeptUpper
<1>3. NormalizerStep = n
  BY <1>2 DEF NormalizerStep, NormalizeBusy
<1>4. n.state = "S_ROUND" /\ n.cnt = norm.cnt /\ n.sreg = norm.sreg /\ n.norm_r = TRUE
  BY DEF NormalizerTypes, NormalizerRecord
<1> HIDE DEF n
<1>5. /\ r.state = "S_ROUND" /\ r.cnt = norm.cnt /\ r.sreg = norm.sreg /\ r.norm_r
      /\ r.class = {} /\ r.flags = {}
  <2>1. norm.class = {} /\ norm.flags = {}
    BY DEF Underway
  <2> QED BY <1>3, <1>4, <2>1, StepKeeps DEF Follows
<1>6. Watched(r) /\ ~r.uf
  BY <1>5, WatchedStep DEF Underway
<1> QED BY <1>1, <1>5, <1>6 DEF Underway

LEMMA PlaceBelow ==
    ASSUME NormalizerTypes, NEW c, NEW x, NEW p, IsExact(c, x, p), Underway(norm, c, x, p),
           norm.state = "S_NORMALIZE_BUSY", ~norm.norm_r, NEW r, Follows(r),
           Moving(norm, c, x, p, p - 1)
    PROVE  Underway(r, c, x, p) /\ r.state = "S_NORMALIZE_BUSY"
<1> DEFINE t == p - 1
           s == ShiftedToSticky(norm.sreg)
           e == (norm.cnt + 1) % 2 ^ (EXP + 1)
           n == [norm EXCEPT !.cnt = e, !.sreg = s]
<1>1. /\ c \in Nat /\ x \in Int /\ p \in 1 .. XLEN /\ p \in Int /\ x + p \in 0 .. 2 ^ EXP
      /\ XLEN \in Nat
  BY ExactTyped
<1>2. t # p /\ t \in 0 .. XLEN /\ ~(t > p) /\ p - 1 = t
  BY <1>1
<1>3. /\ norm.cnt = x + t /\ Coming(norm.sreg, c, p, t) /\ ~norm.left /\ norm.cnt <= AllOnes
  <2> HIDE DEF t
  <2> QED BY <1>2 DEF Moving
<1>4. Kept(norm.sreg, c, t) /\ norm.sreg = Sticky(8 * c, 2 * 2 ^ t)
  BY <1>3, ComingKept
<1>5. Upper # 1
  BY <1>2, <1>4, KeptUpper
<1>6. /\ norm.cnt \in 0 .. 2 ^ EXP /\ norm.cnt < 2 ^ EXP /\ norm.cnt # 2 ^ EXP /\ ~norm.of
      /\ ~norm.uf /\ norm.class = {} /\ norm.flags = {}
  <2>1. /\ norm.cnt \in 0 .. 2 ^ EXP /\ (norm.of => norm.cnt = 2 ^ EXP)
        /\ ~norm.uf /\ norm.class = {} /\ norm.flags = {}
    BY DEF Underway, Watched
  <2>2. AllOnes = 2 ^ EXP - 1 /\ 2 ^ EXP \in Nat
    BY FloatPowers DEF AllOnes
  <2>3. norm.cnt < 2 ^ EXP
    BY <1>3, <2>1, <2>2
  <2> QED BY <2>1, <2>2, <2>3
<1>7. NormalizerStep = n
  BY <1>3, <1>5, <1>6 DEF NormalizerStep, NormalizeBusy
<1>8. e = norm.cnt + 1
  BY <1>6, HighestBits
<1>9. s = Sticky(8 * c, 2 * 2 ^ p)
  <2> DEFINE y == 8 * c
             d == 2 * 2 ^ t
  <2>1. y \in Nat /\ d \in Nat \ {0} /\ 2 ^ p = 2 * 2 ^ t
    <3>1. 2 ^ p = 2 * 2 ^ (p - 1) /\ p - 1 \in 0 .. XLEN /\ 2 ^ (p - 1) \in Nat \ {0}
      BY <1>1, Powers, ExponentSizes
    <3> QED BY <1>1, <3>1
  <2>2. norm.sreg = Sticky(y, d)
    BY <1>4
  <2> HIDE DEF y, d
  <2>3. ShiftedToSticky(Sticky(y, d)) = Sticky(y, 2 * d)
    BY <2>1, StickyShifted
  <2>4. 2 * d = 2 * 2 ^ p
    BY <2>1 DEF d
  <2> QED BY <2>2, <2>3, <2>4 DEF y
<1>10. Kept(s, c, p)
  <2> HIDE DEF s
  <2> QED BY <1>1, <1>9, StickyKept, ExactTyped
<1> HIDE DEF e, s
<1>11. /\ n.state = "S_NORMALIZE_BUSY" /\ n.cnt = e /\ n.sreg = s /\ n.left = norm.left
       /\ n.norm_r = norm.norm_r
  BY DEF NormalizerTypes, NormalizerRecord
<1> HIDE DEF n
<1>12. /\ r.state = "S_NORMALIZE_BUSY" /\ r.cnt = e /\ r.sreg = s /\ ~r.norm_r
       /\ r.class = {} /\ r.flags = {}
  BY <1>6, <1>7, <1>11, StepKeeps DEF Follows
<1>13. r.cnt = norm.cnt + 1 /\ r.cnt <= 2 ^ EXP /\ r.cnt = x + p
  <2>1. r.cnt = norm.cnt + 1
    BY <1>8, <1>12
  <2>2. 2 ^ EXP \in Nat
    BY FloatPowers
  <2> QED BY <1>1, <1>3, <2>1, <2>2
<1>14. Watched(r) /\ ~r.uf
  BY <1>12, <1>13, WatchedStep DEF Underway
<1>15. Moving(r, c, x, p, p)
  BY <1>10, <1>12, <1>13 DEF Moving
<1> QED BY <1>12, <1>14, <1>15 DEF Underway

LEMMA PlaceAbove ==
    ASSUME NormalizerTypes, NEW c, NEW x, NEW p, IsExact(c, x, p), Underway(norm, c, x, p),
           norm.state = "S_NORMALIZE_BUSY", ~norm.norm_r, NEW r, Follows(r),
           NEW t, t > p, t # p, Moving(norm, c, x, p, t)
    PROVE  Underway(r, c, x, p) /\ r.state = "S_NORMALIZE_BUSY"
<1> DEFINE u == t - 1
           s == ShiftedFromSticky(norm.sreg)
           e == (norm.cnt - 1) % 2 ^ (EXP + 1)
           n == [norm EXCEPT !.cnt = e, !.sreg = s]
<1>1. /\ c \in Nat /\ x \in Int /\ p \in 1 .. XLEN /\ p \in Int /\ x + p \in 0 .. 2 ^ EXP
      /\ XLEN \in Nat /\ 2 ^ EXP \in Nat
  BY ExactTyped, FloatPowers
<1>2. norm.cnt = x + t /\ Coming(norm.sreg, c, p, t) /\ norm.left /\ norm.cnt <= AllOnes
  BY DEF Moving
<1>3. /\ Kept(norm.sreg, c, t) /\ norm.sreg = Sticky(8 * c, 2 * 2 ^ t) /\ t \in 0 .. XLEN
      /\ t \in Int /\ norm.sreg \in Nat
  BY <1>2, ComingKept
<1>4. Upper = 0
  BY <1>3, KeptUpper
<1>5. /\ norm.cnt \in 0 .. 2 ^ EXP /\ norm.cnt # 2 ^ EXP /\ ~norm.of
      /\ ~norm.uf /\ norm.class = {} /\ norm.flags = {}
  <2>1. /\ norm.cnt \in 0 .. 2 ^ EXP /\ (norm.of => norm.cnt = 2 ^ EXP)
        /\ ~norm.uf /\ norm.class = {} /\ norm.flags = {}
    BY DEF Underway, Watched
  <2>2. AllOnes = 2 ^ EXP - 1
    BY DEF AllOnes
  <2>3. norm.cnt # 2 ^ EXP
    BY <1>1, <1>2, <2>1, <2>2
  <2> QED BY <2>1, <2>3
<1>6. NormalizerStep = n
  BY <1>2, <1>4, <1>5 DEF NormalizerStep, NormalizeBusy
<1>7. t \in 1 .. XLEN /\ u \in 0 .. XLEN /\ u >= p /\ u \in Int /\ norm.cnt # 0 /\ norm.cnt - 1 = x + u
  BY <1>1, <1>2, <1>3
<1>8. e = norm.cnt - 1
  <2> DEFINE F == 2 ^ (EXP + 1)
             v == norm.cnt - 1
  <2>1. F \in Nat \ {0} /\ F = 2 * 2 ^ EXP
    BY ExponentSizes, RegisterWidths, FloatPowers
  <2>2. v \in 0 .. F - 1
    BY <1>1, <1>5, <1>7, <2>1
  <2> HIDE DEF F, v
  <2>3. v % F = v
    BY <2>1, <2>2, SmallReduced
  <2> QED BY <2>3 DEF v, F
<1>9. ASSUME u = p PROVE Kept(s, c, p)
  <2>1. Kept(s, c, t - 1)
    BY <1>1, <1>3, <1>7, KeptFromSticky
  <2> QED BY <1>9, <2>1
<1>10. ASSUME u # p PROVE Coming(s, c, p, u) /\ u > p
  <2>1. u > p /\ t \notin {p - 1, p, p + 1}
    BY <1>1, <1>3, <1>7, <1>10
  <2>2. Whole(norm.sreg, c, t)
    BY <1>2, <2>1 DEF Coming
  <2>3. Whole(s, c, u) /\ s = Sticky(8 * c, 2 * 2 ^ u)
    BY <1>1, <1>3, <1>7, <2>2, WholeShifted
  <2> HIDE DEF s, u
  <2> QED BY <1>7, <2>1, <2>3 DEF Coming
<1> HIDE DEF e, s, u
<1>11. /\ n.state = "S_NORMALIZE_BUSY" /\ n.cnt = e /\ n.sreg = s /\ n.left = norm.left
       /\ n.norm_r = norm.norm_r
  BY DEF NormalizerTypes, NormalizerRecord
<1> HIDE DEF n
<1>12. /\ r.state = "S_NORMALIZE_BUSY" /\ r.cnt = e /\ r.sreg = s /\ ~r.norm_r /\ r.left
       /\ r.class = {} /\ r.flags = {}
  BY <1>2, <1>5, <1>6, <1>11, StepKeeps DEF Follows
<1>13. r.cnt = norm.cnt - 1 /\ r.cnt = x + u /\ r.cnt <= AllOnes
  <2>1. r.cnt = norm.cnt - 1
    BY <1>8, <1>12
  <2>2. AllOnes = 2 ^ EXP - 1
    BY DEF AllOnes
  <2> QED BY <1>1, <1>2, <1>5, <1>7, <2>1, <2>2
<1>14. Watched(r) /\ ~r.uf
  BY <1>5, <1>7, <1>13, WatchedDown DEF Underway
<1>15. Moving(r, c, x, p, u)
  BY <1>9, <1>10, <1>12, <1>13 DEF Moving
<1> QED BY <1>12, <1>14, <1>15 DEF Underway

\* The rounding to the nearest, from the bits below the last place.
LEMMA RoundedNext ==
    ASSUME NormalizerTypes, NEW c, NEW x, NEW p, IsExact(c, x, p), Underway(norm, c, x, p),
           fpu.frm = 0, norm.state = "S_ROUND", NEW r, Follows(r)
    PROVE  Underway(r, c, x, p) /\ r.state = "S_PREPARE_SHIFT"
<1> DEFINE k == norm.sreg \div 8
           kept == k % 2 ^ (MAN + 1)
           step == RoundingStep(fpu.frm, kept % 2 = 1, norm.sreg % 8)
           P == 2 ^ MAN
           m == (kept + step) % 2 ^ (MAN + 2)
           s == 8 * m
           rounded == norm.rounded \/ step # 0
           n == [norm EXCEPT !.rounded = rounded, !.state = "S_PREPARE_SHIFT", !.sreg = s]
           R == NearestEven(c, p)
<1>1. norm.cnt = x + p /\ Kept(norm.sreg, c, p) /\ norm.norm_r
  BY DEF Underway
<1>2. /\ R \in P .. 2 * P /\ c \div 2 ^ p \in P .. 2 * P - 1
      /\ P \in Nat \ {0} /\ 2 ^ (MAN + 1) = 2 * P /\ 2 ^ (MAN + 2) = 4 * P
  BY ExactTyped, FloatPowers, RegisterWidths
<1>3. k = c \div 2 ^ p /\ k + RoundingStep(0, k % 2 = 1, norm.sreg % 8) = R
  BY <1>1 DEF Kept
<1>4. kept = k
  <2> DEFINE d == 2 ^ (MAN + 1)
  <2>1. d \in Nat \ {0} /\ k \in 0 .. d - 1
    <3>1. k \in P .. 2 * P - 1
      BY <1>2, <1>3
    <3> HIDE DEF k, P
    <3> QED BY <1>2, <3>1
  <2> HIDE DEF d, k
  <2>2. k % d = k
    BY <2>1, SmallReduced
  <2> QED BY <2>2 DEF d
<1>5. kept + step = R
  BY <1>3, <1>4
<1>6. m = R
  <2> DEFINE d == 2 ^ (MAN + 2)
  <2>1. d \in Nat \ {0} /\ R \in 0 .. d - 1
    <3>1. R \in P .. 2 * P
      BY <1>2
    <3> HIDE DEF R, P
    <3> QED BY <1>2, <3>1
  <2> HIDE DEF R, d
  <2>2. R % d = R
    BY <2>1, SmallReduced
  <2> QED BY <1>5, <2>2 DEF R, d
<1>7. NormalizerStep = n
  BY DEF NormalizerStep, Rounding
<1>8. s = 8 * NearestEven(c, p)
  BY <1>6
<1> HIDE DEF s, rounded
<1>9. /\ n.state = "S_PREPARE_SHIFT" /\ n.cnt = norm.cnt /\ n.sreg = s /\ n.norm_r = norm.norm_r
  BY DEF NormalizerTypes, NormalizerRecord
<1> HIDE DEF n
<1>10. /\ r.state = "S_PREPARE_SHIFT" /\ r.cnt = norm.cnt /\ r.sreg = s /\ r.norm_r
       /\ r.class = {} /\ r.flags = {}
  <2>1. norm.class = {} /\ norm.flags = {}
    BY DEF Underway
  <2> QED BY <1>1, <1>7, <1>9, <2>1, StepKeeps DEF Follows
<1>11. Watched(r) /\ ~r.uf
  BY <1>10, WatchedStep DEF Underway
<1>12. RoundedAt(r, c, x, p)
  BY <1>1, <1>8, <1>10 DEF RoundedAt
<1> QED BY <1>10, <1>11, <1>12 DEF Underway

\* Of a rounded number that the rounding has carried: one place more.
LEMMA SettledNext ==
    ASSUME NormalizerTypes, NEW c, NEW x, NEW p, IsExact(c, x, p), Underway(norm, c, x, p),
           norm.state = "S_NORMALIZE_BUSY", norm.norm_r, NEW r, Follows(r)
    PROVE  Underway(r, c, x, p) /\ r.state \in {"S_NORMALIZE_BUSY", "S_CHECK"}
<1>1. (RoundedAt(norm, c, x, p) /\ (norm.cnt = 2 ^ EXP => norm.of)) \/ CarriedTo(norm, c, x, p)
  BY DEF Underway, SettledAt
<1>2. /\ NormalizerStep = NormalizeBusy /\ ~norm.left /\ norm.class = {} /\ norm.flags = {}
      /\ ~norm.uf
  BY DEF NormalizerStep, Underway
<1>3. /\ norm.sreg = 8 * 2 ^ MAN => Upper = 1
      /\ Upper # 1 => /\ NearestEven(c, p) = 2 * 2 ^ MAN
                      /\ ShiftedToSticky(norm.sreg) = 8 * 2 ^ MAN
  BY <1>1, SettledUpper DEF RoundedAt, CarriedTo
<1>4. CASE Upper = 1 \/ norm.of
  <2> DEFINE n == [norm EXCEPT !.norm_r = TRUE, !.state = "S_CHECK"]
  <2>1. NormalizerStep = n
    BY <1>2, <1>4 DEF NormalizeBusy
  <2>2. n.state = "S_CHECK" /\ n.cnt = norm.cnt /\ n.sreg = norm.sreg /\ n.norm_r = TRUE
    BY DEF NormalizerTypes, NormalizerRecord
  <2> HIDE DEF n
  <2>3. /\ r.state = "S_CHECK" /\ r.cnt = norm.cnt /\ r.sreg = norm.sreg /\ r.norm_r
        /\ r.class = {} /\ r.flags = {}
    BY <1>2, <2>1, <2>2, StepKeeps DEF Follows
  <2>4. Watched(r) /\ ~r.uf
    BY <2>3, WatchedStep DEF Underway
  <2>5. RoundedAt(r, c, x, p) \/ CarriedTo(r, c, x, p)
    BY <1>1, <2>3 DEF RoundedAt, CarriedTo
  <2>6. r.cnt = 2 ^ EXP \/ r.sreg \div 2 ^ (MAN + 3) = 1
    <3>1. norm.of => norm.cnt = 2 ^ EXP
      BY DEF Underway, Watched
    <3> QED BY <1>4, <2>3, <3>1 DEF Upper
  <2>7. CompleteAt(r, c, x, p)
    BY <2>5, <2>6 DEF CompleteAt
  <2> QED BY <2>3, <2>4, <2>7 DEF Underway
<1>5. CASE Upper # 1 /\ ~norm.of
  <2> DEFINE s == ShiftedToSticky(norm.sreg)
             e == (norm.cnt + 1) % 2 ^ (EXP + 1)
             n == [norm EXCEPT !.cnt = e, !.sreg = s]
  <2>1. NormalizerStep = n
    BY <1>2, <1>5 DEF NormalizeBusy
  <2>2. RoundedAt(norm, c, x, p) /\ norm.cnt # 2 ^ EXP
    BY <1>1, <1>3, <1>5 DEF CarriedTo
  <2>3. norm.cnt \in 0 .. 2 ^ EXP /\ norm.cnt < 2 ^ EXP /\ 2 ^ EXP \in Nat
    <3>1. norm.cnt \in 0 .. 2 ^ EXP /\ 2 ^ EXP \in Nat
      BY FloatPowers DEF Underway, Watched
    <3> QED BY <2>2, <3>1
  <2>4. e = norm.cnt + 1
    BY <2>3, HighestBits
  <2>5. s = 8 * 2 ^ MAN /\ NearestEven(c, p) = 2 * 2 ^ MAN
    BY <1>3, <1>5
  <2> HIDE DEF e, s
  <2>6. /\ n.state = "S_NORMALIZE_BUSY" /\ n.cnt = e /\ n.sreg = s /\ n.left = norm.left
        /\ n.norm_r = norm.norm_r
    BY DEF NormalizerTypes, NormalizerRecord
  <2> HIDE DEF n
  <2>7. /\ r.state = "S_NORMALIZE_BUSY" /\ r.cnt = e /\ r.sreg = s /\ ~r.left /\ r.norm_r
        /\ r.class = {} /\ r.flags = {}
    BY <1>2, <2>1, <2>6, StepKeeps DEF Follows
  <2>8. r.cnt = norm.cnt + 1 /\ r.cnt <= 2 ^ EXP
    BY <2>3, <2>4, <2>7
  <2>9. Watched(r) /\ ~r.uf
    BY <2>7, <2>8, WatchedStep DEF Underway
  <2>10. CarriedTo(r, c, x, p)
    BY <2>2, <2>5, <2>7, <2>8 DEF RoundedAt, CarriedTo
  <2> QED BY <2>7, <2>9, <2>10 DEF Underway, SettledAt
<1> QED BY <1>4, <1>5

LEMMA CheckedNext ==
    ASSUME NormalizerTypes, NEW c, NEW x, NEW p, Underway(norm, c, x, p), norm.state = "S_CHECK",
           NEW r, Follows(r)
    PROVE  Underway(r, c, x, p) /\ r.state = "S_FINALIZE"
<1> DEFINE flags == norm.flags \union RangeFlags
           n == [norm EXCEPT !.flags = flags, !.state = "S_FINALIZE"]
           k == norm.cnt
           E == 2 ^ EXP
<1>1. norm.flags = {} /\ norm.class = {} /\ CompleteAt(norm, c, x, p) /\ k \in 0 .. E
      /\ (norm.of <=> k = E) /\ E \in Nat \ {0} /\ ~norm.uf
  BY FloatPowers DEF Underway, Watched
<1>2. RangeFlags = Limits(k)
  <2>1. /\ k < E => k % E = k
        /\ k = E => k # 0
        /\ AllOnes = E - 1 /\ AllOnes # 0
    BY <1>1, HighestBits
  <2>2. k < E <=> k # E
    <3> HIDE DEF E, k
    <3> QED BY <1>1
  <2> HIDE DEF E, k
  <2>3. RangeFlags = CASE norm.of -> {"of"}
                       [] ~norm.of /\ k % E = 0 -> {"uf"}
                       [] ~norm.of /\ k % E = AllOnes -> {"of"}
                       [] OTHER -> {}
    BY <1>1 DEF RangeFlags, k, E
  <2>4. Limits(k) = IF k = 0 THEN {"uf"} ELSE IF k \in {AllOnes, E} THEN {"of"} ELSE {}
    BY DEF Limits, E
  <2>5. CASE norm.of
    BY <1>1, <2>1, <2>3, <2>4, <2>5
  <2>6. CASE ~norm.of
    <3>1. k % E = k /\ k # E
      BY <1>1, <2>1, <2>2, <2>6
    <3> QED BY <2>1, <2>3, <2>4, <2>6, <3>1
  <2> QED BY <2>5, <2>6
<1>3. NormalizerStep = n
  BY DEF NormalizerStep
<1>4. flags = Limits(k)
  BY <1>1, <1>2
<1> HIDE DEF flags
<1>5. n.state = "S_FINALIZE" /\ n.cnt = k /\ n.sreg = norm.sreg /\ n.flags = flags
  BY DEF NormalizerTypes, NormalizerRecord
<1> HIDE DEF n
<1>6. /\ r.state = "S_FINALIZE" /\ r.cnt = k /\ r.sreg = norm.sreg /\ r.flags = flags /\ r.class = {}
  BY <1>1, <1>3, <1>5, StepKeeps DEF Follows
<1>7. Watched(r) /\ ~r.uf
  BY <1>1, <1>6, WatchedStep DEF Underway
<1>8. CompleteAt(r, c, x, p)
  BY <1>1, <1>6 DEF CompleteAt, RoundedAt, CarriedTo
<1> QED BY <1>4, <1>6, <1>7, <1>8 DEF Underway

\* One period of the normalizer on the way to a normal number.
LEMMA UnderwayStep ==
    ASSUME NormalizerTypes, NEW c, NEW x, NEW p, IsExact(c, x, p), Underway(norm, c, x, p),
           fpu.frm = 0,
           norm.state \in {"S_PREPARE_SHIFT", "S_NORMALIZE_BUSY", "S_ROUND", "S_CHECK"},
           NEW r, Follows(r)
    PROVE  /\ Underway(r, c, x, p) /\ r.sign = norm.sign
           /\ r.state \in {"S_PREPARE_SHIFT", "S_NORMALIZE_BUSY", "S_ROUND", "S_CHECK", "S_FINALIZE"}
<1>1. r.sign = norm.sign
  BY StepKeeps
<1>2. CASE norm.state = "S_PREPARE_SHIFT"
  BY <1>1, <1>2, ShiftPrepared
<1>3. CASE norm.state = "S_ROUND"
  BY <1>1, <1>3, RoundedNext
<1>4. CASE norm.state = "S_CHECK"
  BY <1>1, <1>4, CheckedNext
<1>5. CASE norm.state = "S_NORMALIZE_BUSY" /\ norm.norm_r
  BY <1>1, <1>5, SettledNext
<1>6. CASE norm.state = "S_NORMALIZE_BUSY" /\ ~norm.norm_r
  <2>1. PICK t : Moving(norm, c, x, p, t)
    BY <1>6 DEF Underway
  <2>2. t = p \/ t = p - 1 \/ (t # p /\ t > p)
    <3>1. t # p => Coming(norm.sreg, c, p, t)
      BY <2>1 DEF Moving
    <3>2. t # p => t = p - 1 \/ t > p
      BY <3>1, ComingKept
    <3> QED BY <3>2
  <2>3. CASE t = p
    BY <1>1, <1>6, <2>1, <2>3, PlaceReached
  <2>4. CASE t = p - 1
    <3>1. Moving(norm, c, x, p, p - 1)
      BY <2>1, <2>4
    <3> QED BY <1>1, <1>6, <3>1, PlaceBelow
  <2>5. CASE t # p /\ t > p
    BY <1>1, <1>6, <2>1, <2>5, PlaceAbove
  <2> QED BY <2>2, <2>3, <2>4, <2>5
<1> QED BY <1>2, <1>3, <1>4, <1>5, <1>6

-----------------------------------------------------------------------------
(* The normalizer with 0, or with a number below the smallest exponents: its *)
(* counter passes 0 before the highest one comes to the hidden bit.        *)

IsBelow(c, x, p) ==
    c = 0 \/ (c \in Nat /\ p # 0 /\ IsSignificand(c, p) /\ x \in Int /\ x + p < 0)

SinkingAt(r, c, x, p) ==
    /\ r.cnt \in 0 .. AllOnes
    /\ IF c = 0 THEN r.sreg = 0 ELSE \E t : r.cnt = x + t /\ t > p /\ Coming(r.sreg, c, p, t)

Sinking(r, c, x, p) ==
    /\ r.class = {} /\ r.flags = IF r.state = "S_FINALIZE" THEN {"uf"} ELSE {}
    /\ ~r.uf =>
         /\ ~r.of /\ ~r.norm_r
         /\ \/ r.state = "S_PREPARE_SHIFT" /\ SinkingAt(r, c, x, p)
            \/ r.state = "S_NORMALIZE_BUSY" /\ r.left /\ SinkingAt(r, c, x, p)
            \/ r.state = "S_NORMALIZE_BUSY" /\ r.cnt = 2 ^ (EXP + 1) - 1 /\ r.cnt_pre = 0

\* The highest one is not there yet, and comes one place nearer.
LEMMA SinkingUpper ==
    ASSUME NEW c, NEW x, NEW p, IsBelow(c, x, p), SinkingAt(norm, c, x, p)
    PROVE  /\ Upper = 0
           /\ norm.cnt # 0 /\ c # 0 =>
                \E u : /\ norm.cnt - 1 = x + u /\ u > p
                       /\ Coming(ShiftedFromSticky(norm.sreg), c, p, u)
<1>1. CASE c = 0
  <2>1. norm.sreg = 0
    BY <1>1 DEF SinkingAt
  <2>2. 2 ^ MAN \in Nat \ {0} /\ 0 \div 8 = 0
    BY FloatPowers
  <2>3. Upper = 0
    BY <2>1, <2>2, UpperOf DEF Upper
  <2> QED BY <1>1, <2>3
<1>2. CASE c # 0
  <2>1. c \in Nat /\ p # 0 /\ IsSignificand(c, p) /\ x \in Int /\ x + p < 0
    BY <1>2 DEF IsBelow
  <2>2. PICK t : norm.cnt = x + t /\ t > p /\ Coming(norm.sreg, c, p, t)
    BY <1>2 DEF SinkingAt
  <2>3. p \in 1 .. XLEN /\ XLEN \in Nat /\ p \in Int
    BY <2>1, ExponentSizes DEF IsSignificand
  <2>4. IsExact(c, -p, p)
    <3>1. -p \in Int /\ (-p) + p = 0 /\ 0 \in 0 .. 2 ^ EXP
      BY <2>3, FloatPowers
    <3> QED BY <2>1, <3>1 DEF IsExact
  <2>5. /\ Kept(norm.sreg, c, t) /\ t \in 0 .. XLEN /\ t \in Int /\ norm.sreg \in Nat
    BY <2>2, <2>4, ComingKept
  <2>6. Upper = 0
    BY <2>2, <2>4, <2>5, KeptUpper
  <2>7. ASSUME norm.cnt # 0
        PROVE  \E u : /\ norm.cnt - 1 = x + u /\ u > p
                      /\ Coming(ShiftedFromSticky(norm.sreg), c, p, u)
    <3> DEFINE u == t - 1
               s == ShiftedFromSticky(norm.sreg)
    <3>1. norm.cnt \in 0 .. AllOnes /\ AllOnes \in Nat
      BY FloatPowers DEF SinkingAt, AllOnes
    <3>2. norm.cnt >= 1
      BY <2>7, <3>1
    <3>3. /\ t \in 1 .. XLEN /\ t \notin {p - 1, p, p + 1} /\ u \in 0 .. XLEN /\ u > p
          /\ norm.cnt - 1 = x + u
      BY <2>1, <2>2, <2>3, <2>5, <3>2
    <3>4. Whole(norm.sreg, c, t)
      BY <2>2, <3>3 DEF Coming
    <3>5. Whole(s, c, u) /\ s = Sticky(8 * c, 2 * 2 ^ u)
      BY <2>1, <2>5, <3>3, <3>4, WholeShifted
    <3> HIDE DEF s, u
    <3> QED BY <3>3, <3>5 DEF Coming, s
  <2> QED BY <2>6, <2>7
<1> QED BY <1>1, <1>2

LEMMA ZeroFromSticky == ShiftedFromSticky(0) = 0
BY DEF ShiftedFromSticky

\* The highest bits of the counter before it passes 0, and after.
LEMMA BelowZero ==
    LET h == 2 ^ (EXP - 1)
        F == 2 ^ (EXP + 1)
    IN  /\ (F - 1) \div h = 3 /\ 0 \div h = 0 /\ F - 1 = (0 - 1) % F
        /\ \A n \in 0 .. AllOnes : n \div h \notin {2, 3}
        /\ \A n \in 1 .. AllOnes : (n - 1) % F = n - 1 /\ n - 1 \in 0 .. AllOnes
<1> DEFINE h == 2 ^ (EXP - 1)
           F == 2 ^ (EXP + 1)
           E == 2 ^ EXP
           A == AllOnes
<1>1. h \in Nat \ {0} /\ F = 4 * h /\ A = 2 * h - 1 /\ E = 2 * h
  <2>1. /\ Bias \in Nat /\ h = Bias + 1 /\ E = 2 * Bias + 2 /\ AllOnes = 2 * Bias + 1 /\ F = 2 * E
    BY ExponentSizes, RegisterWidths
  <2> HIDE DEF h, E, F, A
  <2> QED BY <2>1 DEF A
<1> HIDE DEF h, F, E, A
<1>2. (F - 1) \div h = 3 /\ 0 \div h = 0 /\ (0 - 1) % F = F - 1
  <2> DEFINE a == F - 1
             b == h - 1
             z == 0
             three == 3
             m == -1
  <2>1. a = h * three + b /\ a \in Int /\ b \in Int /\ 0 <= b /\ b < h /\ three \in Int
    BY <1>1
  <2>2. z = h * z + z /\ z \in Int /\ 0 <= z /\ z < h
    BY <1>1
  <2>3. m = F * m + a /\ m \in Int /\ a \in Int /\ 0 <= a /\ a < F /\ F \in Nat \ {0}
    BY <1>1
  <2>4. 0 - 1 = m
    OBVIOUS
  <2> HIDE DEF a, b, z, three, m
  <2>5. a \div h = three
    BY <1>1, <2>1, Division
  <2>6. z \div h = z
    BY <1>1, <2>2, Division
  <2>7. m % F = a
    BY <2>3, Division
  <2> QED BY <2>4, <2>5, <2>6, <2>7 DEF a, z, three
<1>3. ASSUME NEW n \in 0 .. A PROVE n \div h \notin {2, 3}
  <2> DEFINE q == n \div h
             r == n % h
  <2>1. n \in Int
    BY <1>1
  <2>2. q \in Int /\ r \in Int /\ 0 <= r /\ r < h /\ n = h * q + r
    BY <1>1, <2>1, DivMod
  <2> HIDE DEF q, r
  <2>3. q = 2 => n >= 2 * h
    BY <1>1, <2>2
  <2>4. q = 3 => n >= 2 * h
    BY <1>1, <2>2
  <2> QED BY <1>1, <2>3, <2>4 DEF q
<1>4. ASSUME NEW n \in 1 .. A PROVE (n - 1) % F = n - 1 /\ n - 1 \in 0 .. A
  <2> DEFINE k == n - 1
  <2>1. k \in 0 .. F - 1 /\ F \in Nat \ {0} /\ k \in 0 .. A
    BY <1>1
  <2> HIDE DEF k
  <2>2. k % F = k
    BY <2>1, SmallReduced
  <2> QED BY <2>1, <2>2 DEF k
<1> QED BY <1>2, <1>3, <1>4 DEF h, F, A

\* One period of it.
LEMMA SinkingStep ==
    ASSUME NormalizerTypes, NEW c, NEW x, NEW p, IsBelow(c, x, p), Sinking(norm, c, x, p),
           norm.state \in {"S_PREPARE_SHIFT", "S_NORMALIZE_BUSY", "S_ROUND", "S_CHECK"},
           NEW r, Follows(r)
    PROVE  /\ Sinking(r, c, x, p) /\ r.sign = norm.sign
           /\ r.state \in {"S_PREPARE_SHIFT", "S_NORMALIZE_BUSY", "S_ROUND", "S_CHECK", "S_FINALIZE"}
<1> DEFINE high(n) == n \div 2 ^ (EXP - 1)
           F == 2 ^ (EXP + 1)
<1>1. r.sign = norm.sign /\ r.class = {} /\ norm.flags = {} /\ norm.class = {}
      /\ (norm.state # "S_CHECK" => r.flags = {})
  BY StepKeeps DEF Sinking
<1>2. /\ r.state = NormalizerStep.state /\ r.norm_r = NormalizerStep.norm_r
      /\ r.cnt = NormalizerStep.cnt /\ r.flags = NormalizerStep.flags
      /\ r.sreg = NormalizerStep.sreg /\ r.left = NormalizerStep.left /\ r.cnt_pre = norm.cnt
      /\ r.of <=> norm.of \/ (high(norm.cnt_pre) = 1 /\ high(norm.cnt) = 2)
      /\ r.uf <=> norm.uf \/ (high(norm.cnt_pre) = 0 /\ high(norm.cnt) = 3)
  BY DEF Follows
<1> USE DEF NormalizerTypes, NormalizerRecord
<1>3. CASE norm.state = "S_CHECK"
  <2>1. norm.uf
    BY <1>3 DEF Sinking
  <2>2. RangeFlags = {"uf"}
    BY <2>1 DEF RangeFlags
  <2>3. NormalizerStep.state = "S_FINALIZE" /\ NormalizerStep.flags = {"uf"}
    BY <1>1, <1>3, <2>2 DEF NormalizerStep
  <2> QED BY <1>1, <1>2, <2>1, <2>3 DEF Sinking
<1>4. CASE norm.state = "S_ROUND"
  <2>1. norm.uf
    BY <1>4 DEF Sinking
  <2>2. NormalizerStep.state = "S_PREPARE_SHIFT"
    BY <1>4 DEF NormalizerStep, Rounding
  <2> QED BY <1>1, <1>2, <1>4, <2>1, <2>2 DEF Sinking
<1>5. CASE norm.state = "S_PREPARE_SHIFT"
  <2>1. /\ NormalizerStep.state = "S_NORMALIZE_BUSY" /\ NormalizerStep.cnt = norm.cnt
        /\ NormalizerStep.sreg = norm.sreg /\ NormalizerStep.left = (Upper = 0)
        /\ NormalizerStep.norm_r = norm.norm_r
    BY <1>5 DEF NormalizerStep
  <2>2. CASE norm.uf
    BY <1>1, <1>2, <1>5, <2>1, <2>2 DEF Sinking
  <2>3. CASE ~norm.uf
    <3>1. SinkingAt(norm, c, x, p) /\ ~norm.of /\ ~norm.norm_r
      BY <1>5, <2>3 DEF Sinking
    <3>2. norm.cnt \in 0 .. AllOnes /\ Upper = 0
      BY <3>1, SinkingUpper DEF SinkingAt
    <3>3. high(norm.cnt) \notin {2, 3}
      BY <3>2, BelowZero
    <3>4. ~r.of /\ ~r.uf /\ ~r.norm_r /\ r.left
      BY <1>2, <2>1, <2>3, <3>1, <3>2, <3>3
    <3>5. SinkingAt(r, c, x, p)
      BY <1>2, <2>1, <3>1 DEF SinkingAt
    <3> QED BY <1>1, <1>2, <1>5, <2>1, <3>4, <3>5 DEF Sinking
  <2> QED BY <2>2, <2>3
<1>6. CASE norm.state = "S_NORMALIZE_BUSY"
  <2>0. NormalizerStep = NormalizeBusy
    BY <1>6 DEF NormalizerStep
  <2>1. CASE norm.uf
    <3>1. NormalizerStep.state \in {"S_ROUND", "S_CHECK"}
      BY <2>0, <2>1 DEF NormalizeBusy
    <3> QED BY <1>1, <1>2, <1>6, <2>1, <3>1 DEF Sinking
  <2>2. CASE ~norm.uf /\ norm.cnt = F - 1 /\ norm.cnt_pre = 0
    <3>1. r.uf
      BY <1>2, <2>2, BelowZero
    <3>2. NormalizerStep.state \in {"S_ROUND", "S_CHECK", "S_NORMALIZE_BUSY"}
      BY <1>6, <2>0 DEF NormalizeBusy
    <3> QED BY <1>1, <1>2, <1>6, <3>1, <3>2 DEF Sinking
  <2>3. CASE ~norm.uf /\ norm.left /\ SinkingAt(norm, c, x, p)
    <3>1. ~norm.of /\ ~norm.norm_r /\ Upper = 0 /\ norm.cnt \in 0 .. AllOnes
      BY <2>3, SinkingUpper DEF Sinking, SinkingAt
    <3>2. /\ NormalizerStep.state = "S_NORMALIZE_BUSY" /\ NormalizerStep.cnt = (norm.cnt - 1) % F
          /\ NormalizerStep.sreg = ShiftedFromSticky(norm.sreg) /\ NormalizerStep.left
          /\ NormalizerStep.norm_r = norm.norm_r
      <4> DEFINE e == (norm.cnt - 1) % F
                 s == ShiftedFromSticky(norm.sreg)
                 n == [norm EXCEPT !.cnt = e, !.sreg = s]
      <4>1. NormalizerStep = n
        BY <2>0, <2>3, <3>1 DEF NormalizeBusy
      <4> HIDE DEF e, s
      <4>2. /\ n.state = "S_NORMALIZE_BUSY" /\ n.cnt = e /\ n.sreg = s /\ n.left = norm.left
            /\ n.norm_r = norm.norm_r
        BY <1>6
      <4> QED BY <2>3, <4>1, <4>2 DEF e, s
    <3>3. high(norm.cnt) \notin {2, 3}
      BY <3>1, BelowZero
    <3>4. ~r.of /\ ~r.uf /\ ~r.norm_r /\ r.left /\ r.state = "S_NORMALIZE_BUSY"
      BY <1>2, <2>3, <3>1, <3>2, <3>3
    <3>5. CASE norm.cnt = 0
      <4>1. r.cnt = F - 1 /\ r.cnt_pre = 0
        BY <1>2, <3>2, <3>5, BelowZero
      <4> QED BY <1>1, <1>6, <3>4, <4>1 DEF Sinking
    <3>6. CASE norm.cnt # 0
      <4>1. norm.cnt \in 1 .. AllOnes
        BY <3>1, <3>6, FloatPowers DEF AllOnes
      <4>2. r.cnt = norm.cnt - 1 /\ r.cnt \in 0 .. AllOnes
        BY <1>2, <3>2, <4>1, BelowZero
      <4>3. r.sreg = ShiftedFromSticky(norm.sreg)
        BY <1>2, <3>2
      <4>4. SinkingAt(r, c, x, p)
        <5>1. CASE c = 0
          BY <2>3, <4>2, <4>3, <5>1, ZeroFromSticky DEF SinkingAt
        <5>2. CASE c # 0
          BY <2>3, <3>6, <4>2, <4>3, <5>2, SinkingUpper DEF SinkingAt
        <5> QED BY <5>1, <5>2
      <4> QED BY <1>1, <1>6, <3>4, <4>4 DEF Sinking
    <3> QED BY <3>5, <3>6
  <2> QED BY <1>6, <2>1, <2>2, <2>3 DEF Sinking
<1> QED BY <1>3, <1>4, <1>5, <1>6

\* A word and the value that it stands for: a value that C rounds up to the
\* smallest normal number may have become 0.
RoundedLike(word, value) ==
    word = value \/ (Magnitude(value) = SmallestNormal /\ word = FloatWord(SignOf(value), 0, 0))

\* A float after the flush of subnormal numbers.
LEMMA FlushedWord ==
    ASSUME NEW sign \in {0, 1}, NEW m \in Nat, m < 2 ^ (XLEN - 1)
    PROVE  subnormal_flush(FloatWord(sign, 0, m)) = FloatWord(sign, 0, IF m < 2 ^ MAN THEN 0 ELSE m)
<1> DEFINE w == FloatWord(sign, 0, m)
<1>1. w \in Words /\ SignOf(w) = sign /\ Magnitude(w) = m
  BY FloatMade
<1> HIDE DEF w
<1>2. fpclassify(w) = "FP_SUBNORMAL" <=> m > 0 /\ m < 2 ^ MAN
  BY <1>1, FloatClasses
<1>3. 0 < 2 ^ MAN
  BY FloatPowers
<1>4. CASE m > 0 /\ m < 2 ^ MAN
  <2>1. subnormal_flush(w) = FloatWord(SignOf(w), 0, 0)
    BY <1>2, <1>4 DEF subnormal_flush
  <2>2. (IF m < 2 ^ MAN THEN 0 ELSE m) = 0
    BY <1>4
  <2> QED BY <1>1, <2>1, <2>2 DEF w
<1>5. CASE ~(m > 0 /\ m < 2 ^ MAN)
  <2>1. subnormal_flush(w) = w
    BY <1>2, <1>5 DEF subnormal_flush
  <2>2. m = 0 \/ ~(m < 2 ^ MAN)
    BY <1>5
  <2> QED BY <1>3, <2>1, <2>2 DEF w
<1> QED BY <1>4, <1>5 DEF w

LEMMA SmallestWord ==
    /\ SmallestNormal = 2 ^ MAN
    /\ \A sign \in {0, 1} : FloatWord(sign, 1, 0) = FloatWord(sign, 0, 2 ^ MAN)
<1> DEFINE P == 2 ^ MAN
           H == 2 ^ (XLEN - 1)
<1>1. P \in Nat /\ H \in Nat
  BY FloatPowers
<1>2. SmallestNormal = 0 * H + 1 * P + 0
  BY DEF SmallestNormal, FloatWord
<1>3. SmallestNormal = P
  <2> HIDE DEF P, H
  <2> QED BY <1>1, <1>2
<1>4. ASSUME NEW sign \in {0, 1}
      PROVE  FloatWord(sign, 1, 0) = FloatWord(sign, 0, P)
  <2> DEFINE s == sign * H
  <2>1. FloatWord(sign, 1, 0) = s + 1 * P + 0 /\ FloatWord(sign, 0, P) = s + 0 * P + P
    BY DEF FloatWord
  <2>2. 1 * P = P /\ 0 * P = 0
    <3> HIDE DEF P
    <3> QED BY <1>1
  <2>3. s \in Int
    <3> HIDE DEF H
    <3> QED BY <1>1
  <2> HIDE DEF s, P
  <2> QED BY <1>1, <2>1, <2>2, <2>3
<1> QED BY <1>3, <1>4

\* The float of an exact number with its highest one at place p, which the
\* counter has the exponent x + p for, and the words that stand for it.
LEMMA RoundedValue ==
    ASSUME NEW sign \in {0, 1}, NEW c \in Nat, NEW p, p # 0, IsSignificand(c, p), NEW x \in Int
    PROVE  LET y == x + p
               R == NearestEven(c, p)
               value == subnormal_flush(Rounded(sign, c, x - Bias - MAN))
           IN  /\ y >= 1 => value = FloatWord(sign, 0, Min({(y - 1) * 2 ^ MAN + R, Infinity}))
               /\ y <= 0 => RoundedLike(FloatWord(sign, 0, 0), value)
               /\ y = 0 /\ R = 2 * 2 ^ MAN => value = FloatWord(sign, 0, 2 ^ MAN)
<1> DEFINE y == x + p
           R == NearestEven(c, p)
           P == 2 ^ MAN
           H == 2 ^ (XLEN - 1)
           e == x - Bias - MAN
           value == subnormal_flush(Rounded(sign, c, e))
<1>1. /\ Infinity \in Nat /\ P <= Infinity /\ Infinity < H /\ P \in Nat \ {0} /\ H \in Nat
      /\ P < H
  <2>1. 0 \in Words
    BY ZeroBits
  <2>2. Infinity \in Nat /\ P <= Infinity /\ Infinity < H /\ P \in Nat \ {0} /\ H \in Nat
    BY <2>1, FloatClasses, FloatPowers
  <2> HIDE DEF P, H
  <2> QED BY <2>2
<1>2. p \in 1 .. XLEN /\ p \in Int /\ Bias \in Nat /\ MAN \in Nat
  <2>1. p \in 0 .. XLEN /\ XLEN \in Nat
    BY ExponentSizes DEF IsSignificand
  <2> QED BY <2>1, ExponentSizes
<1>3. e \in Int /\ e + Bias + MAN + p = y
  BY <1>2
<1>4. R \in P .. 2 * P
  BY <1>2, LengthOfPlaces
<1> HIDE DEF e, y
<1>5. ASSUME y >= 1
      PROVE  value = FloatWord(sign, 0, Min({(y - 1) * P + R, Infinity}))
  <2> DEFINE m == (y - 1) * P + R
             k == Min({m, Infinity})
  <2>1. y \in Int
    <3>1. Bias \in Int /\ MAN \in Int
      BY ExponentSizes
    <3> QED BY <1>2, <1>3, <3>1
  <2>2. m \in Nat /\ m >= P
    <3> HIDE DEF P, R
    <3>1. (y - 1) * P \in Nat
      BY <1>1, <1>5, <2>1
    <3>2. R \in Nat /\ R >= P
      BY <1>1, <1>4
    <3> DEFINE z == (y - 1) * P
    <3> HIDE DEF z
    <3>3. z + R \in Nat /\ z + R >= P
      BY <1>1, <3>1, <3>2 DEF z
    <3> QED BY <3>3 DEF z
  <2> HIDE DEF m, P
  <2>3. k \in {m, Infinity}
    <3>1. \A u, v \in Nat : Min({u, v}) \in {u, v}
      BY DEF Min
    <3> QED BY <1>1, <2>2, <3>1
  <2>4. k \in Nat /\ ~(k < P) /\ k < H
    <3>1. k <= Infinity
      <4>1. \A u, v \in Nat : Min({u, v}) <= v
        BY DEF Min
      <4> QED BY <1>1, <2>2, <4>1
    <3> HIDE DEF k, H
    <3> QED BY <1>1, <2>2, <2>3, <3>1
  <2> HIDE DEF k
  <2>5. Rounded(sign, c, e) = FloatWord(sign, 0, k)
    <3>1. e + Bias + MAN + p >= 1
      BY <1>3, <1>5
    <3>2. Rounded(sign, c, e)
            = FloatWord(sign, 0, Min({((e + Bias + MAN + p) - 1) * 2 ^ MAN + NearestEven(c, p), Infinity}))
      BY <1>2, <1>3, <3>1, RoundedNormal
    <3> QED BY <1>3, <3>2 DEF k, m, P
  <2>6. subnormal_flush(FloatWord(sign, 0, k)) = FloatWord(sign, 0, IF k < P THEN 0 ELSE k)
    BY <1>2, <2>4, FlushedWord DEF P
  <2> QED BY <1>3, <2>4, <2>5, <2>6 DEF k, m
<1>6. ASSUME y <= 0
      PROVE  /\ RoundedLike(FloatWord(sign, 0, 0), value)
             /\ y = 0 /\ R = 2 * P => value = FloatWord(sign, 0, P)
  <2>1. e + Bias + MAN + p <= 0
    BY <1>3, <1>6
  <2>2. PICK m \in 0 .. P :
          /\ \A s \in {0, 1} : Rounded(s, c, e) = FloatWord(s, 0, m)
          /\ e + Bias + MAN + p = 0 /\ NearestEven(c, p) = 2 * P => m = P
    BY <1>2, <1>3, <2>1, RoundedSmall
  <2> HIDE DEF P, H
  <2>3. m \in Nat /\ m < H /\ m <= P /\ (m < P \/ m = P)
    BY <1>1, <2>2
  <2>4. value = FloatWord(sign, 0, IF m < P THEN 0 ELSE m)
    <3>1. m < 2 ^ (XLEN - 1)
      BY <2>3 DEF H
    <3>2. subnormal_flush(FloatWord(sign, 0, m)) = FloatWord(sign, 0, IF m < 2 ^ MAN THEN 0 ELSE m)
      BY <1>2, <2>3, <3>1, FlushedWord
    <3> QED BY <1>3, <2>2, <3>2 DEF P
  <2>5. m = P => ~(m < P) /\ value = FloatWord(sign, 0, P)
    BY <1>1, <2>4
  <2>6. m = P => Magnitude(value) = SmallestNormal /\ SignOf(value) = sign
    <3>1. P < 2 ^ (XLEN - 1) /\ P \in Nat
      BY <1>1 DEF H
    <3>2. Magnitude(FloatWord(sign, 0, P)) = P /\ SignOf(FloatWord(sign, 0, P)) = sign
      BY <1>2, <3>1, FloatMade
    <3>3. SmallestNormal = P
      BY SmallestWord DEF P
    <3> QED BY <2>5, <3>2, <3>3
  <2>7. m < P => value = FloatWord(sign, 0, 0)
    BY <2>4
  <2>8. y = 0 /\ R = 2 * P => m = P
    BY <1>3, <2>2
  <2> QED BY <2>3, <2>5, <2>6, <2>7, <2>8 DEF RoundedLike
<1> QED BY <1>5, <1>6 DEF e, y

\* The number that the register holds at the end, of which the hidden bit is
\* the highest.
LEMMA LowerPlaces ==
    ASSUME NEW x \in 2 ^ MAN .. 2 * 2 ^ MAN, norm.sreg = 8 * x, Upper = 1
    PROVE  x < 2 * 2 ^ MAN /\ Lower = x - 2 ^ MAN
<1> DEFINE P == 2 ^ MAN
           r == x - P
           y == 8 * x
<1>1. P \in Nat \ {0} /\ 2 ^ (MAN + 3) = 8 * P
  BY FloatPowers, RegisterWidths
<1>2. x < 2 * P
  <2>1. (8 * x) \div 2 ^ (MAN + 3) = 1
    BY DEF Upper
  <2> QED BY <2>1, Carried
<1>3. Lower = ((8 * x) \div 8) % P
  BY DEF Lower
<1>4. /\ x = P * 1 + r /\ r \in Int /\ 0 <= r /\ r < P /\ x \in Int /\ 1 \in Int
      /\ y = 8 * x + 0 /\ y \in Int /\ 0 \in Int /\ 0 <= 0 /\ 0 < 8 /\ 8 \in Nat \ {0}
  <2> HIDE DEF P
  <2> QED BY <1>1, <1>2 DEF P
<1> HIDE DEF P, r, y
<1>5. x % P = r
  <2> DEFINE one == 1
  <2>1. x = P * one + r /\ one \in Int
    BY <1>4
  <2> HIDE DEF one
  <2>2. P \in Nat \ {0} /\ r \in Int /\ 0 <= r /\ r < P /\ x \in Int
    BY <1>1, <1>4
  <2> QED BY <2>1, <2>2, Division
<1>6. y \div 8 = x
  BY <1>4, Division
<1> QED BY <1>2, <1>3, <1>5, <1>6 DEF r, y, P

\* The magnitude of a product whose exponent is y, and the largest one.
LEMMA CappedProduct ==
    ASSUME NEW y \in Int, y >= 1, NEW R \in 2 ^ MAN .. 2 * 2 ^ MAN
    PROVE  LET P == 2 ^ MAN
               m == (y - 1) * P + R
           IN  /\ y >= AllOnes => Min({m, Infinity}) = Infinity
               /\ R = 2 * P /\ y + 1 >= AllOnes => Min({m, Infinity}) = Infinity
               /\ y < AllOnes /\ R < 2 * P => Min({m, Infinity}) = y * P + (R - P)
               /\ y + 1 < AllOnes /\ R = 2 * P => Min({m, Infinity}) = (y + 1) * P
<1> DEFINE P == 2 ^ MAN
           A == AllOnes
           m == (y - 1) * P + R
           z == y * P
           d == A - y
<1>1. P \in Nat \ {0} /\ A \in Nat /\ Infinity = A * P /\ Infinity \in Nat
  BY FloatPowers, InfinityWord
<1>2. Infinity = z + d * P /\ d \in Int /\ z \in Int /\ (y + 1) * P = z + P
  <2> HIDE DEF P, A
  <2> QED BY <1>1
<1>3. m = z - P + R /\ R \in Int /\ P <= R /\ R <= 2 * P /\ m \in Int
  <2>1. R \in P .. 2 * P
    OBVIOUS
  <2> HIDE DEF P
  <2>2. (y - 1) * P = z - P /\ z \in Int
    BY <1>1
  <2> HIDE DEF z
  <2> QED BY <1>1, <2>1, <2>2
<1>4. /\ d <= 0 => d * P <= 0
      /\ d <= 1 => d * P <= P
      /\ d >= 1 => d * P >= P
      /\ d >= 2 => d * P >= 2 * P
      /\ d * P \in Int
  <2> HIDE DEF d, P
  <2> QED BY <1>1, <1>2
<1>5. /\ y >= A <=> d <= 0
      /\ y + 1 >= A <=> d <= 1
      /\ y < A <=> d >= 1
      /\ y + 1 < A <=> d >= 2
  <2> HIDE DEF A
  <2> QED BY <1>1
<1>6. m \in Nat
  <2>1. z >= P
    <3> HIDE DEF P
    <3> QED BY <1>1
  <2> HIDE DEF z, P, m
  <2> QED BY <1>1, <1>2, <1>3, <2>1
<1>7. \A u, v \in Nat : /\ u >= v => Min({u, v}) = v
                        /\ u <= v => Min({u, v}) = u
  BY DEF Min
<1> DEFINE dP == d * P
           yP == (y + 1) * P
<1>8. Min({m, Infinity}) = IF m >= Infinity THEN Infinity ELSE m
  <2> HIDE DEF m
  <2>1. m >= Infinity \/ m <= Infinity
    BY <1>1, <1>6
  <2> QED BY <1>1, <1>6, <1>7, <2>1
<1>9. /\ d <= 0 => m >= Infinity
      /\ R = 2 * P /\ d <= 1 => m >= Infinity
      /\ d >= 1 /\ R < 2 * P => ~(m >= Infinity) /\ m = z + (R - P)
      /\ d >= 2 /\ R = 2 * P => (m >= Infinity => m = Infinity) /\ m = yP
  <2>1. Infinity = z + dP /\ yP = z + P
    BY <1>2
  <2>2. /\ d <= 0 => dP <= 0
        /\ d <= 1 => dP <= P
        /\ d >= 1 => dP >= P
        /\ d >= 2 => dP >= 2 * P
        /\ dP \in Int
    BY <1>4
  <2>3. m = z - P + R
    BY <1>3
  <2> HIDE DEF m, z, d, dP, yP, P
  <2> QED BY <1>1, <1>2, <1>3, <2>1, <2>2, <2>3
<1> HIDE DEF m, z, d, dP
<1> QED BY <1>5, <1>8, <1>9 DEF m, z

\* The word that the normalizer ends with stands for the float of the number.
LEMMA FinalRounded ==
    ASSUME NormalizerTypes, NEW c, NEW x, NEW p, IsExact(c, x, p), Underway(norm, c, x, p),
           norm.state = "S_FINALIZE", norm.sign \in {0, 1}
    PROVE  RoundedLike(FinalWord, subnormal_flush(Rounded(norm.sign, c, x - Bias - MAN)))
<1> DEFINE sign == norm.sign
           P == 2 ^ MAN
           M == 2 ^ EXP
           A == AllOnes
           value == subnormal_flush(Rounded(sign, c, x - Bias - MAN))
           n == norm.cnt
           y == x + p
           k == NearestEven(c, p)
<1>1. sign \in {0, 1}
  OBVIOUS
<1>2. /\ P \in Nat \ {0} /\ M \in Nat \ {0} /\ A = M - 1 /\ A \in Nat /\ A >= 21
      /\ MAN \in Nat
  <2>1. P \in Nat \ {0} /\ M \in Nat \ {0} /\ A = M - 1 /\ A \in Nat
    BY FloatPowers DEF AllOnes
  <2>2. Bias \in Nat /\ Bias >= 10 /\ AllOnes = 2 * Bias + 1 /\ MAN \in Nat
    BY ExponentSizes
  <2> HIDE DEF P, M
  <2> QED BY <2>1, <2>2
<1>3. FinalWord =
        IF norm.class \intersect NaNs # {} THEN QuietNaN
        ELSE IF norm.class \intersect Infinities # {} \/ "of" \in norm.flags
             THEN FloatWord(sign, 0, Infinity)
        ELSE IF norm.class \intersect Zeros # {}
             THEN FloatWord(IF "neg_zero" \in norm.class THEN 1 ELSE 0, 0, 0)
        ELSE IF "uf" \in norm.flags \/ Upper = 0 THEN FloatWord(sign, 0, 0)
        ELSE FloatWord(sign, norm.cnt % M, Lower)
  BY DEF FinalWord
<1>4. /\ norm.class = {} /\ norm.flags = Limits(n) /\ n \in 0 .. M /\ CompleteAt(norm, c, x, p)
  BY DEF Underway, Watched
<1>5. /\ y \in Int /\ k \in P .. 2 * P /\ k \in Int
      /\ y >= 1 => value = FloatWord(sign, 0, Min({(y - 1) * P + k, Infinity}))
      /\ y <= 0 => RoundedLike(FloatWord(sign, 0, 0), value)
      /\ y = 0 /\ k = 2 * P => value = FloatWord(sign, 0, P)
  <2>1. /\ c \in Nat /\ p # 0 /\ IsSignificand(c, p) /\ x \in Int /\ p \in Nat
        /\ k \in P .. 2 * P
    BY ExactTyped
  <2>2. y \in Int
    BY <2>1
  <2>3. k \in Int
    BY <1>2, <2>1
  <2>4. /\ y >= 1 => value = FloatWord(sign, 0, Min({(y - 1) * P + k, Infinity}))
        /\ y <= 0 => RoundedLike(FloatWord(sign, 0, 0), value)
        /\ y = 0 /\ k = 2 * P => value = FloatWord(sign, 0, P)
    BY <1>1, <2>1, RoundedValue
  <2> QED BY <2>1, <2>2, <2>3, <2>4
<1>6. \/ n = y /\ norm.sreg = 8 * k
      \/ n = y + 1 /\ norm.sreg = 8 * P /\ k = 2 * P
  BY <1>4 DEF CompleteAt, RoundedAt, CarriedTo
<1> HIDE DEF sign, value, y, k
<1>7. CASE n = 0
  <2>1. norm.flags = {"uf"}
    BY <1>4, <1>7 DEF Limits
  <2>2. FinalWord = FloatWord(sign, 0, 0)
    BY <1>3, <1>4, <2>1
  <2>3. y <= 0
    BY <1>5, <1>6, <1>7
  <2> QED BY <1>5, <2>2, <2>3 DEF value, sign
<1>8. CASE n # 0 /\ n \in {A, M}
  <2>1. norm.flags = {"of"}
    BY <1>4, <1>8 DEF Limits
  <2>2. FinalWord = FloatWord(sign, 0, Infinity)
    BY <1>3, <1>4, <2>1
  <2>3. n \in Int /\ n >= A
    <3> HIDE DEF n, A, M
    <3> QED BY <1>2, <1>8
  <2>4. /\ y >= 1
        /\ y >= A \/ (k = 2 * P /\ y + 1 >= A)
    <3> HIDE DEF n, A, P
    <3> QED BY <1>2, <1>5, <1>6, <2>3
  <2>5. Min({(y - 1) * P + k, Infinity}) = Infinity
    BY <1>5, <2>4, CappedProduct
  <2>6. value = FloatWord(sign, 0, Infinity)
    BY <1>5, <2>4, <2>5
  <2> QED BY <2>2, <2>6 DEF RoundedLike, value, sign
<1>9. CASE n # 0 /\ n \notin {A, M}
  <2>1. norm.flags = {} /\ n # M
    BY <1>4, <1>9 DEF Limits
  <2>2. Upper = 1
    BY <1>4, <2>1 DEF CompleteAt, Upper
  <2>3. n \in Int /\ n >= 1 /\ n < A /\ n % M = n
    <3>1. n \in Int /\ n >= 1 /\ n < A /\ n < M
      <4> HIDE DEF n, A, M
      <4> QED BY <1>2, <1>4, <1>9
    <3>2. n \in 0 .. M - 1
      <4> HIDE DEF n, M
      <4> QED BY <1>2, <3>1
    <3>3. n % M = n
      <4> HIDE DEF n, M
      <4> QED BY <1>2, <3>2, SmallReduced
    <3> QED BY <3>1, <3>3
  <2>4. FinalWord = FloatWord(sign, n, Lower)
    BY <1>3, <1>4, <2>1, <2>2, <2>3
  <2>5. P \in 2 ^ MAN .. 2 * 2 ^ MAN
    <3> HIDE DEF P
    <3>1. P \in P .. 2 * P
      BY <1>2
    <3> QED BY <3>1 DEF P
  <2>6. ASSUME NEW m \in Nat, n * P + Lower = m, Lower \in Int
        PROVE  FloatWord(sign, n, Lower) = FloatWord(sign, 0, m)
    <3> DEFINE h == sign * 2 ^ (XLEN - 1)
               w == n * P
    <3>1. FloatWord(sign, n, Lower) = h + w + Lower /\ FloatWord(sign, 0, m) = h + 0 * P + m
      BY DEF FloatWord
    <3>2. h \in Int /\ w \in Int /\ 0 * P = 0
      <4>1. 2 ^ (XLEN - 1) \in Int
        BY FloatPowers
      <4> DEFINE H == 2 ^ (XLEN - 1)
      <4> HIDE DEF P, n, H
      <4> QED BY <1>1, <1>2, <2>3, <4>1 DEF H, sign
    <3>3. w + Lower = m
      BY <2>6
    <3> HIDE DEF h, w, P
    <3> QED BY <2>6, <3>1, <3>2, <3>3
  <2>7. CASE n = y /\ norm.sreg = 8 * k
    <3>1. k < 2 * P /\ Lower = k - P
      BY <1>5, <2>2, <2>7, LowerPlaces
    <3>2. Min({(y - 1) * P + k, Infinity}) = y * P + (k - P)
      BY <1>5, <2>3, <2>7, <3>1, CappedProduct
    <3> DEFINE m == y * P + (k - P)
    <3>3. m \in Nat /\ Lower \in Int
      <4> HIDE DEF P
      <4>1. k - P \in Nat /\ y \in Nat
        BY <1>2, <1>5, <2>3, <2>7
      <4>2. y * P \in Nat
        BY <1>2, <4>1
      <4> DEFINE u == y * P
                 v == k - P
      <4> HIDE DEF u, v
      <4>3. u + v \in Nat
        BY <4>1, <4>2 DEF u, v
      <4> QED BY <3>1, <4>1, <4>3 DEF u, v
    <3>4. n * P + Lower = m
      BY <2>7, <3>1
    <3>5. FinalWord = FloatWord(sign, 0, m)
      BY <2>4, <2>6, <3>3, <3>4
    <3>6. value = FloatWord(sign, 0, m)
      BY <1>5, <2>3, <2>7, <3>2
    <3> QED BY <3>5, <3>6 DEF RoundedLike, value, sign
  <2>8. CASE n = y + 1 /\ norm.sreg = 8 * P /\ k = 2 * P
    <3>1. Lower = 0
      <4>1. Lower = P - P
        BY <2>2, <2>5, <2>8, LowerPlaces
      <4> HIDE DEF P
      <4> QED BY <1>2, <4>1
    <3> DEFINE m == n * P
    <3>2. m \in Nat /\ m + 0 = m
      <4> HIDE DEF P, n
      <4> QED BY <1>2, <2>3
    <3>3. FinalWord = FloatWord(sign, 0, m)
      BY <2>4, <2>6, <3>1, <3>2
    <3>4. CASE y >= 1
      <4>1. y + 1 < A
        BY <2>3, <2>8
      <4>2. Min({(y - 1) * P + k, Infinity}) = (y + 1) * P
        BY <1>5, <2>8, <3>4, <4>1, CappedProduct
      <4>3. value = FloatWord(sign, 0, m)
        BY <1>5, <2>8, <3>4, <4>2
      <4> QED BY <3>3, <4>3 DEF RoundedLike, value, sign
    <3>5. CASE ~(y >= 1)
      <4>1. y = 0 /\ n = 1
        BY <1>5, <2>3, <2>8, <3>5
      <4>2. m = P
        <5> HIDE DEF P, n
        <5> QED BY <1>2, <4>1
      <4>3. value = FloatWord(sign, 0, P)
        BY <1>5, <2>8, <4>1
      <4> QED BY <3>3, <4>2, <4>3 DEF RoundedLike, value, sign
    <3> QED BY <3>4, <3>5
  <2> QED BY <1>6, <2>7, <2>8
<1> QED BY <1>7, <1>8, <1>9

\* Below the smallest exponents it ends with 0.
LEMMA FinalSunk ==
    ASSUME NEW c, NEW x, NEW p, IsBelow(c, x, p), Sinking(norm, c, x, p),
           norm.state = "S_FINALIZE", norm.sign \in {0, 1}
    PROVE  /\ FinalWord = FloatWord(norm.sign, 0, 0)
           /\ c # 0 => RoundedLike(FinalWord, subnormal_flush(Rounded(norm.sign, c, x - Bias - MAN)))
<1>1. norm.class = {} /\ norm.flags = {"uf"}
  BY DEF Sinking
<1>2. FinalWord = FloatWord(norm.sign, 0, 0)
  BY <1>1 DEF FinalWord
<1>3. ASSUME c # 0
      PROVE  RoundedLike(FinalWord, subnormal_flush(Rounded(norm.sign, c, x - Bias - MAN)))
  <2>1. c \in Nat /\ p # 0 /\ IsSignificand(c, p) /\ x \in Int /\ x + p < 0
    BY <1>3 DEF IsBelow
  <2>2. x + p <= 0
    <3>1. p \in Int
      BY <2>1, ExponentSizes DEF IsSignificand
    <3> QED BY <2>1, <3>1
  <2> QED BY <1>2, <2>1, <2>2, RoundedValue
<1> QED BY <1>2, <1>3

-----------------------------------------------------------------------------
(* The normalizer with a product.                                          *)

\* The product of the operands with its highest one at place p; the counter has
\* the exponent of the multiplier for place MAN.
Multiplied == MulMantissa(fpu.a, fpu.b)
ProductPlace(p) == p \in {MAN, MAN + 1} /\ IsSignificand(Multiplied, p)
ProductOffset == MulExponent(fpu.a, fpu.b) - MAN

\* A product that is to be normalized, and the normalizer on the way to it.
Ordinary ==
    MulClass(fpu.a, fpu.b) = {} /\ MulExponent(fpu.a, fpu.b) \in 0 .. AllOnes
Multiplying(r) ==
    /\ r.state \notin {"S_IDLE", "S_PREPARE_I2F", "S_CHECK_I2F"}
    /\ r.sign = MulSign(fpu.a, fpu.b)
    /\ r.state = "S_PREPARE_NORM" =>
         /\ r.cnt = MulExponent(fpu.a, fpu.b) % 2 ^ EXP /\ r.class = MulClass(fpu.a, fpu.b)
         /\ r.flags = MulFlags(fpu.a, fpu.b) /\ ~r.norm_r /\ ~r.of /\ ~r.uf
    /\ r.state # "S_PREPARE_NORM" =>
         IF Ordinary THEN \E p : ProductPlace(p) /\ Underway(r, Multiplied, ProductOffset, p)
         ELSE /\ r.state = "S_FINALIZE" /\ r.class = MulClass(fpu.a, fpu.b)
              /\ r.flags = MulFlags(fpu.a, fpu.b)

LEMMA ProductTyped ==
    ASSUME ControlTypes
    PROVE  /\ Multiplied \in Nat /\ MulExponent(fpu.a, fpu.b) \in Int
           /\ Multiplied \div 2 ^ MAN \in 2 ^ MAN .. 4 * 2 ^ MAN - 1
           /\ ProductOffset \in Int /\ ProductOffset + MAN = MulExponent(fpu.a, fpu.b)
           /\ MAN \in 0 .. XLEN
           /\ \E p : ProductPlace(p)
           /\ \A p : ProductPlace(p) =>
                /\ p \in {MAN, MAN + 1} /\ p \in Int /\ p # 0 /\ IsSignificand(Multiplied, p)
                /\ ProductOffset + p \in {MulExponent(fpu.a, fpu.b), MulExponent(fpu.a, fpu.b) + 1}
                /\ Ordinary => IsExact(Multiplied, ProductOffset, p)
<1> DEFINE E == MulExponent(fpu.a, fpu.b)
<1>1. fpu.a \in Words /\ fpu.b \in Words
  BY DEF ControlTypes
<1>2. Multiplied \in Nat /\ Multiplied \div 2 ^ MAN \in 2 ^ MAN .. 4 * 2 ^ MAN - 1
  BY <1>1, ProductSize DEF Multiplied
<1>3. MAN \in Nat /\ MAN \in 1 .. XLEN /\ MAN + 1 \in 1 .. XLEN /\ Bias \in Nat /\ XLEN \in Nat
  BY <1>2, ProductPlaces, ExponentSizes
<1>4. E \in Int
  <2>1. ExponentOf(fpu.a) \in Int /\ ExponentOf(fpu.b) \in Int
    BY <1>1, OperandParts, FloatPowers
  <2> QED BY <1>3, <2>1 DEF MulExponent
<1>5. ProductOffset \in Int /\ ProductOffset + MAN = E /\ ProductOffset + (MAN + 1) = E + 1
  <2>1. ProductOffset = E - MAN
    BY DEF ProductOffset
  <2> HIDE DEF E
  <2> QED BY <1>3, <1>4, <2>1
<1>6. \E p : ProductPlace(p)
  <2>1. IsSignificand(Multiplied, MAN) \/ IsSignificand(Multiplied, MAN + 1)
    BY <1>2, ProductPlaces
  <2> QED BY <2>1 DEF ProductPlace
<1>7. ASSUME NEW p, ProductPlace(p)
      PROVE  /\ p \in {MAN, MAN + 1} /\ p \in Int /\ p # 0 /\ IsSignificand(Multiplied, p)
             /\ ProductOffset + p \in {E, E + 1}
             /\ Ordinary => IsExact(Multiplied, ProductOffset, p)
  <2>1. p \in {MAN, MAN + 1} /\ IsSignificand(Multiplied, p)
    BY <1>7 DEF ProductPlace
  <2>2. p \in Int /\ p # 0
    BY <1>3, <2>1
  <2> DEFINE y == ProductOffset + p
  <2>3. y \in {E, E + 1}
    BY <1>5, <2>1
  <2> HIDE DEF y
  <2>4. ASSUME Ordinary PROVE y \in 0 .. 2 ^ EXP
    <3>1. E \in 0 .. AllOnes /\ AllOnes = 2 ^ EXP - 1 /\ 2 ^ EXP \in Nat
      BY <2>4, FloatPowers DEF Ordinary, AllOnes
    <3> HIDE DEF E
    <3> QED BY <1>4, <2>3, <3>1
  <2>5. Ordinary => IsExact(Multiplied, ProductOffset, p)
    BY <1>2, <1>5, <2>1, <2>2, <2>4 DEF IsExact, y
  <2> QED BY <2>1, <2>2, <2>3, <2>5 DEF y
<1> QED BY <1>2, <1>3, <1>4, <1>5, <1>6, <1>7

\* The products that need no normalization have a class or a flag.
LEMMA OrdinaryProduct ==
    ASSUME ControlTypes
    PROVE  LET class == MulClass(fpu.a, fpu.b)
               flags == MulFlags(fpu.a, fpu.b)
           IN  /\ class # {} \/ flags \intersect {"uf", "of", "nv"} # {} <=> ~Ordinary
               /\ Ordinary => /\ flags = {}
                              /\ MulExponent(fpu.a, fpu.b) % 2 ^ EXP = MulExponent(fpu.a, fpu.b)
<1> DEFINE class == MulClass(fpu.a, fpu.b)
           flags == MulFlags(fpu.a, fpu.b)
           E == MulExponent(fpu.a, fpu.b)
<1>1. E \in Int /\ AllOnes = 2 ^ EXP - 1 /\ 2 ^ EXP \in Nat \ {0}
  BY ProductTyped, FloatPowers DEF AllOnes
<1>2. ZeroTimesInfinity(fpu.a, fpu.b) => class # {}
  <2> SUFFICES ASSUME ZeroTimesInfinity(fpu.a, fpu.b) PROVE "qnan" \in class
    OBVIOUS
  <2> QED BY DEF MulClass
<1>3. /\ "nv" \in flags <=> ZeroTimesInfinity(fpu.a, fpu.b)
      /\ "of" \in flags <=> E >= 2 ^ EXP
      /\ "uf" \in flags <=> E < 0
      /\ flags \subseteq {"nv", "of", "uf"}
  BY DEF MulFlags
<1>4. Ordinary <=> class = {} /\ E \in 0 .. AllOnes
  BY DEF Ordinary
<1> DEFINE M == 2 ^ EXP
<1>5. E \in 0 .. AllOnes <=> E >= 0 /\ E < M
  <2> HIDE DEF E, M
  <2> QED BY <1>1 DEF M
<1>6. flags = {} <=> "nv" \notin flags /\ "of" \notin flags /\ "uf" \notin flags
  BY <1>3
<1>7. flags \intersect {"uf", "of", "nv"} # {} <=> flags # {}
  BY <1>3
<1>8. ASSUME E \in 0 .. AllOnes PROVE E % M = E
  <2>1. M \in Nat \ {0} /\ E \in 0 .. M - 1
    BY <1>1, <1>8
  <2> HIDE DEF E, M
  <2> QED BY <2>1, SmallReduced
<1>9. ~(E >= M) /\ ~(E < 0) <=> E \in 0 .. AllOnes
  <2> HIDE DEF E, M
  <2> QED BY <1>1, <1>5 DEF M
<1> HIDE DEF class, flags, E
<1>10. class = {} /\ flags = {} <=> Ordinary
  BY <1>2, <1>3, <1>4, <1>6, <1>9
<1> QED BY <1>4, <1>7, <1>8, <1>10 DEF class, flags, E

LEMMA PrepareMultiplies ==
    ASSUME NormalizerTypes, ControlTypes, fpu.op = "mul", Multiplying(norm),
           norm.state = "S_PREPARE_NORM", NEW r, Follows(r)
    PROVE  Multiplying(r)
<1> DEFINE class == MulClass(fpu.a, fpu.b)
           flags == MulFlags(fpu.a, fpu.b)
           E == MulExponent(fpu.a, fpu.b)
           next == IF NeedsNoShift THEN "S_FINALIZE" ELSE "S_PREPARE_SHIFT"
           s == NormalizerMantissa
           n == [norm EXCEPT !.sreg = s, !.state = next]
<1>1. /\ norm.cnt = E % 2 ^ EXP /\ norm.class = class /\ norm.flags = flags
      /\ ~norm.norm_r /\ ~norm.of /\ ~norm.uf /\ norm.sign = MulSign(fpu.a, fpu.b)
  BY DEF Multiplying
<1>2. NormalizerStep = n
  BY DEF NormalizerStep
<1>3. NeedsNoShift <=> ~Ordinary
  BY <1>1, OrdinaryProduct DEF NeedsNoShift
<1>4. s = Sticky(8 * Multiplied, 2 * 2 ^ MAN)
  <2>1. s = 2 * (Multiplied \div 2 ^ (MAN - 2)) + (IF Multiplied % 2 ^ (MAN - 2) = 0 THEN 0 ELSE 1)
    BY DEF NormalizerMantissa, Multiplied
  <2> HIDE DEF s
  <2> QED BY <2>1, ProductTyped, StickyProduct
<1> HIDE DEF s, class, flags, E
<1>5. /\ n.state = next /\ n.class = norm.class /\ n.sign = norm.sign /\ n.flags = norm.flags
      /\ n.cnt = norm.cnt /\ n.sreg = s /\ n.norm_r = norm.norm_r
  BY DEF NormalizerTypes, NormalizerRecord
<1> HIDE DEF n
<1>6. /\ r.state = next /\ r.class = class /\ r.sign = norm.sign /\ r.flags = flags
      /\ r.cnt = norm.cnt /\ r.sreg = s /\ ~r.norm_r
  BY <1>1, <1>2, <1>5 DEF Follows
<1>7. /\ norm.cnt \in 0 .. AllOnes /\ norm.cnt \in 0 .. 2 ^ EXP /\ norm.cnt # 2 ^ EXP
  <2>1. E \in Int /\ 2 ^ EXP \in Nat \ {0} /\ AllOnes = 2 ^ EXP - 1
    BY ProductTyped, FloatPowers DEF AllOnes, E
  <2> DEFINE M == 2 ^ EXP
             k == E % M
  <2>2. k \in 0 .. M - 1
    <3>1. M \in Nat \ {0} /\ E \in Int
      BY <2>1
    <3> HIDE DEF M
    <3> QED BY <3>1, ReducedRange
  <2>3. norm.cnt = k
    BY <1>1
  <2> HIDE DEF k
  <2> QED BY <2>1, <2>2, <2>3
<1>8. ~r.of /\ ~r.uf
  <2>1. norm.cnt \div 2 ^ (EXP - 1) # 2 /\ norm.cnt \div 2 ^ (EXP - 1) # 3
    BY <1>7, HighestBits
  <2> QED BY <1>1, <2>1 DEF Follows
<1>9. CASE Ordinary
  <2>1. next = "S_PREPARE_SHIFT"
    BY <1>3, <1>9
  <2>2. class = {} /\ flags = {} /\ norm.cnt = E
    BY <1>1, <1>9, OrdinaryProduct DEF Ordinary, class, flags, E
  <2>3. PICK p : ProductPlace(p)
    BY ProductTyped
  <2>4. r.cnt = ProductOffset + MAN /\ Coming(r.sreg, Multiplied, p, MAN)
    <3>1. r.cnt = ProductOffset + MAN
      BY <1>6, <2>2, ProductTyped DEF E
    <3>2. MAN \in 0 .. XLEN /\ MAN \in {p - 1, p, p + 1}
      <4>1. p \in {MAN, MAN + 1} /\ MAN \in 0 .. XLEN /\ MAN \in Nat
        BY <2>3, ProductTyped, ExponentSizes
      <4> QED BY <4>1
    <3> QED BY <1>4, <1>6, <3>1, <3>2 DEF Coming
  <2>5. Watched(r)
    BY <1>6, <1>7, <1>8 DEF Watched
  <2>6. r.cnt <= AllOnes
    <3>1. AllOnes \in Nat
      BY FloatPowers DEF AllOnes
    <3> QED BY <1>6, <1>7, <3>1
  <2>7. Underway(r, Multiplied, ProductOffset, p)
    BY <1>6, <1>8, <2>1, <2>2, <2>4, <2>5, <2>6 DEF Underway
  <2> QED BY <1>1, <1>6, <1>9, <2>1, <2>3, <2>7 DEF Multiplying
<1>10. CASE ~Ordinary
  <2>1. next = "S_FINALIZE"
    BY <1>3, <1>10
  <2> QED BY <1>1, <1>6, <1>10, <2>1 DEF Multiplying, class, flags
<1> QED BY <1>9, <1>10

\* One period of the normalizer with a product.
LEMMA MultiplierSteps ==
    ASSUME NormalizerTypes, ControlTypes, fpu.op = "mul", fpu.frm = 0, norm.state # "S_IDLE",
           Multiplying(norm), NEW r, Follows(r)
    PROVE  /\ norm.state # "S_FINALIZE" => Multiplying(r)
           /\ norm.state = "S_FINALIZE" => r.result = FinalWord /\ r.state = "S_IDLE"
<1>1. CASE norm.state = "S_PREPARE_NORM"
  BY <1>1, PrepareMultiplies
<1>2. CASE norm.state = "S_FINALIZE"
  <2>1. NormalizerStep = [norm EXCEPT !.result = FinalWord, !.flags = FinalFlags, !.state = "S_IDLE"]
    BY <1>2 DEF NormalizerStep
  <2>2. NormalizerStep.result = FinalWord /\ NormalizerStep.state = "S_IDLE"
    BY <2>1 DEF NormalizerTypes, NormalizerRecord
  <2> QED BY <1>2, <2>2 DEF Follows
<1>3. CASE norm.state \notin {"S_PREPARE_NORM", "S_FINALIZE"}
  <2>1. PICK p : ProductPlace(p) /\ Underway(norm, Multiplied, ProductOffset, p)
    BY <1>3 DEF Multiplying
  <2>2. Ordinary /\ IsExact(Multiplied, ProductOffset, p)
    BY <1>3, <2>1, ProductTyped DEF Multiplying
  <2>3. norm.state \in {"S_PREPARE_SHIFT", "S_NORMALIZE_BUSY", "S_ROUND", "S_CHECK"}
    BY <1>3 DEF Multiplying, NormalizerTypes, NormalizerRecord
  <2>4. /\ Underway(r, Multiplied, ProductOffset, p) /\ r.sign = norm.sign
        /\ r.state \in {"S_PREPARE_SHIFT", "S_NORMALIZE_BUSY", "S_ROUND", "S_CHECK", "S_FINALIZE"}
    BY <2>1, <2>2, <2>3, UnderwayStep
  <2>5. norm.sign = MulSign(fpu.a, fpu.b)
    BY DEF Multiplying
  <2> QED BY <1>3, <2>1, <2>2, <2>4, <2>5 DEF Multiplying
<1> QED BY <1>1, <1>2, <1>3

\* It starts with a product.
LEMMA MultiplierTakes ==
    ASSUME NormalizerTypes, fpu.op = "mul", norm.state = "S_IDLE", NEW r, Follows(r)
    PROVE  (r.state # "S_IDLE" => Multiplying(r)) /\ r.result = norm.result
<1> DEFINE idle == [norm EXCEPT !.norm_r = FALSE, !.rounded = FALSE]
           cnt == MulExponent(fpu.a, fpu.b) % 2 ^ EXP
           sign == MulSign(fpu.a, fpu.b)
           class == MulClass(fpu.a, fpu.b)
           flags == MulFlags(fpu.a, fpu.b)
           n == [idle EXCEPT !.state = "S_PREPARE_NORM", !.cnt = cnt, !.sign = sign, !.class = class,
                             !.flags = flags]
<1>1. NormalizerStep \in {idle, n}
  <2>1. NormalizerInput = [state |-> "S_PREPARE_NORM", cnt |-> cnt, sign |-> sign, class |-> class,
                           flags |-> flags]
    BY DEF NormalizerInput
  <2> QED BY <2>1 DEF NormalizerStep
<1>2. /\ idle.state = "S_IDLE" /\ idle.result = norm.result /\ ~idle.norm_r
      /\ {"state", "norm_r", "cnt", "cnt_pre", "of", "uf", "rounded", "sign", "class", "flags",
          "sreg", "left", "result", "done"} \subseteq DOMAIN idle
  BY DEF NormalizerTypes, NormalizerRecord
<1> HIDE DEF idle, cnt, sign, class, flags
<1>3. /\ n.state = "S_PREPARE_NORM" /\ n.cnt = cnt /\ n.sign = sign /\ n.class = class
      /\ n.flags = flags /\ ~n.norm_r /\ n.result = norm.result
  BY <1>2
<1> HIDE DEF n
<1>4. CASE NormalizerStep = idle
  BY <1>2, <1>4 DEF Follows
<1>5. CASE NormalizerStep = n
  <2>1. /\ r.state = "S_PREPARE_NORM" /\ r.cnt = cnt /\ r.sign = sign /\ r.class = class
        /\ r.flags = flags /\ ~r.norm_r /\ r.result = norm.result /\ ~r.of /\ ~r.uf
    BY <1>3, <1>5 DEF Follows
  <2> QED BY <2>1 DEF Multiplying, cnt, sign, class, flags
<1> QED BY <1>1, <1>4, <1>5

-----------------------------------------------------------------------------
(* The product of two floats in C.                                         *)

LEMMA KindOfClass ==
    ASSUME NEW w \in Words
    PROVE  /\ ClassOf(w) \in Zeros <=> IsZero(w)
           /\ ClassOf(w) \in Infinities <=> IsInfinite(w)
           /\ ClassOf(w) \in NaNs <=> IsNaN(w)
<1>1. /\ SignOf(w) \in {0, 1}
      /\ ClassOf(w) \in NaNs <=> Magnitude(w) > Infinity
      /\ ClassOf(w) = "neg_inf" <=> Magnitude(w) = Infinity /\ SignOf(w) = 1
      /\ ClassOf(w) = "pos_inf" <=> Magnitude(w) = Infinity /\ SignOf(w) = 0
      /\ ClassOf(w) = "neg_zero" <=> Magnitude(w) = 0 /\ SignOf(w) = 1
      /\ ClassOf(w) = "pos_zero" <=> Magnitude(w) = 0 /\ SignOf(w) = 0
  BY ClassesOf
<1>2. /\ ClassOf(w) \in Infinities <=> ClassOf(w) = "pos_inf" \/ ClassOf(w) = "neg_inf"
      /\ ClassOf(w) \in Zeros <=> ClassOf(w) = "pos_zero" \/ ClassOf(w) = "neg_zero"
  BY DEF Infinities, Zeros
<1>3. /\ ClassOf(w) \in Infinities <=> Magnitude(w) = Infinity
      /\ ClassOf(w) \in Zeros <=> Magnitude(w) = 0
  BY <1>1, <1>2
<1>4. /\ IsZero(w) <=> Magnitude(w) = 0
      /\ IsInfinite(w) <=> Magnitude(w) = Infinity
      /\ IsNaN(w) <=> Magnitude(w) > Infinity
  BY FloatClasses
<1> QED BY <1>1, <1>3, <1>4

\* What the classes of a product say of its operands.
LEMMA ClassOfProduct ==
    ASSUME NEW a \in Words, NEW b \in Words
    PROVE  LET class == MulClass(a, b)
               invalid == (IsZero(a) /\ IsInfinite(b)) \/ (IsInfinite(a) /\ IsZero(b))
           IN  /\ class \intersect NaNs # {} <=> IsNaN(a) \/ IsNaN(b) \/ invalid
               /\ class \intersect NaNs = {} =>
                    /\ class \intersect Infinities # {} <=> IsInfinite(a) \/ IsInfinite(b)
                    /\ class \intersect Zeros # {} <=> IsZero(a) \/ IsZero(b)
                    /\ "neg_zero" \in class <=> (IsZero(a) \/ IsZero(b)) /\ MulSign(a, b) = 1
                    /\ class \subseteq Infinities \union Zeros
<1> DEFINE x == ClassOf(a)
           y == ClassOf(b)
           class == MulClass(a, b)
           sign == MulSign(a, b)
           infinity == Signed3(sign, "pos_inf", "neg_inf")
           zero == Signed3(sign, "pos_zero", "neg_zero")
           nan == x \in NaNs \/ y \in NaNs
           invalid == (x \in Zeros /\ y \in Infinities) \/ (x \in Infinities /\ y \in Zeros)
<1>1. /\ x \in Zeros <=> IsZero(a)
      /\ x \in Infinities <=> IsInfinite(a)
      /\ x \in NaNs <=> IsNaN(a)
      /\ y \in Zeros <=> IsZero(b)
      /\ y \in Infinities <=> IsInfinite(b)
      /\ y \in NaNs <=> IsNaN(b)
  BY KindOfClass
<1>2. /\ infinity \in Infinities /\ infinity \notin Zeros \union NaNs
      /\ zero \in Zeros /\ zero \notin Infinities \union NaNs
      /\ infinity # "neg_zero" /\ (zero = "neg_zero" <=> sign = 1)
  BY DEF Signed3, Infinities, Zeros, NaNs
<1>3. CASE nan
  <2>1. {x, y} \intersect NaNs # {}
    BY <1>3
  <2>2. class = ({x, y} \intersect {"snan"}) \union {"qnan"}
    BY <2>1 DEF MulClass
  <2>3. "qnan" \in class /\ "qnan" \in NaNs
    BY <2>2 DEF NaNs
  <2> HIDE DEF class
  <2> QED BY <1>1, <1>3, <2>3 DEF class
<1>4. CASE ~nan /\ invalid
  <2>1. {x, y} \intersect NaNs = {} /\ ZeroTimesInfinity(a, b)
    BY <1>4 DEF ZeroTimesInfinity
  <2>2. class = {"qnan"}
    BY <2>1 DEF MulClass
  <2>3. "qnan" \in class /\ "qnan" \in NaNs
    BY <2>2 DEF NaNs
  <2> HIDE DEF class
  <2> QED BY <1>1, <1>4, <2>3 DEF class
<1>5. CASE ~nan /\ ~invalid
  <2>1. {x, y} \intersect NaNs = {} /\ ~ZeroTimesInfinity(a, b)
    BY <1>5 DEF ZeroTimesInfinity
  <2> HIDE DEF infinity, zero
  <2>2. class = {infinity : c \in {x, y} \intersect Infinities}
                \union {zero : c \in {x, y} \intersect Zeros}
    BY <2>1 DEF MulClass, infinity, zero
  <2> HIDE DEF class
  <2>3. /\ infinity \in class <=> x \in Infinities \/ y \in Infinities
        /\ zero \in class <=> x \in Zeros \/ y \in Zeros
        /\ class \subseteq {infinity, zero}
    <3>1. infinity # zero
      BY <1>2
    <3> QED BY <2>2, <3>1
  <2>4. /\ class \intersect NaNs = {}
        /\ class \intersect Infinities # {} <=> infinity \in class
        /\ class \intersect Zeros # {} <=> zero \in class
        /\ class \subseteq Infinities \union Zeros
    BY <1>2, <2>3
  <2>5. "neg_zero" \in class <=> zero \in class /\ sign = 1
    BY <1>2, <2>3
  <2> HIDE DEF x, y, sign
  <2> QED BY <1>1, <1>5, <2>3, <2>4, <2>5 DEF class, sign
<1> QED BY <1>3, <1>4, <1>5

\* The product of two normal numbers, its exponent counted as the hardware does.
LEMMA MultipliedInC ==
    ASSUME NEW a, NEW b, IsFlushed(a), IsFlushed(b), MulClass(a, b) = {}
    PROVE  LET e == Scale(a) + Scale(b)
           IN  /\ Product(a, b) = Rounded(MulSign(a, b), MulMantissa(a, b), e) /\ e \in Int
               /\ \A t \in Int : e + Bias + MAN + t = MulExponent(a, b) + (t - MAN)
<1>1. a \in Words /\ b \in Words
  BY DEF IsFlushed
<1>2. /\ ~IsNaN(a) /\ ~IsNaN(b) /\ ~IsInfinite(a) /\ ~IsInfinite(b) /\ ~IsZero(a) /\ ~IsZero(b)
  BY <1>1, ClassOfProduct
<1>3. ~IsSpecial(a) /\ ~IsSpecial(b)
  BY <1>1, <1>2, KindOfClass DEF IsSpecial
<1>4. ExponentOf(a) # 0 /\ ExponentOf(b) # 0
  BY <1>3, SpecialNumbers
<1>5. /\ Significand(a) = HiddenOne(a) /\ Significand(b) = HiddenOne(b)
      /\ Scale(a) = ExponentOf(a) - Bias - MAN /\ Scale(b) = ExponentOf(b) - Bias - MAN
      /\ ExponentOf(a) \in Nat /\ ExponentOf(b) \in Nat /\ Bias \in Nat /\ MAN \in Nat
  BY <1>1, <1>4, SignificandRange, ExponentSizes DEF HiddenOne
<1>6. Product(a, b) = Rounded(MulSign(a, b), MulMantissa(a, b), Scale(a) + Scale(b))
  <2>1. /\ fpclassify(a) \notin {"FP_NAN", "FP_INFINITE", "FP_ZERO"}
        /\ fpclassify(b) \notin {"FP_NAN", "FP_INFINITE", "FP_ZERO"}
    BY <1>2 DEF IsNaN, IsInfinite, IsZero
  <2>2. /\ {fpclassify(a), fpclassify(b)} # {"FP_INFINITE", "FP_ZERO"}
        /\ ~({"FP_INFINITE"} \subseteq {fpclassify(a), fpclassify(b)})
    BY <2>1
  <2>3. Product(a, b) = Rounded(IF SignOf(a) = SignOf(b) THEN 0 ELSE 1,
                                Significand(a) * Significand(b), Scale(a) + Scale(b))
    BY <1>2, <2>2 DEF Product
  <2> QED BY <1>5, <2>3 DEF MulSign, MulMantissa
<1>7. Scale(a) + Scale(b) \in Int
  BY <1>5
<1>8. ASSUME NEW t \in Int
      PROVE  Scale(a) + Scale(b) + Bias + MAN + t = MulExponent(a, b) + (t - MAN)
  BY <1>5 DEF MulExponent
<1> QED BY <1>6, <1>7, <1>8

\* The signs and sizes of words that are not numbers, and of zeros.
LEMMA SpecialValue ==
    ASSUME NEW a, NEW b, IsFlushed(a), IsFlushed(b)
    PROVE  LET class == MulClass(a, b)
               value == subnormal_flush(Product(a, b))
               sign == MulSign(a, b)
           IN  /\ class \intersect NaNs # {} => value = QuietNaN
               /\ class \intersect NaNs = {} /\ class \intersect Infinities # {} =>
                    value = FloatWord(sign, 0, Infinity)
               /\ class # {} /\ class \intersect NaNs = {} /\ class \intersect Infinities = {} =>
                    /\ class \intersect Zeros # {}
                    /\ value = FloatWord(IF "neg_zero" \in class THEN 1 ELSE 0, 0, 0)
                    /\ MulExponent(a, b) < 2 ^ EXP
<1> DEFINE class == MulClass(a, b)
           sign == MulSign(a, b)
           value == subnormal_flush(Product(a, b))
           kinds == {fpclassify(a), fpclassify(b)}
           invalid == (IsZero(a) /\ IsInfinite(b)) \/ (IsInfinite(a) /\ IsZero(b))
<1>1. a \in Words /\ b \in Words /\ sign \in {0, 1}
  BY DEF IsFlushed, MulSign
<1>2. Product(a, b) =
        CASE IsNaN(a) \/ IsNaN(b) -> QuietNaN
          [] kinds = {"FP_INFINITE", "FP_ZERO"} -> QuietNaN
          [] {"FP_INFINITE"} \subseteq kinds /\ kinds \intersect {"FP_NAN", "FP_ZERO"} = {}
                -> FloatWord(sign, 0, Infinity)
          [] OTHER -> Rounded(sign, Significand(a) * Significand(b), Scale(a) + Scale(b))
  BY DEF Product, MulSign
<1>3. /\ Infinity \in Nat /\ 2 ^ MAN <= Infinity /\ Infinity < 2 ^ (XLEN - 1)
      /\ 2 ^ MAN \in Nat \ {0} /\ 2 ^ (XLEN - 1) \in Nat \ {0}
  BY <1>1, FloatClasses, FloatPowers
<1>4. ASSUME class \intersect NaNs # {} PROVE value = QuietNaN
  <2>1. IsNaN(a) \/ IsNaN(b) \/ invalid
    BY <1>1, <1>4, ClassOfProduct
  <2>2. Product(a, b) = QuietNaN
    <3>1. CASE IsNaN(a) \/ IsNaN(b)
      <4>1. /\ IsNaN(a) => fpclassify(a) = "FP_NAN"
            /\ IsNaN(b) => fpclassify(b) = "FP_NAN"
        BY DEF IsNaN
      <4>2. "FP_NAN" \in kinds
        BY <3>1, <4>1
      <4>3. kinds # {"FP_INFINITE", "FP_ZERO"} /\ ~(kinds \intersect {"FP_NAN", "FP_ZERO"} = {})
        <5> HIDE DEF kinds
        <5> QED BY <4>2
      <4> HIDE DEF kinds
      <4> QED BY <1>2, <3>1, <4>3
    <3>2. CASE ~IsNaN(a) /\ ~IsNaN(b) /\ invalid
      <4>1. kinds = {"FP_INFINITE", "FP_ZERO"}
        BY <3>2 DEF IsInfinite, IsZero
      <4>2. ~(kinds \intersect {"FP_NAN", "FP_ZERO"} = {})
        BY <4>1
      <4> HIDE DEF kinds
      <4> QED BY <1>2, <3>2, <4>1, <4>2
    <3> QED BY <2>1, <3>1, <3>2
  <2>3. fpclassify(QuietNaN) # "FP_SUBNORMAL"
    <3> DEFINE p == 2 ^ (MAN - 1)
               A == AllOnes * 2 ^ MAN
               H == 2 ^ (XLEN - 1)
    <3>1. QuietNaN = 0 * H + A + p /\ Infinity = A
      BY InfinityWord DEF QuietNaN, FloatWord
    <3>2. p \in Nat /\ A \in Nat /\ H = 2 ^ MAN * 2 ^ EXP /\ H \in Nat /\ p < 2 ^ MAN
      BY <1>3, <3>1, FloatPowers
    <3>3. A + 2 ^ MAN = H
      <4> DEFINE P == 2 ^ MAN
                 E == 2 ^ EXP
      <4>1. P \in Nat /\ E \in Nat /\ AllOnes = E - 1 /\ A = AllOnes * P
        BY FloatPowers DEF AllOnes
      <4> HIDE DEF P, E
      <4>2. (E - 1) * P + P = P * E
        BY <4>1
      <4> QED BY <3>2, <4>1, <4>2 DEF P, E
    <3> DEFINE m == A + p
    <3>4. m \in Nat /\ m < H /\ 0 * H = 0 /\ m >= 2 ^ MAN
      <4> HIDE DEF A, p, H
      <4> QED BY <1>3, <3>1, <3>2, <3>3
    <3>5. QuietNaN = FloatWord(0, 0, m)
      <4>1. FloatWord(0, 0, m) = 0 * H + 0 * 2 ^ MAN + m
        BY DEF FloatWord
      <4>2. 0 * 2 ^ MAN = 0
        BY <1>3
      <4> HIDE DEF H
      <4> QED BY <3>1, <3>2, <3>4, <4>1, <4>2
    <3> HIDE DEF m, H
    <3>6. 0 \in {0, 1} /\ m < 2 ^ (XLEN - 1)
      BY <3>4 DEF H
    <3>7. QuietNaN \in Words /\ Magnitude(QuietNaN) = m
      BY <3>4, <3>5, <3>6, FloatMade
    <3>8. ~(m < 2 ^ MAN)
      BY <1>3, <3>4
    <3> QED BY <3>7, <3>8, FloatClasses
  <2> QED BY <2>2, <2>3 DEF subnormal_flush
<1>5. ASSUME class \intersect NaNs = {}, class \intersect Infinities # {}
      PROVE  value = FloatWord(sign, 0, Infinity)
  <2>1. ~IsNaN(a) /\ ~IsNaN(b) /\ ~invalid /\ (IsInfinite(a) \/ IsInfinite(b))
    BY <1>1, <1>5, ClassOfProduct
  <2>2. /\ fpclassify(a) # "FP_NAN" /\ fpclassify(b) # "FP_NAN"
        /\ fpclassify(a) # "FP_ZERO" /\ fpclassify(b) # "FP_ZERO"
        /\ fpclassify(a) = "FP_INFINITE" \/ fpclassify(b) = "FP_INFINITE"
    BY <2>1 DEF IsNaN, IsInfinite, IsZero
  <2>3. /\ kinds # {"FP_INFINITE", "FP_ZERO"}
        /\ {"FP_INFINITE"} \subseteq kinds /\ kinds \intersect {"FP_NAN", "FP_ZERO"} = {}
    BY <2>2
  <2> HIDE DEF kinds
  <2>4. Product(a, b) = FloatWord(sign, 0, Infinity)
    BY <1>2, <2>1, <2>3
  <2> HIDE DEF sign
  <2>5. subnormal_flush(FloatWord(sign, 0, Infinity)) =
          FloatWord(sign, 0, IF Infinity < 2 ^ MAN THEN 0 ELSE Infinity)
    BY <1>1, <1>3, FlushedWord
  <2>6. ~(Infinity < 2 ^ MAN)
    BY <1>3
  <2> QED BY <2>4, <2>5, <2>6
<1>6. ASSUME class # {}, class \intersect NaNs = {}, class \intersect Infinities = {}
      PROVE  /\ class \intersect Zeros # {}
             /\ value = FloatWord(IF "neg_zero" \in class THEN 1 ELSE 0, 0, 0)
             /\ MulExponent(a, b) < 2 ^ EXP
  <2>1. /\ ~IsNaN(a) /\ ~IsNaN(b) /\ ~IsInfinite(a) /\ ~IsInfinite(b)
        /\ class \intersect Zeros # {} <=> IsZero(a) \/ IsZero(b)
        /\ "neg_zero" \in class <=> (IsZero(a) \/ IsZero(b)) /\ sign = 1
        /\ class \subseteq Infinities \union Zeros
    BY <1>1, <1>6, ClassOfProduct
  <2>2. class \intersect Zeros # {} /\ (IsZero(a) \/ IsZero(b))
    BY <1>6, <2>1
  <2>3. (IF "neg_zero" \in class THEN 1 ELSE 0) = sign
    BY <1>1, <2>1, <2>2
  <2>4. Product(a, b) = Rounded(sign, Significand(a) * Significand(b), Scale(a) + Scale(b))
    <3>1. fpclassify(a) # "FP_INFINITE" /\ fpclassify(b) # "FP_INFINITE"
      BY <2>1 DEF IsInfinite
    <3>2. kinds # {"FP_INFINITE", "FP_ZERO"} /\ ~({"FP_INFINITE"} \subseteq kinds)
      BY <3>1
    <3> HIDE DEF kinds
    <3> QED BY <1>2, <2>1, <3>2
  <2>5. ASSUME NEW x \in {a, b}
        PROVE  /\ x \in Words /\ Significand(x) \in Nat
               /\ IsZero(x) => Significand(x) = 0 /\ ExponentOf(x) = 0
               /\ ExponentOf(x) \in 0 .. AllOnes /\ AllOnes \in Nat
    <3>1. x \in Words /\ IsFlushed(x)
      BY <1>1, <2>5
    <3>2. ExponentOf(x) \in 0 .. AllOnes /\ MantissaOf(x) \in 0 .. 2 ^ MAN - 1 /\ AllOnes \in Nat
      BY <3>1, FloatParts, FloatPowers
    <3>3. Significand(x) \in Nat
      <4> DEFINE P == 2 ^ MAN
                 m == MantissaOf(x)
      <4>1. m \in Nat /\ P \in Nat
        BY <1>3, <3>2
      <4> HIDE DEF P, m
      <4>2. P + m \in Nat
        BY <4>1
      <4> QED BY <4>1, <4>2 DEF Significand, P, m
    <3>4. IsZero(x) => ExponentOf(x) = 0 /\ MantissaOf(x) = 0
      BY <3>1, KindOfClass, SpecialNumbers
    <3> QED BY <3>1, <3>2, <3>3, <3>4 DEF Significand
  <2>6. Significand(a) * Significand(b) = 0
    <3> DEFINE x == Significand(a)
               y == Significand(b)
    <3>1. x \in Nat /\ y \in Nat /\ (x = 0 \/ y = 0)
      BY <2>2, <2>5
    <3> HIDE DEF x, y
    <3>2. x * y = 0
      BY <3>1
    <3> QED BY <3>2 DEF x, y
  <2>7. Product(a, b) = FloatWord(sign, 0, 0)
    BY <2>4, <2>6 DEF Rounded
  <2>8. value = FloatWord(sign, 0, 0)
    <3> HIDE DEF sign
    <3>1. 0 \in Nat /\ 0 < 2 ^ (XLEN - 1) /\ 0 < 2 ^ MAN
      BY <1>3
    <3>2. subnormal_flush(FloatWord(sign, 0, 0)) = FloatWord(sign, 0, IF 0 < 2 ^ MAN THEN 0 ELSE 0)
      BY <1>1, <3>1, FlushedWord
    <3> QED BY <2>7, <3>2
  <2>9. MulExponent(a, b) < 2 ^ EXP
    <3> DEFINE x == ExponentOf(a)
               y == ExponentOf(b)
               E == 2 ^ EXP
    <3>1. /\ x \in 0 .. AllOnes /\ y \in 0 .. AllOnes /\ AllOnes \in Nat /\ (x = 0 \/ y = 0)
          /\ E \in Nat /\ AllOnes = E - 1 /\ Bias \in Nat
      BY <2>2, <2>5, FloatPowers, ExponentSizes DEF AllOnes
    <3>2. MulExponent(a, b) = x + y - Bias
      BY DEF MulExponent
    <3> HIDE DEF x, y, E
    <3>3. x + y - Bias < E
      BY <3>1
    <3> QED BY <3>2, <3>3 DEF E
  <2> QED BY <2>2, <2>3, <2>8, <2>9
<1> HIDE DEF class, value, sign
<1> QED BY <1>4, <1>5, <1>6 DEF class, value, sign

\* The word that the normalizer ends with stands for the product of C.
LEMMA FinalMultiplies ==
    ASSUME NormalizerTypes, ControlTypes, Multiplying(norm), norm.state = "S_FINALIZE",
           IsFlushed(fpu.a), IsFlushed(fpu.b)
    PROVE  RoundedLike(FinalWord, subnormal_flush(Product(fpu.a, fpu.b)))
<1> DEFINE class == MulClass(fpu.a, fpu.b)
           flags == MulFlags(fpu.a, fpu.b)
           sign == MulSign(fpu.a, fpu.b)
           E == MulExponent(fpu.a, fpu.b)
           P == 2 ^ MAN
           M == 2 ^ EXP
           A == AllOnes
           value == subnormal_flush(Product(fpu.a, fpu.b))
           y(t) == ProductOffset + t
           R(t) == NearestEven(Multiplied, t)
<1>1. /\ norm.sign = sign /\ E \in Int /\ sign \in {0, 1}
      /\ ~Ordinary => norm.class = class /\ norm.flags = flags
  BY ProductTyped DEF Multiplying, MulSign
<1>2. /\ P \in Nat \ {0} /\ M \in Nat \ {0} /\ A = M - 1 /\ A \in Nat /\ A >= 21
      /\ MAN \in Nat
  <2>1. P \in Nat \ {0} /\ M \in Nat \ {0} /\ A = M - 1 /\ A \in Nat
    BY FloatPowers DEF AllOnes
  <2>2. Bias \in Nat /\ Bias >= 10 /\ AllOnes = 2 * Bias + 1 /\ MAN \in Nat
    BY ExponentSizes
  <2> HIDE DEF P, M
  <2> QED BY <2>1, <2>2
<1>3. FinalWord =
        IF norm.class \intersect NaNs # {} THEN QuietNaN
        ELSE IF norm.class \intersect Infinities # {} \/ "of" \in norm.flags
             THEN FloatWord(sign, 0, Infinity)
        ELSE IF norm.class \intersect Zeros # {}
             THEN FloatWord(IF "neg_zero" \in norm.class THEN 1 ELSE 0, 0, 0)
        ELSE IF "uf" \in norm.flags \/ Upper = 0 THEN FloatWord(sign, 0, 0)
        ELSE FloatWord(sign, norm.cnt % M, Lower)
  BY <1>1 DEF FinalWord
<1>4. /\ "of" \in flags <=> E >= M
      /\ "uf" \in flags <=> E < 0
  BY DEF MulFlags
\* What the values are at each place.
<1>5. ASSUME class = {}, NEW t, ProductPlace(t)
      PROVE  /\ y(t) \in Int /\ y(t) \in {E, E + 1}
             /\ R(t) \in P .. 2 * P
             /\ y(t) >= 1 => value = FloatWord(sign, 0, Min({(y(t) - 1) * P + R(t), Infinity}))
             /\ y(t) <= 0 => RoundedLike(FloatWord(sign, 0, 0), value)
             /\ value = subnormal_flush(Rounded(sign, Multiplied, ProductOffset - Bias - MAN))
  <2>1. /\ t \in Int /\ t # 0 /\ IsSignificand(Multiplied, t) /\ Multiplied \in Nat
        /\ ProductOffset \in Int /\ ProductOffset + t \in {E, E + 1} /\ ProductOffset + MAN = E
    BY <1>5, ProductTyped
  <2>2. R(t) \in P .. 2 * P
    BY <2>1, LengthOfPlaces
  <2>3. value = subnormal_flush(Rounded(sign, Multiplied, ProductOffset - Bias - MAN))
    <3> DEFINE e == Scale(fpu.a) + Scale(fpu.b)
    <3>1. /\ Product(fpu.a, fpu.b) = Rounded(sign, Multiplied, e) /\ e \in Int
          /\ e + Bias + MAN + MAN = E + (MAN - MAN)
      BY <1>2, <1>5, MultipliedInC DEF Multiplied
    <3> HIDE DEF e, E
    <3>2. e = ProductOffset - Bias - MAN
      BY <1>1, <1>2, <2>1, <3>1, ExponentSizes
    <3> QED BY <3>1, <3>2
  <2>4. /\ y(t) >= 1 => value = FloatWord(sign, 0, Min({(y(t) - 1) * P + R(t), Infinity}))
        /\ y(t) <= 0 => RoundedLike(FloatWord(sign, 0, 0), value)
    <3> DEFINE c == Multiplied
               x == ProductOffset
    <3>1. sign \in {0, 1} /\ c \in Nat /\ t # 0 /\ IsSignificand(c, t) /\ x \in Int
      BY <1>1, <2>1
    <3> HIDE DEF sign, c, x, value
    <3>2. value = subnormal_flush(Rounded(sign, c, x - Bias - MAN))
      BY <2>3 DEF c, x
    <3>3. /\ x + t >= 1 => value = FloatWord(sign, 0, Min({((x + t) - 1) * P + NearestEven(c, t), Infinity}))
          /\ x + t <= 0 => RoundedLike(FloatWord(sign, 0, 0), value)
      BY <3>1, <3>2, RoundedValue
    <3> QED BY <3>3 DEF c, x
  <2> QED BY <1>1, <2>1, <2>2, <2>3, <2>4
<1>6. CASE class # {}
  <2>1. ~Ordinary
    BY <1>6 DEF Ordinary
  <2>2. norm.class = class /\ norm.flags = flags
    BY <1>1, <2>1
  <2>3. /\ class \intersect NaNs # {} => value = QuietNaN
        /\ class \intersect NaNs = {} /\ class \intersect Infinities # {} =>
             value = FloatWord(sign, 0, Infinity)
        /\ class # {} /\ class \intersect NaNs = {} /\ class \intersect Infinities = {} =>
             /\ class \intersect Zeros # {}
             /\ value = FloatWord(IF "neg_zero" \in class THEN 1 ELSE 0, 0, 0)
             /\ E < M
    BY SpecialValue
  <2>4. E < M => ~(E >= M)
    <3> HIDE DEF E, M
    <3> QED BY <1>1, <1>2 DEF M
  <2> HIDE DEF class, value, flags, sign, E, M
  <2>5. FinalWord = value
    <3>1. CASE class \intersect NaNs # {}
      BY <1>3, <2>2, <2>3, <3>1
    <3>2. CASE class \intersect NaNs = {} /\ class \intersect Infinities # {}
      BY <1>3, <2>2, <2>3, <3>2
    <3>3. CASE class \intersect NaNs = {} /\ class \intersect Infinities = {}
      <4>1. "of" \notin norm.flags
        BY <1>4, <1>6, <2>2, <2>3, <2>4, <3>3
      <4> QED BY <1>3, <1>6, <2>2, <2>3, <3>3, <4>1
    <3> QED BY <3>1, <3>2, <3>3
  <2> QED BY <2>5 DEF RoundedLike, value
<1>7. CASE class = {} /\ ~Ordinary
  <2>1. norm.class = {} /\ norm.flags = flags
    BY <1>1, <1>7
  <2>2. E < 0 \/ E >= M
    <3>1. ~(E \in 0 .. A)
      BY <1>7 DEF Ordinary
    <3> HIDE DEF E, M, A
    <3> QED BY <1>1, <1>2, <3>1
  <2>3. PICK t : ProductPlace(t)
    BY ProductTyped
  <2>4. CASE E >= M
    <3>1. FinalWord = FloatWord(sign, 0, Infinity)
      BY <1>3, <1>4, <2>1, <2>4
    <3>2. y(t) \in Int /\ y(t) >= 1 /\ y(t) >= A /\ R(t) \in P .. 2 * P
      <4>1. y(t) \in {E, E + 1} /\ R(t) \in P .. 2 * P
        BY <1>5, <1>7, <2>3
      <4> DEFINE x == y(t)
      <4> HIDE DEF E, M, A, x, P
      <4>2. x \in Int /\ x >= 1 /\ x >= A
        BY <1>1, <1>2, <2>4, <4>1 DEF x
      <4> QED BY <4>1, <4>2 DEF x
    <3>3. Min({(y(t) - 1) * P + R(t), Infinity}) = Infinity
      <4> DEFINE x == y(t)
                 k == R(t)
      <4>1. x \in Int /\ x >= 1 /\ x >= A /\ k \in P .. 2 * P
        BY <3>2
      <4> HIDE DEF x, k
      <4>2. Min({(x - 1) * P + k, Infinity}) = Infinity
        BY <4>1, CappedProduct
      <4> QED BY <4>2 DEF x, k
    <3>4. value = FloatWord(sign, 0, Infinity)
      BY <1>5, <1>7, <2>3, <3>2, <3>3
    <3> QED BY <3>1, <3>4 DEF RoundedLike
  <2>5. CASE E < 0
    <3>1. ~(E >= M)
      <4> HIDE DEF E, M
      <4> QED BY <1>1, <1>2, <2>5 DEF M
    <3>2. FinalWord = FloatWord(sign, 0, 0)
      BY <1>3, <1>4, <2>1, <2>5, <3>1
    <3>3. y(t) <= 0
      <4>1. y(t) \in {E, E + 1}
        BY <1>5, <1>7, <2>3
      <4> DEFINE x == y(t)
      <4> HIDE DEF E, x
      <4>2. x <= 0
        BY <1>1, <2>5, <4>1 DEF x
      <4> QED BY <4>2 DEF x
    <3> QED BY <1>5, <1>7, <2>3, <3>2, <3>3
  <2> QED BY <2>2, <2>4, <2>5
<1>8. CASE Ordinary
  <2>1. class = {} /\ norm.sign \in {0, 1}
    BY <1>1, <1>8 DEF Ordinary
  <2>2. PICK p : ProductPlace(p) /\ Underway(norm, Multiplied, ProductOffset, p)
    BY <1>8 DEF Multiplying
  <2>3. IsExact(Multiplied, ProductOffset, p)
    BY <1>8, <2>2, ProductTyped
  <2>4. RoundedLike(FinalWord, subnormal_flush(Rounded(norm.sign, Multiplied, ProductOffset - Bias - MAN)))
    BY <2>1, <2>2, <2>3, FinalRounded
  <2> QED BY <1>1, <1>5, <2>1, <2>2, <2>4
<1> QED BY <1>6, <1>7, <1>8

-----------------------------------------------------------------------------
(* The multiplier in the ALU.                                              *)

EmulatedProduct == riscv_emulate_fmuls(rs.rs1, rs.rs2)

\* The multiplier at work and its result, as long as no trapped instruction has
\* left one of the co-processors running.
ProductHeld ==
    fpu.op = "mul" /\ fpu.frm = 0 =>
      /\ norm.state # "S_IDLE" => Multiplying(norm)
      /\ norm.done \/ fpu.valid => RoundedLike(norm.result, EmulatedProduct)

LEMMA FlushedOperand ==
    ASSUME NEW w \in Words
    PROVE  IsFlushed(OperandData(w)) /\ OperandData(w) = subnormal_flush(w)
<1>1. Magnitude(w) \in Nat /\ 2 ^ MAN \in Nat
  BY FloatParts, FloatPowers
<1>2. OperandData(w) \in Words
      /\ (Magnitude(OperandData(w)) = 0 \/ ~(Magnitude(OperandData(w)) < 2 ^ MAN))
  BY <1>1, Flushed
<1> QED BY <1>2, Flushed DEF IsFlushed

\* The normalizer with the same operands.
LEMMA SameOperands ==
    ASSUME fpu'.a = fpu.a, fpu'.b = fpu.b
    PROVE  Multiplying(norm') => Multiplying(norm)'
<1>1. /\ Ordinary' = Ordinary
      /\ \A p : ProductPlace(p)' = ProductPlace(p)
      /\ Multiplied' = Multiplied
      /\ ProductOffset' = ProductOffset
  BY DEF Ordinary, ProductPlace, Multiplied, ProductOffset
<1>2. \A c, x, p : Underway(norm, c, x, p)' = Underway(norm', c, x, p)
  BY DEF Underway, Watched, RoundedAt, CarriedTo, SettledAt, CompleteAt, Moving
<1> QED BY <1>1, <1>2 DEF Multiplying

LEMMA ProductHeldStep ==
    ASSUME IInv, Awaited, Operands, Typed, FloatHeld, ProductHeld, Clock, ~abandoned'
    PROVE  ProductHeld'
<1>1. /\ ControlTypes /\ AdderTypes /\ NormalizerTypes /\ Phases /\ Controlled /\ Shapes
      /\ FpuInvariant
  BY DEF Typed, IInv
<1>2. /\ norm'.done = (norm.state = "S_FINALIZE")
      /\ norm.state = "S_IDLE" /\ ~NormalizerStarts => norm'.state = "S_IDLE"
  BY <1>1, NormalizerStates
<1>3. CASE ~fpu.busy
  <2>1. /\ norm.state = "S_IDLE" /\ ~NormalizerStarts
    <3>1. fpu.after \in 0 .. 4
      BY <1>1 DEF ControlTypes
    <3> QED BY <1>1, <1>3, <3>1 DEF Phases, NormalizerStarts
  <2>2. norm'.state = "S_IDLE" /\ ~norm'.done /\ ~fpu'.valid
    BY <1>1, <1>2, <1>3, <2>1, FpuRecord
  <2> QED BY <2>2 DEF ProductHeld
<1>4. CASE fpu.busy
  <2>1. state = "ALU_WAIT"
    BY <1>4 DEF Awaited, Working
  <2>2. rs' = rs
    BY <1>1, <2>1, Waiting
  <2>3. fpu'.op = fpu.op /\ fpu'.frm = fpu.frm /\ fpu'.a = fpu.a /\ fpu'.b = fpu.b
    BY <1>1, <1>4, ControllerFields
  <2>4. Follows(norm')
    BY <1>1, NormalizerFollows
  <2>5. fpu.a = OperandData(rs.rs1) /\ fpu.b = OperandData(rs.rs2)
    BY <1>4 DEF FloatHeld
  <2>6. /\ IsFlushed(fpu.a) /\ IsFlushed(fpu.b)
        /\ subnormal_flush(Product(fpu.a, fpu.b)) = EmulatedProduct
    <3>1. rs.rs1 \in Words /\ rs.rs2 \in Words
      BY DEF Operands
    <3> QED BY <2>5, <3>1, FlushedOperand DEF EmulatedProduct, riscv_emulate_fmuls
  <2>7. EmulatedProduct' = EmulatedProduct
    BY <2>2 DEF EmulatedProduct
  <2> SUFFICES ASSUME fpu.op = "mul", fpu.frm = 0
               PROVE  /\ norm'.state # "S_IDLE" => Multiplying(norm)'
                      /\ norm'.done \/ fpu'.valid => RoundedLike(norm.result, EmulatedProduct)'
    BY <2>3 DEF ProductHeld
  <2>8. ASSUME norm.state = "S_IDLE"
        PROVE  (norm'.state # "S_IDLE" => Multiplying(norm')) /\ norm'.result = norm.result
    BY <1>1, <2>4, <2>8, MultiplierTakes
  <2>9. ASSUME norm.state # "S_IDLE"
        PROVE  /\ Multiplying(norm)
               /\ norm.state # "S_FINALIZE" => Multiplying(norm')
               /\ norm.state = "S_FINALIZE" => norm'.result = FinalWord /\ norm'.state = "S_IDLE"
    <3>1. Multiplying(norm)
      BY <2>9 DEF ProductHeld
    <3> QED BY <1>1, <2>4, <2>9, <3>1, MultiplierSteps
  <2>10. norm'.state # "S_IDLE" => Multiplying(norm)'
    <3>1. norm'.state # "S_IDLE" => Multiplying(norm')
      BY <2>8, <2>9
    <3> QED BY <2>3, <3>1, SameOperands
  <2>11. ASSUME norm'.done \/ fpu'.valid
         PROVE  RoundedLike(norm'.result, EmulatedProduct)
    <3>1. CASE norm'.done
      <4>1. norm.state = "S_FINALIZE"
        BY <1>2, <3>1
      <4>2. norm'.result = FinalWord /\ Multiplying(norm)
        BY <2>9, <4>1
      <4> QED BY <1>1, <2>6, <4>1, <4>2, FinalMultiplies
    <3>2. CASE fpu'.valid
      <4>1. CoreDone(instr)
        <5>1. fpu'.busy = ~CoreDone(instr) /\ (fpu'.busy <=> ~fpu'.valid)
          BY <1>1, <1>4, ControllerFields, FpuRecord
        <5> QED BY <3>2, <5>1
      <4>2. norm.done /\ norm.state = "S_IDLE"
        <5>1. /\ Started(instr, "class") => fpu.op = "class"
              /\ Started(instr, "sgnj") => fpu.op = "sgnj"
          BY <1>1, StartedOperation DEF UnitNames
        <5> QED BY <1>1, <4>1, <5>1 DEF CoreDone, Phases
      <4>3. RoundedLike(norm.result, EmulatedProduct)
        BY <4>2 DEF ProductHeld
      <4> QED BY <2>8, <4>2, <4>3
    <3> QED BY <2>11, <3>1, <3>2
  <2>12. RoundedLike(norm.result, EmulatedProduct)' = RoundedLike(norm'.result, EmulatedProduct)
    BY <2>7 DEF RoundedLike
  <2> QED BY <2>10, <2>11, <2>12
<1> QED BY <1>3, <1>4

ProductAnswered ==
    ctrl.wb /\ CoProcessorOf(instr) = "fpu" /\ OperationOf(instr) = "mul" =>
      (RoundingMode(instr) = 0 => RoundedLike(fpu.result, EmulatedProduct))

LEMMA ProductAnsweredStep ==
    ASSUME IInv, Awaited, Operands, FloatHeld, ConverterHeld, ProductHeld, Clock, ~abandoned'
    PROVE  ProductAnswered'
<1> SUFFICES ASSUME ctrl'.wb, CoProcessorOf(instr)' = "fpu", OperationOf(instr)' = "mul",
                    RoundingMode(instr)' = 0
             PROVE  RoundedLike(fpu.result, EmulatedProduct)'
  BY DEF ProductAnswered
<1>1. ~EXECUTE
  <2> SUFFICES ASSUME EXECUTE PROVE FALSE
    OBVIOUS
  <2>1. i_reg' = i_reg /\ CoProcessorOf(instr) = "none"
    BY DEF EXECUTE, Off
  <2>2. CoProcessorOf(instr)' = "none"
    BY <2>1 DEF instr
  <2> QED BY <2>2
<1>2. ALU_WAIT
  BY <1>1 DEF Clock, ExecuteEngine, SYS_WAIT, DispatchWaits, Dispatch, DispatchTraps, TRAP_ENTER,
              TRAP_EXECUTE, Off
<1>3. i_reg' = i_reg /\ rs' = rs /\ idone
  BY <1>2, Waiting DEF ALU_WAIT, IInv
<1>4. /\ CoProcessorOf(instr)' = CoProcessorOf(instr) /\ OperationOf(instr)' = OperationOf(instr)
      /\ RoundingMode(instr)' = RoundingMode(instr) /\ EmulatedProduct' = EmulatedProduct
  BY <1>3 DEF instr, EmulatedProduct
<1>5. fpu.valid
  <2>1. Valid("fpu")
    BY <1>3, <1>4, OneAnswers
  <2> QED BY <2>1 DEF Valid
<1>6. fpu.op = "mul" /\ fpu.frm = 0
  BY <1>4, <1>5 DEF FloatHeld, ConverterHeld
<1>7. fpu'.result = norm.result
  <2>1. fpu'.result = FpuResult(instr)
    BY <1>5, FloatControl DEF IInv, OutputGate
  <2> QED BY <1>6, <2>1 DEF FpuResult
<1>8. RoundedLike(norm.result, EmulatedProduct)
  BY <1>5, <1>6 DEF ProductHeld
<1> QED BY <1>4, <1>7, <1>8 DEF RoundedLike

Products == abandoned \/ (ProductHeld /\ ProductAnswered)

LEMMA ProductsInit == Init => Products
BY DEF Init, FpuInit, Off, Products, ProductHeld, ProductAnswered

LEMMA ProductsStep == IInv /\ Holds /\ Typed /\ Converts /\ Products /\ [Clock]_vars => Products'
<1> SUFFICES ASSUME IInv, Holds, Typed, Converts, Products, [Clock]_vars PROVE Products'
  OBVIOUS
<1>1. CASE Clock
  <2> SUFFICES ASSUME ~abandoned' PROVE ProductHeld' /\ ProductAnswered'
    BY DEF Products
  <2>1. ~abandoned
    BY <1>1, Zenon DEF Clock, Registers
  <2>2. Awaited /\ Operands /\ FloatHeld /\ ConverterHeld /\ ProductHeld
    BY <2>1 DEF IInv, Holds, Converts, Products
  <2> QED BY <1>1, <2>2, ProductHeldStep, ProductAnsweredStep
<1>2. CASE UNCHANGED vars
  <2>1. /\ i_reg' = i_reg /\ rs' = rs /\ ctrl' = ctrl /\ abandoned' = abandoned /\ fpu' = fpu
        /\ norm' = norm
    BY <1>2 DEF vars, control_vars, fpu_vars
  <2>2. instr' = instr /\ EmulatedProduct' = EmulatedProduct
    BY <2>1 DEF EmulatedProduct, instr
  <2>3. Multiplying(norm) => Multiplying(norm)'
    BY <2>1, SameOperands
  <2>4. ProductHeld => ProductHeld'
    BY <2>1, <2>2, <2>3 DEF ProductHeld, RoundedLike
  <2>5. ProductAnswered' = ProductAnswered
    BY <2>1, <2>2 DEF ProductAnswered, RoundedLike
  <2> QED BY <2>1, <2>4, <2>5 DEF Products
<1> QED BY <1>1, <1>2

LEMMA ProductsSpec == Spec => []Products
BY Invariant, Answering, TypedSpec, ConvertsSpec, ProductsInit, ProductsStep, PTL DEF Spec

LEMMA ProductDecoded ==
    LET i == riscv_intrinsic_fmuls
    IN  CoProcessorOf(i) = "fpu" /\ OperationOf(i) = "mul" /\ RoundingMode(i) = 0
<1> USE DEF CUSTOM_INSTR_R2_TYPE, CMD_WORD_R2_TYPE
<1> DEFINE i == riscv_intrinsic_fmuls
<1>1. i.opcode = opcode_fop_c /\ i.funct7 = 8 /\ i.funct3 = 0
  BY DEF riscv_intrinsic_fmuls, opcode_fop_c
<1> HIDE DEF i
<1>2. CoProcessorOf(i) = "fpu"
  BY <1>1 DEF CoProcessorOf, IsAluOperation, opcode_alu_c, opcode_alui_c, opcode_fop_c
<1>3. OperationOf(i) = "mul"
  <2>1. Bits(8, 6, 2) = 2 /\ Bits(8, 6, 3) = 1
    BY DEF Bits
  <2> QED BY <1>1, <2>1 DEF OperationOf, UnitOf
<1>4. RoundingMode(i) = 0
  <2>1. Bits(0, 1, 0) = 0
    BY DEF Bits
  <2> QED BY <1>1, <2>1 DEF RoundingMode
<1> QED BY <1>2, <1>3, <1>4 DEF i

LEMMA ProductAnswers ==
    ASSUME Operands, Answered, ProductAnswered, ControlTypes, ctrl.wb,
           instr = riscv_intrinsic_fmuls
    PROVE  SumLike(riscv_emulate_fmuls(a0, a1), FALSE)
<1>1. rs.rs1 = a0 /\ rs.rs2 = a1
  BY DEF Operands, a0, a1
<1>2. CoProcessorOf(instr) = "fpu" /\ OperationOf(instr) = "mul" /\ RoundingMode(instr) = 0
  BY ProductDecoded
<1>3. AluResult = fpu.result
  <2>1. /\ "fpu" \in CoProcessors /\ ctrl.copro
        /\ \A cp \in CoProcessors \ {"fpu"} : Result(cp) = 0
    BY <1>2 DEF Answered
  <2>2. Result("fpu") = fpu.result /\ fpu.result \in Words
    BY DEF Result, ControlTypes
  <2> QED BY <2>1, <2>2, OnlyResult
<1>4. RoundedLike(fpu.result, riscv_emulate_fmuls(a0, a1))
  BY <1>1, <1>2 DEF ProductAnswered, EmulatedProduct
<1> QED BY <1>3, <1>4 DEF RoundedLike, SumLike

\* FMUL.S writes what the product of C gives, rounded to the nearest number, ties
\* to even, with the infinities, the zeros and the NaN where C has them; only a
\* product that C rounds up to the smallest normal number may become 0.
THEOREM ProductsAreEmulated == Spec => []ProductsLikeEmulated
<1>1. Holds /\ Typed /\ Converts /\ Products => ProductsLikeEmulated
  <2> SUFFICES ASSUME Holds, Typed, Converts, Products, Undisturbed, instr = riscv_intrinsic_fmuls
               PROVE  SumLike(riscv_emulate_fmuls(a0, a1), FALSE)
    BY DEF ProductsLikeEmulated
  <2>1. Operands /\ Answered /\ ProductAnswered /\ ControlTypes /\ ctrl.wb
    BY DEF Holds, Typed, Converts, Products, Undisturbed, Writes
  <2> QED BY <2>1, ProductAnswers
<1> QED BY <1>1, Answering, TypedSpec, ConvertsSpec, ProductsSpec, PTL

-----------------------------------------------------------------------------
(* The sums of aligned significands.                                       *)

LEMMA WideExponent == EXP >= 5 /\ XLEN >= MAN + 6 /\ XLEN \in Nat /\ MAN \in Nat /\ MAN >= 3
<1>1. /\ EXP \in Nat /\ MAN \in Nat /\ EXP >= 2 /\ MAN >= 3 /\ XLEN = 1 + EXP + MAN /\ XLEN \in Nat
      /\ XLEN >= 10 /\ 2 ^ (EXP - 1) > XLEN
  BY FloatSizes, Powers
<1>2. ASSUME EXP <= 4 PROVE FALSE
  <2> DEFINE k == EXP - 1
  <2>1. k \in {1, 2, 3} /\ 2 ^ k > XLEN
    BY <1>1, <1>2
  <2> HIDE DEF k
  <2>2. 2 ^ 1 = 2 /\ 2 ^ 2 = 4 /\ 2 ^ 3 = 8
    OBVIOUS
  <2>3. 2 ^ k \in {2, 4, 8}
    BY <2>1, <2>2
  <2> QED BY <1>1, <2>1, <2>3
<1> QED BY <1>1, <1>2

\* What the sticky bit stands for stays the same on both sides of a multiple.
LEMMA StickySum ==
    ASSUME NEW e \in Nat \ {0}, NEW x \in Nat, NEW q \in Nat
    PROVE  /\ Sticky(x + e * q, e) = 2 * q + Sticky(x, e)
           /\ Sticky(e * q - x, e) = 2 * q - Sticky(x, e)
           /\ Sticky(x, e) \in Int
<1> DEFINE k == x \div e
           r == x % e
           s == IF r = 0 THEN 0 ELSE 1
           y == e * q - x
<1>1. k \in Int /\ r \in Int /\ 0 <= r /\ r < e /\ x = e * k + r
  BY DivMod
<1>2. Sticky(x, e) = 2 * k + s
  BY DEF Sticky
<1>3. Sticky(x + e * q, e) = 2 * (k + q) + s
  <2> DEFINE z == x + e * q
  <2>1. x \in Int /\ q \in Int
    OBVIOUS
  <2>2. z \div e = k + q /\ z % e = r
    BY <2>1, MultipleAdded
  <2> HIDE DEF z, k, r
  <2>3. Sticky(z, e) = 2 * (k + q) + s
    BY <2>2 DEF Sticky
  <2> QED BY <2>3 DEF z
<1> HIDE DEF k, r
<1>4. e * q \in Int /\ e * (q - k) = e * q - e * k /\ e * ((q - k) - 1) = e * q - e * k - e
      /\ e * k \in Int
  BY <1>1
<1>5. CASE r = 0
  <2> DEFINE h == q - k
  <2>1. y = e * h + 0 /\ h \in Int /\ y \in Int /\ 0 < e
    BY <1>1, <1>4, <1>5
  <2> HIDE DEF y, h
  <2>2. y \div e = h /\ y % e = 0
    BY <2>1, Division
  <2>3. Sticky(y, e) = 2 * h
    BY <2>1, <2>2 DEF Sticky
  <2>4. h = q - k
    BY DEF h
  <2> QED BY <1>1, <1>2, <1>3, <1>5, <2>3, <2>4 DEF y
<1>6. CASE r # 0
  <2> DEFINE g == e - r
             h == (q - k) - 1
  <2>1. y = e * h + g /\ h \in Int /\ y \in Int /\ g \in Int /\ 0 <= g /\ g < e /\ g # 0
    BY <1>1, <1>4, <1>6
  <2> HIDE DEF y, g, h
  <2>2. y \div e = h /\ y % e = g
    BY <2>1, Division
  <2>3. Sticky(y, e) = 2 * h + 1
    BY <2>1, <2>2 DEF Sticky
  <2>4. h = (q - k) - 1
    BY DEF h
  <2> QED BY <1>1, <1>2, <1>3, <1>6, <2>3, <2>4 DEF y
<1> QED BY <1>5, <1>6

\* Below the unit only the sticky bit is left.
LEMMA StickyOnly ==
    ASSUME NEW e \in Nat \ {0}, NEW x \in Nat, x < e
    PROVE  Sticky(x, e) = IF x = 0 THEN 0 ELSE 1
<1>1. x = e * 0 + x
  OBVIOUS
<1>2. x \div e = 0 /\ x % e = x
  BY <1>1, Division
<1> QED BY <1>2 DEF Sticky

\* Of a multiple of the unit it has all.
LEMMA StickyWhole ==
    ASSUME NEW e \in Nat \ {0}, NEW q \in Nat
    PROVE  Sticky(e * q, e) = 2 * q
<1>1. e * q = e * q + 0 /\ e * q \in Int /\ 0 < e
  OBVIOUS
<1> DEFINE x == e * q
<1>2. x = e * q + 0 /\ x \in Int
  BY <1>1
<1> HIDE DEF x
<1>3. x \div e = q /\ x % e = 0
  BY <1>1, <1>2, Division
<1>4. Sticky(x, e) = 2 * q
  BY <1>3 DEF Sticky
<1> QED BY <1>4 DEF x

LEMMA PlacesMade ==
    ASSUME NEW c \in Nat, NEW t \in 0 .. XLEN, 2 ^ t * 2 ^ MAN <= c, c < 2 * (2 ^ t * 2 ^ MAN)
    PROVE  IsSignificand(c, t)
<1> DEFINE P == 2 ^ MAN
           d == 2 ^ t
           k == c \div d
           r == c % d
<1>1. P \in Nat \ {0} /\ d \in Nat \ {0} /\ d * P <= c /\ c < 2 * (d * P)
  BY FloatPowers, Powers
<1>2. k \in Int /\ r \in Int /\ 0 <= r /\ r < d /\ c = d * k + r
  <2> HIDE DEF d
  <2> QED BY <1>1, DivMod
<1> HIDE DEF P, d, k, r
<1>3. d * k \in Int /\ d * P \in Int
  BY <1>1, <1>2
<1>4. k >= P
  <2> SUFFICES ASSUME k <= P - 1 PROVE FALSE
    BY <1>1, <1>2
  <2>1. d * k <= d * (P - 1) /\ d * (P - 1) = d * P - d
    BY <1>1, <1>2
  <2> QED BY <1>1, <1>2, <1>3, <2>1
<1>5. k <= 2 * P - 1
  <2> SUFFICES ASSUME k >= 2 * P PROVE FALSE
    BY <1>1, <1>2
  <2>1. d * k >= d * (2 * P) /\ d * (2 * P) = 2 * (d * P)
    BY <1>1, <1>2
  <2> QED BY <1>1, <1>2, <1>3, <2>1
<1> QED BY <1>1, <1>2, <1>4, <1>5 DEF IsSignificand, k, d, P

LEMMA HighestOneExists ==
    ASSUME NEW n \in Nat, n # 0, n < 2 ^ XLEN
    PROVE  \E t : HighestOne(n, t)
<1> DEFINE S == {m \in 0 .. XLEN : 2 ^ m <= n \/ \E t : HighestOne(n, t)}
<1>1. XLEN \in Nat /\ 2 ^ 0 = 1 /\ \A m \in 0 .. XLEN : 2 ^ m \in Nat
  BY Powers
<1>2. 0 \in S
  BY <1>1
<1>3. ASSUME NEW m \in 1 .. XLEN, m - 1 \in S PROVE m \in S
  <2>1. m \in 0 .. XLEN /\ m - 1 \in 0 .. XLEN - 1 /\ (m - 1) + 1 = m /\ 2 ^ m \in Nat
    BY <1>1
  <2>2. CASE 2 ^ (m - 1) <= n /\ n < 2 ^ m
    <3>1. HighestOne(n, m - 1)
      BY <2>1, <2>2 DEF HighestOne
    <3> QED BY <2>1, <3>1
  <2>3. CASE 2 ^ m <= n
    BY <2>1, <2>3
  <2>4. 2 ^ m <= n \/ n < 2 ^ m
    BY <2>1
  <2> QED BY <1>3, <2>1, <2>2, <2>3, <2>4
<1> HIDE DEF S
<1>4. XLEN \in S /\ XLEN \in 0 .. XLEN
  BY <1>1, <1>2, <1>3, Induction
<1>5. 2 ^ XLEN \in Nat
  BY <1>1, <1>4
<1> QED BY <1>4, <1>5 DEF S

\* With two places or more between them, the sum and the difference of two
\* significands have their highest one next to that of the larger one.
LEMMA SumPlaces ==
    ASSUME NEW d \in 2 .. MAN + 3, NEW l \in 2 ^ MAN .. 2 * 2 ^ MAN - 1,
           NEW s \in 0 .. 2 * 2 ^ MAN - 1, NEW n, n \in {l * 2 ^ d + s, l * 2 ^ d - s}
    PROVE  n \in Nat /\ n # 0 /\ \E p \in {d - 1, d, d + 1} : IsSignificand(n, p)
<1> DEFINE P == 2 ^ MAN
           u == d - 1
           v == d + 1
           h == 2 ^ u
           f == 2 ^ d
           g == 2 ^ v
<1>1. /\ d \in 1 .. XLEN /\ u \in 1 .. XLEN /\ u \in 0 .. XLEN /\ v \in 1 .. XLEN /\ v - 1 = d
      /\ u - 1 \in 0 .. XLEN
      /\ v \in 0 .. XLEN /\ d \in 0 .. XLEN /\ d - 1 = u
  BY WideExponent
<1>2. f = 2 * h /\ g = 2 * f /\ h = 2 * 2 ^ (u - 1) /\ h \in Nat /\ 2 ^ (u - 1) \in Nat
      /\ 2 ^ (u - 1) >= 1
  <2> HIDE DEF u, v
  <2> QED BY <1>1, Powers
<1>3. h >= 2 /\ h \in Nat /\ P \in Nat /\ P >= 8 /\ f = 2 * h /\ g = 4 * h
  <2>1. P \in Nat /\ P >= 8
    BY RegisterWidths
  <2> DEFINE x == 2 ^ (u - 1)
  <2>2. h = 2 * x /\ x \in Nat /\ x >= 1
    BY <1>2
  <2> HIDE DEF x, h, f, g, P
  <2> QED BY <1>2, <2>1, <2>2
<1>4. l \in P .. 2 * P - 1 /\ s \in 0 .. 2 * P - 1 /\ n \in {l * f + s, l * f - s}
  OBVIOUS
<1> HIDE DEF P, h, f, g
<1>5. /\ l * f = 2 * (l * h) /\ l * h \in Int /\ h * P \in Int
      /\ l * h = h * P + h * (l - P) /\ h * (l - P) >= 0
      /\ 2 * (h * P) = l * h + h + h * ((2 * P - 1) - l) /\ h * ((2 * P - 1) - l) >= 0
  <2>1. l - P \in Nat /\ (2 * P - 1) - l \in Nat /\ l \in Int
    BY <1>3, <1>4
  <2> QED BY <1>3, <2>1
<1>6. h * P >= 2 * P
  <2>1. h * P = 2 * P + (h - 2) * P /\ (h - 2) * P >= 0
    BY <1>3
  <2> QED BY <1>3, <2>1
<1> DEFINE w == h * P
           y == l * h
           a == h * (l - P)
           b == h * ((2 * P - 1) - l)
<1>7. /\ w \in Int /\ y \in Int /\ w <= y /\ y + h <= 2 * w /\ w >= 2 * P
      /\ n \in {2 * y + s, 2 * y - s}
  <2>1. a \in Int /\ b \in Int /\ y = w + a /\ a >= 0 /\ 2 * w = y + h + b /\ b >= 0 /\ w \in Int
        /\ y \in Int
    <3>1. l - P \in Int /\ (2 * P - 1) - l \in Int
      BY <1>3, <1>4
    <3> QED BY <1>3, <1>5, <3>1
  <2>2. n \in {2 * y + s, 2 * y - s}
    BY <1>4, <1>5
  <2> HIDE DEF a, b, y, w
  <2> QED BY <1>3, <1>6, <2>1, <2>2 DEF w
<1> HIDE DEF w, y
<1>8. n \in Nat /\ n # 0 /\ w <= n /\ n < 8 * w
  BY <1>3, <1>4, <1>7
<1>9. f * P = 2 * w /\ g * P = 4 * w /\ h * P = w
  BY <1>3 DEF w
<1>10. CASE n < 2 * w
  <2>1. h * P <= n /\ n < 2 * (h * P)
    BY <1>8, <1>9, <1>10
  <2>2. IsSignificand(n, u)
    BY <1>1, <1>8, <2>1, PlacesMade DEF h, P
  <2> QED BY <1>8, <2>2
<1>11. CASE 2 * w <= n /\ n < 4 * w
  <2>1. f * P <= n /\ n < 2 * (f * P)
    BY <1>7, <1>8, <1>9, <1>11
  <2>2. IsSignificand(n, d)
    BY <1>1, <1>8, <2>1, PlacesMade DEF f, P
  <2> QED BY <1>8, <2>2
<1>12. CASE 4 * w <= n
  <2>1. g * P <= n /\ n < 2 * (g * P)
    BY <1>7, <1>8, <1>9, <1>12
  <2>2. IsSignificand(n, v)
    BY <1>1, <1>8, <2>1, PlacesMade DEF g, P
  <2> QED BY <1>8, <2>2
<1> QED BY <1>7, <1>8, <1>10, <1>11, <1>12

\* A multiple by a power of two rounds alike, more places to the left.
LEMMA NearestScaled ==
    ASSUME NEW n \in Nat, NEW m \in 0 .. MAN + 1
    PROVE  /\ \A k \in 0 .. m : NearestEven(n * 2 ^ m, k) = n * 2 ^ (m - k)
           /\ \A k \in 0 .. XLEN : NearestEven(n * 2 ^ m, k + m) = NearestEven(n, k)
<1> DEFINE N == XLEN + MAN + 3
           M == 2 ^ m
           c == n * M
<1>1. /\ \A i \in 0 .. N : 2 ^ i \in Nat \ {0} /\ \A j \in 0 .. i : 2 ^ i = 2 ^ j * 2 ^ (i - j)
      /\ m \in 0 .. N /\ m \in Nat /\ XLEN \in Nat /\ MAN \in Nat
  BY RegisterPowers, WideExponent
<1>2. M \in Nat \ {0} /\ c \in Nat
  <2>1. M \in Nat \ {0}
    BY <1>1
  <2> HIDE DEF M
  <2> QED BY <2>1
<1>3. ASSUME NEW k \in 0 .. m
      PROVE  NearestEven(c, k) = n * 2 ^ (m - k)
  <2> DEFINE d == 2 ^ k
             f == 2 ^ (m - k)
             q == n * f
  <2>1. k \in 0 .. N /\ m - k \in 0 .. N
    BY <1>1
  <2>2. M = d * f /\ d \in Nat \ {0} /\ f \in Nat
    <3> HIDE DEF N
    <3> QED BY <1>1, <2>1
  <2> HIDE DEF M, d, f
  <2>3. c = d * q + 0 /\ q \in Int /\ c \in Int
    BY <1>2, <2>2
  <2> HIDE DEF c, q
  <2>4. c \div d = q /\ c % d = 0
    <3>1. 0 < d /\ 0 \in Int
      BY <2>2
    <3> QED BY <2>2, <2>3, <3>1, Division
  <2>5. Halves(c, k) = 2 * 0 - d
    BY <2>4 DEF Halves, d
  <2>6. ~(Halves(c, k) > 0) /\ Halves(c, k) # 0
    BY <2>2, <2>5
  <2>7. NearestEven(c, k) = q + 0
    BY <2>4, <2>6 DEF NearestEven, d
  <2> QED BY <2>3, <2>7 DEF q, f
<1>4. ASSUME NEW k \in 0 .. XLEN
      PROVE  NearestEven(c, k + m) = NearestEven(n, k)
  <2> DEFINE u == k + m
             d == 2 ^ k
             r == n % d
             e == 2 ^ u
  <2>1. u \in 0 .. N /\ m \in 0 .. u /\ u - m = k /\ k \in 0 .. N
    BY <1>1
  <2>2. e = M * d /\ d \in Nat \ {0}
    <3> HIDE DEF N, u
    <3> QED BY <1>1, <2>1
  <2>3. c \div M = n /\ c % M = 0
    <3> HIDE DEF M
    <3>1. c = M * n + 0 /\ 0 < M /\ 0 \in Int /\ n \in Int
      BY <1>2
    <3> HIDE DEF c
    <3> QED BY <1>2, <3>1, Division
  <2>4. c \div (M * d) = n \div d /\ c % (M * d) = M * r + 0
    <3> HIDE DEF M, d, c, r
    <3>1. /\ c \div (M * d) = (c \div M) \div d
          /\ c % (M * d) = M * ((c \div M) % d) + (c % M)
      <4>1. c \in Int /\ M \in Nat \ {0} /\ d \in Nat \ {0}
        BY <1>2, <2>2
      <4> HIDE DEF e, u
      <4> QED BY <4>1, DividedTwice
    <3> QED BY <2>3, <3>1 DEF r
  <2>5. r \in Int
    BY <2>2, DivMod
  <2>6. Halves(c, u) = 2 * (M * r) - M * d /\ Halves(n, k) = 2 * r - d
    <3>1. Halves(c, u) = 2 * (c % e) - e /\ Halves(n, k) = 2 * r - d
      BY DEF Halves
    <3> HIDE DEF e, c, M, d, r
    <3>2. M * r + 0 = M * r
      BY <1>2, <2>5
    <3> QED BY <2>2, <2>4, <3>1, <3>2
  <2>7. /\ Halves(c, u) > 0 <=> Halves(n, k) > 0
        /\ Halves(c, u) = 0 <=> Halves(n, k) = 0
    <3> HIDE DEF M, d, r
    <3> DEFINE h == 2 * r - d
    <3>1. 2 * (M * r) - M * d = M * h /\ h \in Int
      BY <1>2, <2>2, <2>5
    <3> HIDE DEF h
    <3>2. /\ h > 0 => M * h > 0
          /\ h = 0 => M * h = 0
          /\ h < 0 => M * h < 0
      BY <1>2, <3>1
    <3>3. Halves(c, u) = M * h /\ Halves(n, k) = h
      BY <2>6, <3>1 DEF h
    <3>4. M * h \in Int
      BY <1>2, <3>1
    <3> QED BY <3>1, <3>2, <3>3, <3>4
  <2>8. c \div e = n \div d
    BY <2>2, <2>4
  <2> HIDE DEF c
  <2>9. NearestEven(c, u) = NearestEven(n, k)
    BY <2>7, <2>8 DEF NearestEven, e, d
  <2> QED BY <2>9 DEF u
<1> QED BY <1>3, <1>4 DEF c, M

\* The significand of an integer in units of 2^-(MAN+1).
LEMMA ScaledSignificand ==
    ASSUME NEW n \in Nat, NEW t, HighestOne(n, t)
    PROVE  /\ n * 2 ^ (MAN + 1) \in Nat /\ IsSignificand(n * 2 ^ (MAN + 1), t + 1)
           /\ t \in Nat /\ t + 1 # 0 /\ n # 0
<1> DEFINE d == 2 ^ t
           P == 2 ^ MAN
           c == n * 2 ^ (MAN + 1)
           f == 2 ^ (t + 1)
<1>1. t \in 0 .. XLEN - 1 /\ d <= n /\ n < f
  BY DEF HighestOne
<1>2. f = 2 * d /\ d \in Nat \ {0} /\ t + 1 \in 0 .. XLEN /\ t \in Nat
  BY <1>1, NextPower
<1>3. P \in Nat \ {0} /\ c = n * (2 * P)
  BY RegisterWidths, FloatPowers
<1> HIDE DEF d, P, c, f
<1>4. /\ n * (2 * P) = 2 * (n * P) /\ f * P = 2 * (d * P)
      /\ n * P = d * P + (n - d) * P /\ (n - d) * P >= 0
      /\ 2 * (d * P) = n * P + (2 * d - n) * P /\ (2 * d - n) * P > 0
      /\ d * P \in Int /\ n * P \in Int /\ n * P >= 0
  <2>1. n - d \in Nat /\ 2 * d - n \in Nat \ {0}
    BY <1>1, <1>2
  <2> QED BY <1>2, <1>3, <2>1
<1> DEFINE x == n * P
           y == d * P
           a == (n - d) * P
           b == (2 * d - n) * P
<1>5. c \in Nat /\ f * P <= c /\ c < 2 * (f * P)
  <2>1. /\ c = 2 * x /\ f * P = 2 * y /\ x \in Int /\ y \in Int /\ x = y + a /\ a >= 0
        /\ 2 * y = x + b /\ b > 0 /\ a \in Int /\ b \in Int /\ x >= 0
    BY <1>1, <1>2, <1>3, <1>4
  <2> HIDE DEF x, y, a, b
  <2> DEFINE z == f * P
  <2>2. z = 2 * y
    BY <2>1
  <2> HIDE DEF z
  <2>3. c \in Nat /\ z <= c /\ c < 2 * z
    BY <2>1, <2>2
  <2> QED BY <2>3 DEF z
<1>6. IsSignificand(c, t + 1)
  BY <1>2, <1>5, PlacesMade DEF f, P
<1>7. n # 0 /\ t + 1 # 0
  BY <1>1, <1>2
<1> QED BY <1>2, <1>5, <1>6, <1>7 DEF c

\* Its last place is the same.
LEMMA ScaledPlaces ==
    ASSUME NEW n \in Nat, NEW t, HighestOne(n, t), NEW e \in Int
    PROVE  LET m == MAN + 1
               c == n * 2 ^ m
               L == Length(n)
           IN  /\ t \in Nat /\ n # 0 /\ t \in 0 .. XLEN - 1
               /\ L = t + 1 /\ Length(c) = L + m /\ c # 0 /\ c \in Nat
               /\ LastPlace(c, e - m) = LastPlace(n, e) /\ LastPlace(n, e) \in Int
               /\ LastPlace(n, e) - e >= L - m
<1> DEFINE m == MAN + 1
           c == n * 2 ^ m
           f == e - m
           L == Length(n)
           last == LastPlace(n, e)
           D == last - e
<1>1. /\ c \in Nat /\ IsSignificand(c, t + 1) /\ t \in Nat /\ n # 0 /\ t \in 0 .. XLEN - 1
  BY ScaledSignificand DEF HighestOne
<1>2. MAN \in Nat /\ XLEN \in Nat /\ Bias \in Nat
  BY ExponentSizes
<1>3. L = t + 1 /\ Length(c) = L + m /\ c # 0
  <2>1. Length(n) = t + 1
    BY LengthOf
  <2>2. Length(c) = MAN + (t + 1) + 1 /\ c # 0
    <3> HIDE DEF c
    <3> QED BY <1>1, LengthOfPlaces
  <2> HIDE DEF c
  <2> QED BY <1>1, <1>2, <2>1, <2>2
<1> HIDE DEF c
<1>4. LastPlace(c, f) = last /\ last \in Int /\ D >= L - m
  <2> DEFINE x == e + L - (MAN + 1)
             s == Smallest
  <2>1. last = Max({x, s})
    BY DEF LastPlace
  <2>2. LastPlace(c, f) = Max({f + (L + m) - (MAN + 1), s})
    BY <1>3 DEF LastPlace
  <2>3. f + (L + m) - (MAN + 1) = x /\ x \in Int /\ s \in Int /\ x - e = L - m
    <3>1. s = 1 - Bias - MAN
      BY DEF Smallest
    <3> HIDE DEF s, L
    <3> QED BY <1>1, <1>2, <1>3, <3>1
  <2>4. LastPlace(c, f) = last
    BY <2>1, <2>2, <2>3
  <2> HIDE DEF x, s, last
  <2>5. last = IF x >= s THEN x ELSE s
    BY <2>1, <2>3, MaximumOf
  <2> HIDE DEF L
  <2> QED BY <1>1, <1>2, <1>3, <2>3, <2>4, <2>5
<1> QED BY <1>1, <1>3, <1>4 DEF c

\* C rounds them alike.
LEMMA RoundedScaled ==
    ASSUME NEW n \in Nat, NEW t, HighestOne(n, t), NEW e \in Int, NEW sign
    PROVE  Rounded(sign, n * 2 ^ (MAN + 1), e - (MAN + 1)) = Rounded(sign, n, e)
<1> DEFINE m == MAN + 1
           c == n * 2 ^ m
           f == e - m
           L == Length(n)
           last == LastPlace(n, e)
           D == last - e
           sn == CASE last - e > Length(n) -> 0
                   [] last - e \in 1 .. Length(n) -> NearestEven(n, last - e)
                   [] OTHER -> n * 2 ^ (e - last)
           sc == CASE LastPlace(c, f) - f > Length(c) -> 0
                   [] LastPlace(c, f) - f \in 1 .. Length(c) -> NearestEven(c, LastPlace(c, f) - f)
                   [] OTHER -> c * 2 ^ (f - LastPlace(c, f))
<1>1. t \in Nat /\ n # 0 /\ t \in 0 .. XLEN - 1
  BY ScaledPlaces
<1>2. MAN \in Nat /\ XLEN \in Nat /\ Bias \in Nat
  BY ExponentSizes
<1>3. L = t + 1 /\ Length(c) = L + m /\ c # 0
  BY ScaledPlaces
<1>4. LastPlace(c, f) = last /\ last \in Int /\ D >= L - m
  BY ScaledPlaces
<1> HIDE DEF c
<1>5. sc = sn
  <2>1. LastPlace(c, f) - f = D + m /\ e - last = -D /\ D \in Int /\ L \in Nat /\ L >= 1
        /\ L \in 1 .. XLEN /\ m \in Nat /\ m \in 0 .. MAN + 1 /\ D >= L - m
    <3> HIDE DEF L, last
    <3> QED BY <1>1, <1>2, <1>3, <1>4
  <2>2. /\ D + m > Length(c) <=> D > L
        /\ D + m \in 1 .. Length(c) <=> ~(D > L)
        /\ D \in 1 .. L <=> ~(D > L) /\ D >= 1
    <3> HIDE DEF D, L, m
    <3> QED BY <1>3, <2>1
  <2>3. CASE D > L
    <3>1. sc = 0
      BY <2>1, <2>2, <2>3
    <3>2. last - e > Length(n) /\ ~(last - e \in 1 .. Length(n))
      BY <2>2, <2>3
    <3>3. sn = 0
      BY <3>2
    <3> QED BY <3>1, <3>3
  <2>4. CASE ~(D > L) /\ D >= 1
    <3>1. sc = NearestEven(c, D + m)
      <4> HIDE DEF D, L
      <4> QED BY <2>1, <2>2, <2>4
    <3>2. sn = NearestEven(n, D)
      BY <2>2, <2>4
    <3>3. D \in 0 .. XLEN
      <4> HIDE DEF D, L
      <4> QED BY <1>2, <2>1, <2>4
    <3>4. NearestEven(c, D + m) = NearestEven(n, D)
      <4> HIDE DEF D
      <4> QED BY <2>1, <3>3, NearestScaled DEF c
    <3> QED BY <3>1, <3>2, <3>4
  <2>5. CASE ~(D > L) /\ ~(D >= 1)
    <3> DEFINE k == D + m
    <3>1. sc = NearestEven(c, k)
      <4> HIDE DEF D, L
      <4> QED BY <2>1, <2>2, <2>5
    <3>2. sn = n * 2 ^ (e - last)
      <4>1. ~(last - e > Length(n)) /\ ~(last - e \in 1 .. Length(n))
        BY <2>2, <2>5
      <4> QED BY <4>1
    <3>3. k \in 0 .. m /\ m - k = e - last
      <4>1. e - last = -D
        BY <2>1
      <4> HIDE DEF D, L, m
      <4> QED BY <2>1, <2>5, <4>1
    <3> HIDE DEF k
    <3>4. NearestEven(c, k) = n * 2 ^ (m - k)
      BY <2>1, <3>3, NearestScaled DEF c
    <3> QED BY <3>1, <3>2, <3>3, <3>4
  <2> QED BY <2>3, <2>4, <2>5
<1>6. Rounded(sign, n, e) = FloatWord(sign, 0, Min({(last - Smallest) * 2 ^ MAN + sn, Infinity}))
  BY <1>1 DEF Rounded
<1>7. Rounded(sign, c, f)
        = FloatWord(sign, 0, Min({(LastPlace(c, f) - Smallest) * 2 ^ MAN + sc, Infinity}))
  BY <1>3 DEF Rounded
<1> HIDE DEF sn, sc, last
<1> QED BY <1>4, <1>5, <1>6, <1>7 DEF c, f, m

\* C raises that a result is not exact where rounding loses a part of the
\* number: n units of 2^e that are not a multiple of the last place.
Inexact(n, e) ==
    LET lost == LastPlace(n, e) - e
    IN  n # 0 /\ lost > 0 /\ (lost > Length(n) \/ n % 2 ^ lost # 0)

LEMMA WholeMultiple ==
    ASSUME NEW d \in Nat \ {0}, NEW q \in Int
    PROVE  (d * q) % d = 0
<1> DEFINE z == 0
           c == d * q
<1>1. c = d * q + z /\ c \in Int /\ z \in Int /\ 0 <= z /\ z < d
  OBVIOUS
<1> HIDE DEF z, c
<1>2. c % d = z
  BY <1>1, Division
<1> QED BY <1>2 DEF c, z

LEMMA InexactScaled ==
    ASSUME NEW n \in Nat, NEW t, HighestOne(n, t), NEW e \in Int,
           Inexact(n * 2 ^ (MAN + 1), e - (MAN + 1))
    PROVE  Inexact(n, e)
<1> DEFINE m == MAN + 1
           c == n * 2 ^ m
           f == e - m
           N == XLEN + MAN + 3
           L == Length(n)
           D == LastPlace(n, e) - e
           k == D + m
<1>1. /\ t \in Nat /\ n # 0 /\ t \in 0 .. XLEN - 1 /\ L = t + 1 /\ Length(c) = L + m
      /\ LastPlace(c, f) = LastPlace(n, e) /\ LastPlace(n, e) \in Int /\ D >= L - m
  BY ScaledPlaces
<1>2. MAN \in Nat /\ XLEN \in Nat /\ m \in Nat /\ m <= N /\ L + m <= N /\ N \in Nat
  <2>1. MAN \in Nat /\ XLEN \in Nat
    BY ExponentSizes
  <2> HIDE DEF L
  <2> QED BY <1>1, <2>1
<1>3. D \in Int /\ LastPlace(c, f) - f = k
  <2>1. D \in Int
    BY <1>1
  <2> DEFINE last == LastPlace(n, e)
  <2>2. last \in Int
    BY <1>1
  <2>3. last - f = (last - e) + m
    <3> HIDE DEF last, m
    <3> QED BY <1>2, <2>2 DEF f
  <2>4. LastPlace(c, f) = last
    BY <1>1
  <2> HIDE DEF last, c, f, m
  <2> QED BY <2>1, <2>3, <2>4 DEF last
<1>4. k > 0 /\ (k > L + m \/ c % 2 ^ k # 0)
  <2>1. Inexact(c, f)
    OBVIOUS
  <2> HIDE DEF c, f, k
  <2> QED BY <1>1, <1>3, <2>1 DEF Inexact
<1>5. /\ \A i \in 0 .. N : 2 ^ i \in Nat \ {0} /\ \A j \in 0 .. i : 2 ^ i = 2 ^ j * 2 ^ (i - j)
  BY RegisterPowers
<1> HIDE DEF N
<1> DEFINE M == 2 ^ m
<1>6. M \in Nat \ {0}
  BY <1>2, <1>5
<1>7. ASSUME D <= L PROVE D > 0 /\ n % 2 ^ D # 0
  <2> DEFINE K == 2 ^ k
  <2>1. k \in 0 .. N /\ ~(k > L + m)
    <3> HIDE DEF L, D, m
    <3> QED BY <1>1, <1>2, <1>3, <1>4, <1>7
  <2>2. K \in Nat \ {0} /\ c % K # 0
    BY <1>4, <1>5, <2>1
  <2>3. ASSUME NEW q \in Int, c = K * q PROVE FALSE
    <3> HIDE DEF K, c
    <3> QED BY <2>2, <2>3, WholeMultiple
  <2>4. D > 0
    <3> SUFFICES ASSUME D <= 0 PROVE FALSE
      BY <1>3
    <3> DEFINE i == m - k
               F == 2 ^ i
    <3>1. k \in 0 .. m /\ m \in 0 .. N /\ i \in 0 .. N
      <4> HIDE DEF D, m
      <4> QED BY <1>2, <1>3, <1>4, <2>1
    <3>2. M = K * F /\ F \in Nat
      BY <1>5, <3>1
    <3> DEFINE q == n * F
    <3>3. c = K * q /\ q \in Int
      <4>1. c = n * M
        OBVIOUS
      <4> HIDE DEF M, K, F, c
      <4> QED BY <2>2, <3>2, <4>1
    <3> HIDE DEF q, K, c
    <3> QED BY <2>3, <3>3
  <2>5. n % 2 ^ D # 0
    <3> DEFINE d == 2 ^ D
               q == n \div d
    <3> SUFFICES ASSUME n % d = 0 PROVE FALSE
      OBVIOUS
    <3>1. D \in 0 .. k /\ D \in 0 .. N /\ k - D = m
      <4> HIDE DEF D, L, m
      <4> QED BY <1>1, <1>2, <1>3, <1>7, <2>1, <2>4
    <3>2. K = d * M /\ d \in Nat \ {0}
      BY <1>5, <2>1, <3>1
    <3>3. n = d * q + (n % d) /\ q \in Int
      <4> HIDE DEF d
      <4> QED BY <3>2, DivMod
    <3> HIDE DEF d, q
    <3>4. n = d * q
      BY <3>2, <3>3
    <3>5. c = K * q
      <4>1. c = n * M
        OBVIOUS
      <4> HIDE DEF M, K, c
      <4> QED BY <1>6, <3>2, <3>3, <3>4, <4>1
    <3> HIDE DEF K, c
    <3> QED BY <2>3, <3>3, <3>5
  <2> QED BY <2>4, <2>5
<1>8. D > L => D > 0
  <2> HIDE DEF D, L
  <2> QED BY <1>1, <1>3
<1>9. D > 0 /\ (D > L \/ n % 2 ^ D # 0)
  <2>1. D <= L \/ D > L
    <3> HIDE DEF D, L
    <3> QED BY <1>1, <1>3
  <2> QED BY <1>7, <1>8, <2>1
<1> QED BY <1>1, <1>9 DEF Inexact

-----------------------------------------------------------------------------
(* The operands of a sum: the larger one, the smaller one, and the distance *)
(* of their exponents, cut where the smaller one is only a sticky bit.     *)

Addend(b, sub) == IF sub THEN Negated(b) ELSE b
LargeExponent(a, b) == ExponentOf(LargeOperand(a, b))
SmallExponent(a, b) == ExponentOf(SmallOperand(a, b))
LargePart(a, b) == HiddenOne(LargeOperand(a, b))
SmallPart(a, b) == IF SmallExponent(a, b) = 0 THEN 0 ELSE HiddenOne(SmallOperand(a, b))
Distance(a, b) ==
    LET d == LargeExponent(a, b) - (IF SmallExponent(a, b) = 0 THEN 1 ELSE SmallExponent(a, b))
    IN  IF d <= MAN + 3 THEN d ELSE MAN + 3

\* The exact sum in units of the smaller operand, and that operand as the adder
\* has aligned it.
SumSize(a, b, sub) ==
    LET large == LargePart(a, b) * 2 ^ Distance(a, b)
        small == SmallPart(a, b)
    IN  IF Adds(a, b, sub) THEN large + small
        ELSE IF large >= small THEN large - small ELSE small - large
AlignedSmall(a, b) ==
    IF SmallExponent(a, b) = 0 THEN 0
    ELSE Sticky(8 * HiddenOne(SmallOperand(a, b)), 2 * 2 ^ Distance(a, b))

LEMMA MinimumOf ==
    ASSUME NEW a \in Int, NEW b \in Int
    PROVE  Min({a, b}) = IF a <= b THEN a ELSE b
BY DEF Min

\* A word of the same magnitude has the same exponent and mantissa.
LEMMA SameMagnitude ==
    ASSUME NEW v \in Words, NEW w \in Words, Magnitude(v) = Magnitude(w)
    PROVE  ExponentOf(v) = ExponentOf(w) /\ MantissaOf(v) = MantissaOf(w)
<1> DEFINE P == 2 ^ MAN
           m == Magnitude(v)
<1>1. ASSUME NEW u \in {v, w}
      PROVE  m \div P = ExponentOf(u) /\ m % P = MantissaOf(u)
  <2> DEFINE q == ExponentOf(u)
             r == MantissaOf(u)
  <2>1. /\ u \in Words /\ q \in 0 .. AllOnes /\ r \in 0 .. P - 1 /\ m = P * q + r
        /\ P \in Nat \ {0} /\ AllOnes \in Nat
    BY FloatParts, FloatPowers
  <2> HIDE DEF P, q, r, m
  <2>2. q \in Int /\ r \in Int /\ 0 <= r /\ r < P /\ m \in Int
    BY <2>1
  <2>3. m \div P = q /\ m % P = r
    BY <2>1, <2>2, Division
  <2> QED BY <2>3 DEF q, r
<1> QED BY <1>1

\* The second operand of the sum: that of a difference has the other sign.
LEMMA AddendParts ==
    ASSUME NEW b, IsFlushed(b), NEW sub \in BOOLEAN
    PROVE  LET w == Addend(b, sub)
           IN  /\ w \in Words /\ IsFlushed(w) /\ b \in Words
               /\ SignOf(b) \in {0, 1} /\ SignOf(w) \in {0, 1}
               /\ SignOf(w) = IF sub THEN 1 - SignOf(b) ELSE SignOf(b)
               /\ Magnitude(w) = Magnitude(b)
               /\ ExponentOf(w) = ExponentOf(b) /\ MantissaOf(w) = MantissaOf(b)
               /\ Scale(w) = Scale(b) /\ Significand(w) = Significand(b)
               /\ IsNaN(w) <=> IsNaN(b)
               /\ IsInfinite(w) <=> IsInfinite(b)
               /\ IsZero(w) <=> IsZero(b)
<1> DEFINE w == Addend(b, sub)
<1>1. /\ b \in Words /\ (Magnitude(b) < 2 ^ MAN => Magnitude(b) = 0)
      /\ SignOf(b) \in {0, 1} /\ Magnitude(b) \in Nat /\ Magnitude(b) < 2 ^ (XLEN - 1)
  BY FloatParts DEF IsFlushed
<1>2. /\ w \in Words /\ Magnitude(w) = Magnitude(b)
      /\ SignOf(w) = IF sub THEN 1 - SignOf(b) ELSE SignOf(b)
  <2>1. CASE sub
    <3> DEFINE s == 1 - SignOf(b)
               m == Magnitude(b)
    <3>1. s \in {0, 1} /\ m \in Nat /\ m < 2 ^ (XLEN - 1)
      BY <1>1
    <3>2. w = FloatWord(s, 0, m)
      BY <2>1 DEF Addend, Negated
    <3> HIDE DEF s, m, w
    <3>3. w \in Words /\ Magnitude(w) = m /\ SignOf(w) = s
      BY <3>1, <3>2, FloatMade
    <3> QED BY <2>1, <3>3 DEF s, m
  <2>2. CASE ~sub
    BY <1>1, <2>2 DEF Addend
  <2> QED BY <2>1, <2>2
<1> HIDE DEF w
<1>3. ExponentOf(w) = ExponentOf(b) /\ MantissaOf(w) = MantissaOf(b)
  BY <1>1, <1>2, SameMagnitude
<1>4. Scale(w) = Scale(b) /\ Significand(w) = Significand(b)
  BY <1>3 DEF Scale, Significand
<1>5. /\ IsNaN(w) <=> IsNaN(b)
      /\ IsInfinite(w) <=> IsInfinite(b)
      /\ IsZero(w) <=> IsZero(b)
  BY <1>1, <1>2, FloatClasses
<1>6. IsFlushed(w) /\ SignOf(w) \in {0, 1}
  BY <1>1, <1>2 DEF IsFlushed
<1> QED BY <1>1, <1>2, <1>3, <1>4, <1>5, <1>6 DEF w

\* What the classes of a sum say of its operands.
LEMMA ClassOfSum ==
    ASSUME NEW a \in Words, NEW b, IsFlushed(b), NEW sub \in BOOLEAN
    PROVE  LET w == Addend(b, sub)
               class == AddClass(a, b, sub)
               invalid == IsInfinite(a) /\ IsInfinite(b) /\ SignOf(a) # SignOf(w)
           IN  /\ class \intersect NaNs # {} <=> IsNaN(a) \/ IsNaN(b) \/ invalid
               /\ class \intersect NaNs = {} =>
                    /\ class \intersect Infinities # {} <=> IsInfinite(a) \/ IsInfinite(b)
                    /\ class = {} <=> ~IsInfinite(a) /\ ~IsInfinite(b) /\ ~(IsZero(a) /\ IsZero(b))
                    /\ class \intersect Zeros # {} <=> IsZero(a) /\ IsZero(b)
                    /\ "neg_zero" \in class <=>
                         IsZero(a) /\ IsZero(b) /\ SignOf(a) = 1 /\ SignOf(w) = 1
<1> DEFINE w == Addend(b, sub)
           x == ClassOf(a)
           y == ClassOf(w)
           class == AddClass(a, b, sub)
<1>1. /\ w \in Words /\ b \in Words /\ SignOf(w) \in {0, 1} /\ SignOf(a) \in {0, 1}
      /\ IsNaN(w) <=> IsNaN(b)
      /\ IsInfinite(w) <=> IsInfinite(b)
      /\ IsZero(w) <=> IsZero(b)
  BY AddendParts, FloatParts
<1>2. class = CASE {x, y} \intersect NaNs # {} -> ({x, y} \intersect {"snan"}) \union {"qnan"}
                [] {x, y} = Infinities -> {"qnan"}
                [] {x, y} \intersect NaNs = {} /\ {x, y} # Infinities
                   /\ {x, y} \intersect Infinities # {} -> {x, y} \intersect Infinities
                [] {x, y} = {"neg_zero"} -> {"neg_zero"}
                [] {x, y} \subseteq Zeros /\ {x, y} # {"neg_zero"} -> {"pos_zero"}
                [] OTHER -> {}
  BY DEF AddClass, Addend
<1> HIDE DEF w
<1>3. ASSUME NEW v \in {a, w}
      PROVE  /\ ClassOf(v) \in Zeros <=> IsZero(v)
             /\ ClassOf(v) \in Infinities <=> IsInfinite(v)
             /\ ClassOf(v) \in NaNs <=> IsNaN(v)
             /\ IsInfinite(v) => (ClassOf(v) = "neg_inf" <=> SignOf(v) = 1)
             /\ IsZero(v) => (ClassOf(v) = "neg_zero" <=> SignOf(v) = 1)
             /\ ClassOf(v) = "neg_zero" => IsZero(v) /\ SignOf(v) = 1
  <2>1. v \in Words
    BY <1>1
  <2> QED BY <2>1, KindOfClass, ClassesOf, FloatClasses
<1>4. /\ x \in Zeros <=> IsZero(a)
      /\ x \in Infinities <=> IsInfinite(a)
      /\ x \in NaNs <=> IsNaN(a)
      /\ y \in Zeros <=> IsZero(b)
      /\ y \in Infinities <=> IsInfinite(b)
      /\ y \in NaNs <=> IsNaN(b)
      /\ IsInfinite(a) => (x = "neg_inf" <=> SignOf(a) = 1)
      /\ IsInfinite(b) => (y = "neg_inf" <=> SignOf(w) = 1)
      /\ x = "neg_zero" <=> IsZero(a) /\ SignOf(a) = 1
      /\ y = "neg_zero" <=> IsZero(b) /\ SignOf(w) = 1
  BY <1>1, <1>3
<1> HIDE DEF x, y, class
<1>5. CASE x \in NaNs \/ y \in NaNs
  <2>1. {x, y} \intersect NaNs # {}
    BY <1>5
  <2>2. class = ({x, y} \intersect {"snan"}) \union {"qnan"}
    <3>1. {x, y} # Infinities /\ {x, y} # {"neg_zero"} /\ ~({x, y} \subseteq Zeros)
      BY <1>5 DEF Infinities, NaNs, Zeros
    <3> QED BY <1>2, <2>1, <3>1
  <2>3. class \intersect NaNs # {}
    BY <2>2 DEF NaNs
  <2> QED BY <1>4, <1>5, <2>3 DEF class, w
<1>6. CASE ~(x \in NaNs \/ y \in NaNs) /\ x \in Infinities /\ y \in Infinities
  <2>1. {x, y} \intersect NaNs = {} /\ {x, y} \intersect Infinities # {}
    BY <1>6
  <2>2. x = y <=> SignOf(a) = SignOf(w)
    <3>1. (x = "neg_inf" \/ x = "pos_inf") /\ (y = "neg_inf" \/ y = "pos_inf")
      BY <1>6 DEF Infinities
    <3> QED BY <1>1, <1>4, <1>6, <3>1
  <2>3. CASE x # y
    <3>1. {x, y} = Infinities
      BY <1>6, <2>3 DEF Infinities
    <3>2. class = {"qnan"}
      <4>1. {x, y} # {"neg_zero"} /\ ~({x, y} \subseteq Zeros)
        BY <1>6 DEF Infinities, Zeros
      <4> QED BY <1>2, <2>1, <3>1, <4>1
    <3>3. class \intersect NaNs # {}
      BY <3>2 DEF NaNs
    <3> QED BY <1>4, <1>6, <2>2, <2>3, <3>3 DEF class, w
  <2>4. CASE x = y
    <3>1. {x, y} # Infinities
      BY <2>4 DEF Infinities
    <3>2. class = {x, y} \intersect Infinities
      <4>1. {x, y} # {"neg_zero"} /\ ~({x, y} \subseteq Zeros)
        BY <1>6 DEF Infinities, Zeros
      <4> QED BY <1>2, <2>1, <3>1, <4>1
    <3>3. class = {x}
      BY <1>6, <2>4, <3>2
    <3>4. x \notin NaNs /\ x \notin Zeros /\ x # "neg_zero"
      BY <1>6 DEF Infinities, NaNs, Zeros
    <3>5. /\ class \intersect NaNs = {} /\ class \intersect Infinities # {} /\ class # {}
          /\ class \intersect Zeros = {} /\ "neg_zero" \notin class
      BY <1>6, <3>3, <3>4
    <3>6. ~IsZero(a)
      BY <1>4, <3>4
    <3> QED BY <1>4, <1>6, <2>2, <2>4, <3>5, <3>6 DEF class, w
  <2> QED BY <2>3, <2>4
<1>7. CASE ~(x \in NaNs \/ y \in NaNs) /\ ~(x \in Infinities /\ y \in Infinities)
           /\ (x \in Infinities \/ y \in Infinities)
  <2>1. {x, y} \intersect NaNs = {} /\ {x, y} \intersect Infinities # {} /\ {x, y} # Infinities
    BY <1>7
  <2>2. class = {x, y} \intersect Infinities
    <3>1. {x, y} # {"neg_zero"} /\ ~({x, y} \subseteq Zeros)
      BY <1>7 DEF Infinities, Zeros
    <3> QED BY <1>2, <2>1, <3>1
  <2>3. Infinities \intersect NaNs = {} /\ Infinities \intersect Zeros = {} /\ "neg_zero" \notin Infinities
    BY DEF Infinities, NaNs, Zeros
  <2>4. /\ class \intersect NaNs = {} /\ class \intersect Infinities # {} /\ class # {}
        /\ class \intersect Zeros = {} /\ "neg_zero" \notin class
    BY <1>7, <2>2, <2>3
  <2>5. ~(IsZero(a) /\ IsZero(b))
    BY <1>4, <1>7, <2>3
  <2> QED BY <1>4, <1>7, <2>4, <2>5 DEF class, w
<1>8. CASE ~(x \in NaNs \/ y \in NaNs) /\ ~(x \in Infinities \/ y \in Infinities)
  <2>1. {x, y} \intersect NaNs = {} /\ {x, y} \intersect Infinities = {} /\ {x, y} # Infinities
    BY <1>8 DEF Infinities
  <2>2. "neg_zero" \in Zeros /\ "neg_zero" \notin NaNs /\ "neg_zero" \notin Infinities
        /\ "pos_zero" \in Zeros /\ "pos_zero" \notin NaNs /\ "pos_zero" \notin Infinities
        /\ "neg_zero" # "pos_zero"
    BY DEF Infinities, NaNs, Zeros
  <2>3. CASE x = "neg_zero" /\ y = "neg_zero"
    <3>1. class = {"neg_zero"}
      <4>1. {x, y} = {"neg_zero"}
        BY <2>3
      <4> QED BY <1>2, <2>1, <4>1
    <3>2. /\ class \intersect NaNs = {} /\ class \intersect Infinities = {} /\ class # {}
          /\ class \intersect Zeros # {} /\ "neg_zero" \in class
      BY <2>2, <3>1
    <3> QED BY <1>4, <1>8, <2>3, <3>2 DEF class, w
  <2>4. CASE x \in Zeros /\ y \in Zeros /\ ~(x = "neg_zero" /\ y = "neg_zero")
    <3>1. class = {"pos_zero"}
      <4>1. {x, y} \subseteq Zeros /\ {x, y} # {"neg_zero"}
        BY <2>4
      <4> QED BY <1>2, <2>1, <4>1
    <3>2. /\ class \intersect NaNs = {} /\ class \intersect Infinities = {} /\ class # {}
          /\ class \intersect Zeros # {} /\ "neg_zero" \notin class
      BY <2>2, <3>1
    <3> QED BY <1>4, <1>8, <2>4, <3>2 DEF class, w
  <2>5. CASE ~(x \in Zeros /\ y \in Zeros)
    <3>1. class = {}
      <4>1. ~({x, y} \subseteq Zeros) /\ {x, y} # {"neg_zero"}
        BY <2>2, <2>5
      <4> QED BY <1>2, <2>1, <4>1
    <3> QED BY <1>4, <1>8, <2>5, <3>1 DEF class, w
  <2> QED BY <2>2, <2>3, <2>4, <2>5
<1> QED BY <1>5, <1>6, <1>7, <1>8

\* The operands of a sum that is normalized are finite, and not both zero.
LEMMA FiniteOperands ==
    ASSUME NEW a, NEW b, IsFlushed(a), IsFlushed(b), NEW sub \in BOOLEAN, AddClass(a, b, sub) = {}
    PROVE  LET P == 2 ^ MAN
               L == LargeOperand(a, b)
               S == SmallOperand(a, b)
               small == IF SmallExponent(a, b) = 0 THEN 1 ELSE SmallExponent(a, b)
           IN  /\ ~IsNaN(a) /\ ~IsNaN(b) /\ ~IsInfinite(a) /\ ~IsInfinite(b)
               /\ LargeExponent(a, b) \in 1 .. AllOnes - 1 /\ AllOnes \in Nat
               /\ SmallExponent(a, b) \in 0 .. LargeExponent(a, b)
               /\ LargePart(a, b) \in P .. 2 * P - 1 /\ SmallPart(a, b) \in 0 .. 2 * P - 1
               /\ P \in Nat \ {0}
               /\ Significand(L) = LargePart(a, b) /\ Significand(S) = SmallPart(a, b)
               /\ Scale(L) = LargeExponent(a, b) - Bias - MAN /\ Scale(S) = small - Bias - MAN
               /\ Distance(a, b) \in 0 .. MAN + 3
               /\ Distance(a, b) = Min({Scale(L) - Scale(S), MAN + 3})
               /\ SmallExponent(a, b) # 0 => SmallPart(a, b) \in P .. 2 * P - 1
               /\ Distance(a, b) = 0 <=> LargeExponent(a, b) = small
               /\ LargeExponent(a, b) - Distance(a, b) >= 0
<1> DEFINE P == 2 ^ MAN
           A == AllOnes
           L == LargeOperand(a, b)
           S == SmallOperand(a, b)
           el == ExponentOf(L)
           es == ExponentOf(S)
           small == IF es = 0 THEN 1 ELSE es
<1>1. a \in Words /\ b \in Words
  BY DEF IsFlushed
<1>2. /\ ~IsNaN(a) /\ ~IsNaN(b) /\ ~IsInfinite(a) /\ ~IsInfinite(b) /\ ~(IsZero(a) /\ IsZero(b))
  <2>1. AddClass(a, b, sub) \intersect NaNs = {} /\ AddClass(a, b, sub) \intersect Infinities = {}
    OBVIOUS
  <2> QED BY <1>1, <2>1, ClassOfSum
<1>3. /\ P \in Nat \ {0} /\ A \in Nat /\ A >= 1 /\ MAN \in Nat /\ Bias \in Nat
  BY FloatPowers, ExponentSizes
<1>4. ASSUME NEW v, v \in {a, b}
      PROVE  /\ v \in Words /\ ExponentOf(v) \in 0 .. A - 1 /\ MantissaOf(v) \in 0 .. P - 1
             /\ ExponentOf(v) = 0 <=> IsZero(v)
             /\ ExponentOf(v) = 0 => MantissaOf(v) = 0
  <2>1. v \in Words /\ IsFlushed(v) /\ ~IsNaN(v) /\ ~IsInfinite(v)
    BY <1>1, <1>2, <1>4
  <2>2. ExponentOf(v) \in 0 .. A /\ MantissaOf(v) \in 0 .. P - 1
    BY <2>1, FloatParts
  <2>3. CASE IsZero(v)
    <3>1. ExponentOf(v) = 0 /\ MantissaOf(v) = 0
      BY <2>1, <2>3, KindOfClass, SpecialNumbers
    <3> QED BY <1>3, <2>1, <2>2, <2>3, <3>1
  <2>4. CASE ~IsZero(v)
    <3>1. ~IsSpecial(v)
      BY <2>1, <2>4, KindOfClass DEF IsSpecial
    <3>2. ExponentOf(v) # 0 /\ ExponentOf(v) # A
      BY <2>1, <3>1, SpecialNumbers
    <3> DEFINE e == ExponentOf(v)
    <3>3. e \in 0 .. A - 1
      <4>1. e \in 0 .. A /\ e # A
        BY <2>2, <3>2
      <4> HIDE DEF e, A
      <4> QED BY <1>3, <4>1
    <3> QED BY <2>1, <2>2, <2>4, <3>2, <3>3
  <2> QED BY <2>3, <2>4
<1>5. L \in {a, b} /\ S \in {a, b} /\ es <= el
  BY <1>1, OperandsBySize DEF LargeOperand, SmallOperand
<1>6. /\ el \in 0 .. A - 1 /\ es \in 0 .. A - 1 /\ L \in Words /\ S \in Words
      /\ MantissaOf(L) \in 0 .. P - 1 /\ MantissaOf(S) \in 0 .. P - 1
      /\ es = 0 => MantissaOf(S) = 0
  BY <1>4, <1>5
<1>7. el # 0
  <2> SUFFICES ASSUME el = 0 PROVE FALSE
    OBVIOUS
  <2>1. ExponentOf(a) = 0 /\ ExponentOf(b) = 0
    <3>1. (ExponentOf(a) = el /\ ExponentOf(b) = es) \/ (ExponentOf(a) = es /\ ExponentOf(b) = el)
      BY DEF LargeOperand, SmallOperand
    <3>2. es = 0
      <4> HIDE DEF es, el, A
      <4> QED BY <1>3, <1>5, <1>6
    <3> QED BY <3>1, <3>2
  <2> QED BY <1>2, <1>4, <2>1
<1>8. HiddenOne(L) \in P .. 2 * P - 1 /\ HiddenOne(S) \in P .. 2 * P - 1
  <2> DEFINE m == MantissaOf(L)
             n == MantissaOf(S)
  <2>1. HiddenOne(L) = P + m /\ HiddenOne(S) = P + n
    BY DEF HiddenOne
  <2>2. m \in 0 .. P - 1 /\ n \in 0 .. P - 1
    BY <1>6
  <2> HIDE DEF m, n, P
  <2> QED BY <1>3, <2>1, <2>2
<1>9. /\ Significand(L) = HiddenOne(L)
      /\ Significand(S) = IF es = 0 THEN 0 ELSE HiddenOne(S)
      /\ Scale(L) = el - Bias - MAN /\ Scale(S) = small - Bias - MAN
  BY <1>6, <1>7 DEF Significand, Scale, HiddenOne
<1>10. /\ Scale(L) - Scale(S) = el - small /\ el - small \in Nat /\ small \in 1 .. el
       /\ el \in 1 .. A - 1 /\ es \in 0 .. el /\ (el - small = 0 <=> el = small)
  <2> HIDE DEF el, es, A
  <2> QED BY <1>3, <1>5, <1>6, <1>7, <1>9
<1> DEFINE d == IF el - small <= MAN + 3 THEN el - small ELSE MAN + 3
<1>11. Distance(a, b) = d
  BY DEF Distance, LargeExponent, SmallExponent
<1>12. d \in 0 .. MAN + 3 /\ d = Min({Scale(L) - Scale(S), MAN + 3}) /\ (d = 0 <=> el = small)
       /\ el - d >= 0
  <2> DEFINE k == el - small
  <2>1. k \in Nat /\ (k = 0 <=> el = small) /\ Scale(L) - Scale(S) = k /\ el - k >= 0 /\ el \in Nat
    <3>1. el - k = small
      <4> HIDE DEF el, small
      <4> QED BY <1>3, <1>10
    <3> HIDE DEF el, small, A
    <3> QED BY <1>3, <1>10, <3>1
  <2>2. d = IF k <= MAN + 3 THEN k ELSE MAN + 3
    OBVIOUS
  <2> HIDE DEF k, d, el, small
  <2>3. Min({k, MAN + 3}) = IF k <= MAN + 3 THEN k ELSE MAN + 3
    BY <1>3, <2>1, MinimumOf
  <2>4. d \in 0 .. MAN + 3 /\ (d = 0 <=> k = 0) /\ el - d >= 0
    BY <1>3, <2>1, <2>2
  <2> QED BY <2>1, <2>2, <2>3, <2>4
<1>13. /\ SmallPart(a, b) = IF es = 0 THEN 0 ELSE HiddenOne(S)
       /\ LargePart(a, b) = HiddenOne(L)
       /\ LargeExponent(a, b) = el /\ SmallExponent(a, b) = es
  BY DEF SmallPart, LargePart, LargeExponent, SmallExponent
<1>14. SmallPart(a, b) \in 0 .. 2 * P - 1 /\ (es # 0 => SmallPart(a, b) \in P .. 2 * P - 1)
  <2> DEFINE h == HiddenOne(S)
  <2>1. h \in P .. 2 * P - 1 /\ SmallPart(a, b) = IF es = 0 THEN 0 ELSE h
    BY <1>8, <1>13
  <2> HIDE DEF h, P, es
  <2> QED BY <1>3, <2>1
<1>16. small = IF SmallExponent(a, b) = 0 THEN 1 ELSE SmallExponent(a, b)
  BY <1>13
<1>17. /\ Distance(a, b) \in 0 .. MAN + 3
       /\ Distance(a, b) = Min({Scale(L) - Scale(S), MAN + 3})
       /\ Distance(a, b) = 0 <=> LargeExponent(a, b) = small
       /\ LargeExponent(a, b) - Distance(a, b) >= 0
  <2> HIDE DEF d, L, S, small, el
  <2> QED BY <1>11, <1>12, <1>13
<1>18. /\ LargeExponent(a, b) \in 1 .. A - 1 /\ SmallExponent(a, b) \in 0 .. LargeExponent(a, b)
       /\ LargePart(a, b) \in P .. 2 * P - 1
       /\ Significand(L) = LargePart(a, b) /\ Significand(S) = SmallPart(a, b)
       /\ Scale(L) = LargeExponent(a, b) - Bias - MAN /\ Scale(S) = small - Bias - MAN
       /\ SmallExponent(a, b) # 0 => SmallPart(a, b) \in P .. 2 * P - 1
  <2> HIDE DEF d, L, S, small, el, es
  <2> QED BY <1>8, <1>9, <1>10, <1>13, <1>14
<1> HIDE DEF d, L, S, small, el, es, P, A
<1> QED BY <1>2, <1>3, <1>14, <1>16, <1>17, <1>18 DEF P, A, L, S

\* Sums of signed numbers.
LEMMA SignedSums ==
    ASSUME NEW x \in Nat, NEW y \in Nat, NEW s \in {0, 1}, NEW t \in {0, 1}
    PROVE  LET sum == (IF s = 1 THEN -x ELSE x) + (IF t = 1 THEN -y ELSE y)
               sign == IF sum < 0 THEN 1 ELSE 0
               n == IF sum < 0 THEN -sum ELSE sum
           IN  /\ n = IF s = t THEN x + y ELSE IF x >= y THEN x - y ELSE y - x
               /\ n # 0 => sign = IF s = t \/ x >= y THEN s ELSE 1 - s
OBVIOUS

\* The sum of C of two operands in their order.
LEMMA ExactOrdered ==
    ASSUME NEW v, NEW w, NEW d \in 0 .. XLEN, Significand(v) \in Nat, Significand(w) \in Nat,
           SignOf(v) \in {0, 1}, SignOf(w) \in {0, 1}
    PROVE  LET x == Significand(v) * 2 ^ d
               y == Significand(w)
               sum == SignedSignificand(v) * 2 ^ d + SignedSignificand(w)
               sign == IF sum < 0 THEN 1 ELSE 0
               n == IF sum < 0 THEN -sum ELSE sum
           IN  /\ n = IF SignOf(v) = SignOf(w) THEN x + y ELSE IF x >= y THEN x - y ELSE y - x
               /\ n # 0 => sign = IF SignOf(v) = SignOf(w) \/ x >= y THEN SignOf(v) ELSE 1 - SignOf(v)
               /\ x \in Nat
<1> DEFINE X == Significand(v)
           y == Significand(w)
           p == 2 ^ d
           x == X * p
           s == SignOf(v)
           t == SignOf(w)
           sum == (IF s = 1 THEN -x ELSE x) + (IF t = 1 THEN -y ELSE y)
           sign(k) == IF k < 0 THEN 1 ELSE 0
           n(k) == IF k < 0 THEN -k ELSE k
<1>1. p \in Nat /\ X \in Nat /\ y \in Nat /\ s \in {0, 1} /\ t \in {0, 1}
  BY Powers
<1>2. SignedSignificand(v) = (IF s = 1 THEN -X ELSE X) /\ SignedSignificand(w) = IF t = 1 THEN -y ELSE y
  BY DEF SignedSignificand
<1> HIDE DEF p, X, y, s, t
<1>3. x \in Nat /\ (-X) * p = -x
  BY <1>1
<1>4. SignedSignificand(v) * p = IF s = 1 THEN -x ELSE x
  BY <1>2, <1>3
<1> HIDE DEF x
<1>5. /\ n(sum) = IF s = t THEN x + y ELSE IF x >= y THEN x - y ELSE y - x
      /\ n(sum) # 0 => sign(sum) = IF s = t \/ x >= y THEN s ELSE 1 - s
  BY <1>1, <1>3, SignedSums
<1>6. SignedSignificand(v) * p + SignedSignificand(w) = sum
  BY <1>2, <1>4
<1> HIDE DEF sum
<1>7. LET k == SignedSignificand(v) * p + SignedSignificand(w)
      IN  n(k) = n(sum) /\ sign(k) = sign(sum)
  BY <1>6
<1> QED BY <1>3, <1>5, <1>7 DEF x, y, p, X, s, t

\* The larger operand, d places up, is the larger one, unless the exponents are equal.
LEMMA SumSigns ==
    ASSUME NEW a, NEW b, IsFlushed(a), IsFlushed(b), NEW sub \in BOOLEAN, AddClass(a, b, sub) = {}
    PROVE  LET w == Addend(b, sub)
               s == IF FirstIsSmall(a, b) THEN SignOf(w) ELSE SignOf(a)
               x == LargePart(a, b) * 2 ^ Distance(a, b)
           IN  /\ x \in Nat /\ SumSize(a, b, sub) \in Nat
               /\ Adds(a, b, sub) <=> SignOf(a) = SignOf(w)
               /\ AddSign(a, b, sub, AlignedSmall(a, b))
                    = IF Adds(a, b, sub) \/ x >= SmallPart(a, b) THEN s ELSE 1 - s
               /\ SumSize(a, b, sub) = 0 =>
                    /\ ~Adds(a, b, sub) /\ ExponentOf(a) = ExponentOf(b)
                    /\ HiddenOne(a) = HiddenOne(b)
               /\ Distance(a, b) # 0 => x > SmallPart(a, b)
<1> DEFINE P == 2 ^ MAN
           w == Addend(b, sub)
           adds == Adds(a, b, sub)
           first == FirstIsSmall(a, b)
           ea == ExponentOf(a)
           eb == ExponentOf(b)
           l == LargePart(a, b)
           y == SmallPart(a, b)
           d == Distance(a, b)
           p == 2 ^ d
           x == l * p
           small == IF SmallExponent(a, b) = 0 THEN 1 ELSE SmallExponent(a, b)
           s == IF first THEN SignOf(w) ELSE SignOf(a)
           sign == AddSign(a, b, sub, AlignedSmall(a, b))
<1>1. /\ l \in P .. 2 * P - 1 /\ y \in 0 .. 2 * P - 1 /\ P \in Nat \ {0}
      /\ d \in 0 .. MAN + 3 /\ (d = 0 <=> LargeExponent(a, b) = small)
      /\ LargeExponent(a, b) \in 1 .. AllOnes - 1 /\ AllOnes \in Nat
  BY FiniteOperands
<1>2. a \in Words /\ SignOf(a) \in {0, 1} /\ SignOf(w) \in {0, 1}
      /\ SignOf(b) \in {0, 1} /\ SignOf(w) = IF sub THEN 1 - SignOf(b) ELSE SignOf(b)
  BY AddendParts, FloatParts DEF IsFlushed
<1>3. adds <=> SignOf(a) = SignOf(w)
  <2> DEFINE sa == SignOf(a)
             sb == SignOf(b)
             sw == SignOf(w)
  <2>1. adds <=> (sa = sb) # sub
    BY DEF Adds
  <2>2. sa \in {0, 1} /\ sb \in {0, 1} /\ sw = IF sub THEN 1 - sb ELSE sb
    BY <1>2
  <2> HIDE DEF adds, sa, sb, sw
  <2>3. CASE sub
    <3>1. adds <=> sa # sb
      BY <2>1, <2>3
    <3> QED BY <2>2, <2>3, <3>1 DEF sa, sw
  <2>4. CASE ~sub
    <3>1. adds <=> sa = sb
      BY <2>1, <2>4
    <3> QED BY <2>2, <2>4, <3>1 DEF sa, sw
  <2> QED BY <2>3, <2>4
<1>4. p \in Nat \ {0} /\ (d = 0 => p = 1) /\ (d # 0 => p >= 2) /\ d \in 0 .. XLEN
  <2>1. d \in 0 .. XLEN /\ (d # 0 => d - 1 \in 0 .. XLEN - 1 /\ (d - 1) + 1 = d)
    <3> HIDE DEF d
    <3> QED BY <1>1, WideExponent
  <2>2. p \in Nat \ {0}
    BY <2>1, Powers
  <2>3. d = 0 => p = 1
    BY Powers
  <2>4. d # 0 => p = 2 * 2 ^ (d - 1) /\ 2 ^ (d - 1) \in Nat \ {0}
    <3> SUFFICES ASSUME d # 0 PROVE p = 2 * 2 ^ (d - 1) /\ 2 ^ (d - 1) \in Nat \ {0}
      OBVIOUS
    <3> DEFINE k == d - 1
    <3>1. k \in 0 .. XLEN - 1 /\ k + 1 = d
      BY <2>1
    <3> HIDE DEF k, d
    <3>2. 2 ^ (k + 1) = 2 * 2 ^ k /\ 2 ^ k \in Nat \ {0}
      BY <3>1, NextPower
    <3> QED BY <3>1, <3>2 DEF k
  <2>5. d # 0 => p >= 2
    <3> SUFFICES ASSUME d # 0 PROVE p >= 2
      OBVIOUS
    <3> DEFINE h == 2 ^ (d - 1)
    <3>1. p = 2 * h /\ h \in Nat \ {0}
      BY <2>4
    <3> HIDE DEF p, h
    <3> QED BY <3>1
  <2> QED BY <2>1, <2>2, <2>3, <2>5
<1> HIDE DEF p, l, y, P, d
<1>5. x \in Nat /\ l \in Nat /\ y \in Nat /\ x >= P
  <2>1. l \in Nat /\ y \in Nat /\ l >= P
    BY <1>1
  <2>2. x = l + l * (p - 1) /\ l * (p - 1) >= 0 /\ l * (p - 1) \in Int
    BY <1>4, <2>1
  <2> QED BY <1>1, <2>1, <2>2
<1>6. d # 0 => x > y
  <2> SUFFICES ASSUME d # 0 PROVE x > y
    OBVIOUS
  <2>1. x = 2 * l + l * (p - 2) /\ l * (p - 2) >= 0 /\ l * (p - 2) \in Int
    BY <1>4, <1>5
  <2> QED BY <1>1, <1>5, <2>1
<1>7. d = 0 => x = l
  BY <1>4, <1>5
<1> HIDE DEF x
<1>8. SumSize(a, b, sub) = IF adds THEN x + y ELSE IF x >= y THEN x - y ELSE y - x
  BY DEF SumSize, x, y, l, p, d
<1>9. SumSize(a, b, sub) \in Nat /\ (SumSize(a, b, sub) = 0 => ~adds /\ x = y)
  <2> HIDE DEF adds
  <2> QED BY <1>1, <1>5, <1>8
\* The operands of the same exponent.
<1>10. ASSUME ea = eb
       PROVE  /\ ~first /\ d = 0 /\ l = HiddenOne(a) /\ y = HiddenOne(b)
              /\ AlignedSmall(a, b) \div 8 = y
  <2>1. ea \in Int
    BY <1>1, <1>2, OperandParts
  <2>2. ~first
    BY <1>10, <2>1 DEF FirstIsSmall
  <2>3. LargeOperand(a, b) = a /\ SmallOperand(a, b) = b
    BY <2>2 DEF LargeOperand, SmallOperand
  <2>4. LargeExponent(a, b) = ea /\ SmallExponent(a, b) = ea
    BY <1>10, <2>3 DEF LargeExponent, SmallExponent
  <2>5. ea # 0 /\ small = ea
    BY <1>1, <2>4
  <2>6. d = 0
    BY <1>1, <2>4, <2>5
  <2>7. l = HiddenOne(a) /\ y = HiddenOne(b)
    BY <2>3, <2>4, <2>5 DEF l, y, LargePart, SmallPart
  <2>8. AlignedSmall(a, b) = Sticky(8 * y, 2 * 2 ^ 0)
    BY <2>3, <2>4, <2>5, <2>6, <2>7 DEF AlignedSmall, d
  <2>9. Sticky(8 * y, 2 * 2 ^ 0) = 8 * y
    <3> DEFINE q == 4 * y
               e == 2
    <3>1. 2 * 2 ^ 0 = e /\ 8 * y = e * q /\ q \in Nat /\ e \in Nat \ {0}
      BY <1>5, Powers
    <3> HIDE DEF q, e
    <3>2. Sticky(e * q, e) = 2 * q
      BY <3>1, StickyWhole
    <3>3. 2 * q = 8 * y
      BY <1>5 DEF q
    <3> QED BY <3>1, <3>2, <3>3
  <2>10. (8 * y) \div 8 = y
    BY <1>5
  <2> QED BY <2>2, <2>6, <2>7, <2>8, <2>9, <2>10
<1>11. ASSUME ea # eb PROVE x >= y /\ (SumSize(a, b, sub) = 0 => FALSE)
  <2>1. CASE d # 0
    <3>1. x > y
      BY <1>6, <2>1
    <3> QED BY <1>5, <1>9, <3>1
  <2>2. CASE d = 0
    <3>1. LargeExponent(a, b) = small
      BY <1>1, <2>2
    <3>2. LargeExponent(a, b) # SmallExponent(a, b)
      BY <1>11 DEF LargeExponent, SmallExponent, LargeOperand, SmallOperand
    <3>3. SmallExponent(a, b) = 0
      BY <3>1, <3>2
    <3>4. y = 0
      BY <3>3 DEF y, SmallPart
    <3> QED BY <1>1, <1>5, <1>9, <3>4
  <2> QED BY <2>1, <2>2
<1>12. sign = IF adds \/ x >= y THEN s ELSE 1 - s
  <2> DEFINE keeps == \/ adds
                      \/ IF ea = eb THEN AlignedSmall(a, b) \div 8 <= l ELSE ~first
  <2>1. sign = IF keeps THEN SignOf(a) ELSE 1 - SignOf(a)
    BY DEF AddSign, l, LargePart
  <2>2. CASE adds
    BY <1>3, <2>1, <2>2
  <2>3. CASE ~adds /\ ea = eb
    <3>1. ~first /\ AlignedSmall(a, b) \div 8 = y /\ x = l
      BY <1>7, <1>10, <2>3
    <3>2. keeps <=> x >= y
      BY <1>5, <2>3, <3>1
    <3> HIDE DEF keeps
    <3> QED BY <2>1, <2>3, <3>1, <3>2
  <2>4. CASE ~adds /\ ea # eb
    <3>1. x >= y /\ (keeps <=> ~first)
      BY <1>11, <2>4
    <3>2. SignOf(w) = 1 - SignOf(a)
      BY <1>2, <1>3, <2>4
    <3> HIDE DEF keeps, first, w
    <3> QED BY <2>1, <2>4, <3>1, <3>2
  <2> QED BY <2>2, <2>3, <2>4
<1>13. SumSize(a, b, sub) = 0 => ~adds /\ ea = eb /\ HiddenOne(a) = HiddenOne(b)
  <2> SUFFICES ASSUME SumSize(a, b, sub) = 0 PROVE ~adds /\ ea = eb /\ HiddenOne(a) = HiddenOne(b)
    OBVIOUS
  <2>1. ea = eb
    BY <1>11
  <2> QED BY <1>7, <1>9, <1>10, <2>1
<1> HIDE DEF sign, s, adds
<1> QED BY <1>3, <1>5, <1>6, <1>9, <1>12, <1>13 DEF x, y, l, p, d, s, w, first, adds, sign, ea, eb

\* The exact sum of C is that of the adder, with its sign.
LEMMA SumInC ==
    ASSUME NEW a, NEW b, IsFlushed(a), IsFlushed(b), NEW sub \in BOOLEAN, AddClass(a, b, sub) = {}
    PROVE  LET sum == ExactSum(a, Addend(b, sub))
           IN  /\ sum.n = SumSize(a, b, sub)
               /\ sum.e = LargeExponent(a, b) - Bias - MAN - Distance(a, b)
               /\ sum.n # 0 => sum.sign = AddSign(a, b, sub, AlignedSmall(a, b))
<1> DEFINE w == Addend(b, sub)
           adds == Adds(a, b, sub)
           first == FirstIsSmall(a, b)
           L == LargeOperand(a, b)
           S == SmallOperand(a, b)
           d == Distance(a, b)
           X == LargePart(a, b)
           y == SmallPart(a, b)
           x == X * 2 ^ d
           s == IF first THEN SignOf(w) ELSE SignOf(a)
           size == IF adds THEN x + y ELSE IF x >= y THEN x - y ELSE y - x
           sign == IF adds \/ x >= y THEN s ELSE 1 - s
           e == LargeExponent(a, b) - Bias - MAN - d
           sum(v, u, k) == SignedSignificand(v) * 2 ^ k + SignedSignificand(u)
           signOf(k) == IF k < 0 THEN 1 ELSE 0
           sizeOf(k) == IF k < 0 THEN -k ELSE k
           f == ExactSum(a, w)
<1>1. /\ SumSize(a, b, sub) = size /\ AddSign(a, b, sub, AlignedSmall(a, b)) = sign
      /\ (adds <=> SignOf(a) = SignOf(w)) /\ x \in Nat
  BY SumSigns DEF SumSize
<1>2. /\ X \in Nat /\ y \in Nat /\ Significand(L) = X /\ Significand(S) = y
      /\ d \in 0 .. MAN + 3 /\ d = Min({Scale(L) - Scale(S), MAN + 3})
      /\ Scale(L) = LargeExponent(a, b) - Bias - MAN
      /\ Scale(S) = (IF SmallExponent(a, b) = 0 THEN 1 ELSE SmallExponent(a, b)) - Bias - MAN
      /\ SmallExponent(a, b) \in 0 .. LargeExponent(a, b) /\ LargeExponent(a, b) \in Nat
      /\ LargeExponent(a, b) \in 1 .. AllOnes - 1
  <2> DEFINE P == 2 ^ MAN
  <2>1. /\ X \in P .. 2 * P - 1 /\ y \in 0 .. 2 * P - 1 /\ P \in Nat \ {0} /\ AllOnes \in Nat
        /\ LargeExponent(a, b) \in 1 .. AllOnes - 1
        /\ Significand(L) = X /\ Significand(S) = y
        /\ d \in 0 .. MAN + 3 /\ d = Min({Scale(L) - Scale(S), MAN + 3})
        /\ Scale(L) = LargeExponent(a, b) - Bias - MAN
        /\ Scale(S) = (IF SmallExponent(a, b) = 0 THEN 1 ELSE SmallExponent(a, b)) - Bias - MAN
        /\ SmallExponent(a, b) \in 0 .. LargeExponent(a, b)
    BY FiniteOperands
  <2>2. X \in Nat /\ y \in Nat /\ LargeExponent(a, b) \in Nat
    <3> HIDE DEF P, X, y
    <3> QED BY <2>1
  <2> QED BY <2>1, <2>2
<1>3. d \in 0 .. XLEN /\ MAN \in Nat /\ Bias \in Nat /\ XLEN \in Nat
  <2> HIDE DEF d
  <2> QED BY <1>2, WideExponent, ExponentSizes
<1>4. /\ Scale(w) = Scale(b) /\ Significand(w) = Significand(b) /\ ExponentOf(w) = ExponentOf(b)
      /\ SignOf(a) \in {0, 1} /\ SignOf(w) \in {0, 1}
  BY AddendParts, FloatParts DEF IsFlushed
<1>5. f = LET large == IF Scale(a) >= Scale(w) THEN a ELSE w
              small == IF Scale(a) >= Scale(w) THEN w ELSE a
              distance == Min({Scale(large) - Scale(small), MAN + 3})
              k == sum(large, small, distance)
          IN  [sign |-> signOf(k), n |-> sizeOf(k), e |-> Scale(large) - distance]
  BY DEF ExactSum
<1> SUFFICES /\ f.n = size /\ f.e = e
             /\ f.n # 0 => f.sign = sign
  BY <1>1
<1>6. Scale(L) \in Int /\ Scale(S) \in Int /\ Scale(L) - d = e
  BY <1>2, <1>3
<1> HIDE DEF f, w, d, X, y
<1>7. CASE Scale(a) >= Scale(w) /\ ~first
  <2>1. L = a /\ S = b
    BY <1>7 DEF LargeOperand, SmallOperand
  <2>2. d = Min({Scale(a) - Scale(w), MAN + 3})
    BY <1>2, <1>4, <2>1
  <2>3. f = [sign |-> signOf(sum(a, w, d)), n |-> sizeOf(sum(a, w, d)), e |-> Scale(a) - d]
    BY <1>5, <1>7, <2>2
  <2>4. Significand(a) = X /\ Significand(w) = y
    BY <1>2, <1>4, <2>1
  <2>5. /\ sizeOf(sum(a, w, d)) = IF SignOf(a) = SignOf(w) THEN x + y ELSE IF x >= y THEN x - y ELSE y - x
        /\ sizeOf(sum(a, w, d)) # 0 =>
             signOf(sum(a, w, d)) = IF SignOf(a) = SignOf(w) \/ x >= y THEN SignOf(a) ELSE 1 - SignOf(a)
    <3>1. Significand(a) \in Nat /\ Significand(w) \in Nat
      BY <1>2, <2>4
    <3>2. x = Significand(a) * 2 ^ d /\ y = Significand(w)
      BY <2>4
    <3> HIDE DEF x, y
    <3> QED BY <1>3, <1>4, <3>1, <3>2, ExactOrdered
  <2>6. Scale(a) - d = e
    BY <1>6, <2>1
  <2> HIDE DEF sum, x, adds, first, e, sizeOf, signOf
  <2> QED BY <1>1, <1>7, <2>3, <2>5, <2>6
<1>8. CASE ~(Scale(a) >= Scale(w))
  <2>1. first
    <3> SUFFICES ASSUME ~first PROVE FALSE
      OBVIOUS
    <3>1. L = a /\ S = b
      BY DEF LargeOperand, SmallOperand
    <3>2. Scale(L) >= Scale(S)
      <4> DEFINE u == LargeExponent(a, b)
                 v == SmallExponent(a, b)
      <4>1. u \in Nat /\ v \in 0 .. u /\ u >= 1 /\ Scale(L) = u - Bias - MAN
            /\ Scale(S) = (IF v = 0 THEN 1 ELSE v) - Bias - MAN
        <5>1. u \in 1 .. AllOnes - 1 /\ AllOnes \in Nat
          BY <1>2, FloatPowers
        <5> HIDE DEF u
        <5> QED BY <1>2, <5>1 DEF u
      <4> HIDE DEF u, v
      <4> QED BY <1>3, <4>1
    <3> QED BY <1>4, <1>8, <3>1, <3>2
  <2>2. L = b /\ S = a
    BY <2>1 DEF LargeOperand, SmallOperand
  <2>3. d = Min({Scale(w) - Scale(a), MAN + 3})
    BY <1>2, <1>4, <2>2
  <2>4. f = [sign |-> signOf(sum(w, a, d)), n |-> sizeOf(sum(w, a, d)), e |-> Scale(w) - d]
    BY <1>5, <1>8, <2>3
  <2>5. Significand(w) = X /\ Significand(a) = y
    BY <1>2, <1>4, <2>2
  <2>6. /\ sizeOf(sum(w, a, d)) = IF SignOf(w) = SignOf(a) THEN x + y ELSE IF x >= y THEN x - y ELSE y - x
        /\ sizeOf(sum(w, a, d)) # 0 =>
             signOf(sum(w, a, d)) = IF SignOf(w) = SignOf(a) \/ x >= y THEN SignOf(w) ELSE 1 - SignOf(w)
    <3>1. Significand(a) \in Nat /\ Significand(w) \in Nat
      BY <1>2, <2>5
    <3>2. x = Significand(w) * 2 ^ d /\ y = Significand(a)
      BY <2>5
    <3> HIDE DEF x, y
    <3> QED BY <1>3, <1>4, <3>1, <3>2, ExactOrdered
  <2>7. Scale(w) - d = e
    BY <1>4, <1>6, <2>2
  <2> HIDE DEF sum, x, adds, first, e, sizeOf, signOf
  <2> QED BY <1>1, <2>1, <2>4, <2>6, <2>7
\* A zero and the smallest exponent: their scales are equal.
<1>9. CASE Scale(a) >= Scale(w) /\ first
  <2>1. L = b /\ S = a
    BY <1>9 DEF LargeOperand, SmallOperand
  <2>2. y = 0 /\ d = 0 /\ Scale(a) = Scale(w)
    <3> DEFINE u == LargeExponent(a, b)
               v == SmallExponent(a, b)
    <3>1. Scale(S) >= Scale(L)
      BY <1>4, <1>9, <2>1
    <3>2. v < u
      BY <1>9, <2>1 DEF FirstIsSmall, LargeExponent, SmallExponent
    <3>3. u \in Nat /\ v \in 0 .. u /\ u >= 1 /\ Scale(L) = u - Bias - MAN
          /\ Scale(S) = (IF v = 0 THEN 1 ELSE v) - Bias - MAN
      <4>1. u \in 1 .. AllOnes - 1 /\ AllOnes \in Nat
        BY <1>2, FloatPowers
      <4> HIDE DEF u
      <4> QED BY <1>2, <4>1 DEF u
    <3> HIDE DEF u, v
    <3>4. v = 0 /\ Scale(L) - Scale(S) = 0
      BY <1>3, <3>1, <3>2, <3>3
    <3>5. d = 0
      <4>1. Min({0, MAN + 3}) = 0
        <5>1. 0 \in Int /\ MAN + 3 \in Int /\ 0 <= MAN + 3
          BY <1>3
        <5> QED BY <5>1, MinimumOf
      <4> QED BY <1>2, <3>4, <4>1
    <3>6. y = 0
      BY <3>4 DEF y, v, SmallPart
    <3> QED BY <1>4, <1>6, <2>1, <3>4, <3>5, <3>6
  <2>3. f = [sign |-> signOf(sum(a, w, d)), n |-> sizeOf(sum(a, w, d)), e |-> Scale(a) - d]
    <3>1. Min({Scale(a) - Scale(w), MAN + 3}) = d
      BY <1>2, <1>4, <1>6, <2>1, <2>2
    <3> QED BY <1>5, <1>9, <3>1
  <2>4. Significand(a) = 0 /\ Significand(w) = X /\ x = X
    <3>1. 2 ^ d = 1
      BY <2>2, Powers
    <3> QED BY <1>2, <1>4, <2>1, <2>2, <3>1
  <2>5. /\ sizeOf(sum(a, w, d)) = IF SignOf(a) = SignOf(w) THEN X ELSE X
        /\ sizeOf(sum(a, w, d)) # 0 =>
             signOf(sum(a, w, d)) = IF SignOf(a) = SignOf(w) THEN SignOf(a) ELSE 1 - SignOf(a)
    <3> DEFINE z == Significand(a) * 2 ^ d
               m == Significand(w)
    <3>1. Significand(a) \in Nat /\ m \in Nat
      BY <1>2, <2>4
    <3>2. z = 0 /\ m = X
      <4>1. 2 ^ d = 1
        BY <2>2, Powers
      <4> QED BY <2>4, <4>1
    <3> HIDE DEF z, m
    <3>3. /\ sizeOf(sum(a, w, d)) = IF SignOf(a) = SignOf(w) THEN z + m ELSE IF z >= m THEN z - m ELSE m - z
          /\ sizeOf(sum(a, w, d)) # 0 =>
               signOf(sum(a, w, d)) = IF SignOf(a) = SignOf(w) \/ z >= m THEN SignOf(a) ELSE 1 - SignOf(a)
      BY <1>3, <1>4, <3>1, ExactOrdered DEF z, m
    <3> HIDE DEF sum
    <3> QED BY <1>2, <3>2, <3>3
  <2>6. Scale(a) - d = e
    BY <1>4, <1>6, <2>1, <2>2
  <2>7. size = X /\ sign = SignOf(w)
    <3>1. x >= y /\ x + y = X /\ x - y = X
      BY <1>2, <2>2, <2>4
    <3> HIDE DEF x
    <3> QED BY <1>9, <3>1
  <2>8. (IF SignOf(a) = SignOf(w) THEN SignOf(a) ELSE 1 - SignOf(a)) = SignOf(w)
    BY <1>4
  <2> HIDE DEF sum, x, adds, first, e, sizeOf, signOf, size, sign
  <2> QED BY <1>1, <2>3, <2>5, <2>6, <2>7, <2>8
<1> QED BY <1>7, <1>8, <1>9

\* The adder's mantissa has the exact sum, with the sticky bit of what it lost.
LEMMA SumRegister ==
    ASSUME NEW a, NEW b, IsFlushed(a), IsFlushed(b), NEW sub \in BOOLEAN, AddClass(a, b, sub) = {}
    PROVE  /\ AddMantissa(a, b, sub, AlignedSmall(a, b))
                = Sticky(8 * SumSize(a, b, sub), 2 * 2 ^ Distance(a, b))
           /\ AlignedSmall(a, b) = Sticky(8 * SmallPart(a, b), 2 * 2 ^ Distance(a, b))
<1> DEFINE adds == Adds(a, b, sub)
           l == LargePart(a, b)
           y == SmallPart(a, b)
           d == Distance(a, b)
           p == 2 ^ d
           x == l * p
           e == 2 * p
           n == SumSize(a, b, sub)
           al == AlignedSmall(a, b)
           h == 8 * y
           q == 4 * l
           m == AddMantissa(a, b, sub, al)
<1>1. l \in Nat /\ y \in Nat /\ d \in 0 .. XLEN
  <2> DEFINE P == 2 ^ MAN
  <2>1. l \in P .. 2 * P - 1 /\ y \in 0 .. 2 * P - 1 /\ P \in Nat \ {0} /\ d \in 0 .. MAN + 3
    BY FiniteOperands
  <2> HIDE DEF l, y, P, d
  <2> QED BY <2>1, WideExponent
<1>2. /\ n = IF adds THEN x + y ELSE IF x >= y THEN x - y ELSE y - x
      /\ d # 0 => x > y
  BY SumSigns DEF SumSize
<1>3. p \in Nat \ {0} /\ (d = 0 => p = 1) /\ e \in Nat \ {0}
  <2>1. p \in Nat \ {0} /\ (d = 0 => p = 1)
    BY <1>1, Powers
  <2> HIDE DEF p
  <2> QED BY <2>1
<1>4. al = Sticky(h, e)
  <2>1. CASE SmallExponent(a, b) = 0
    <3>1. y = 0 /\ al = 0
      BY <2>1 DEF SmallPart, AlignedSmall
    <3> HIDE DEF e, y
    <3>2. h = 0 /\ h < e /\ h \in Nat
      BY <1>3, <3>1
    <3> HIDE DEF h
    <3> QED BY <1>3, <3>1, <3>2, StickyOnly
  <2>2. CASE SmallExponent(a, b) # 0
    BY <2>2 DEF SmallPart, AlignedSmall
  <2> QED BY <2>1, <2>2
<1>5. m = IF adds THEN 8 * l + al ELSE Max({al - 8 * l, 8 * l - al})
  BY DEF AddMantissa, LargePart
<1> HIDE DEF l, y, d, p, al, n, m, adds
<1>6. e * q = 8 * x /\ q \in Nat /\ h \in Nat /\ x \in Nat
  BY <1>1, <1>3
<1> HIDE DEF e
<1>7. /\ Sticky(h + e * q, e) = 2 * q + al
      /\ Sticky(e * q - h, e) = 2 * q - al
      /\ al \in Int
  <2> HIDE DEF h, q
  <2> QED BY <1>3, <1>4, <1>6, StickySum
<1>8. CASE adds
  <2>1. n = x + y /\ m = 8 * l + al
    BY <1>2, <1>5, <1>8
  <2>2. 8 * n = h + e * q /\ m = 2 * q + al
    <3> HIDE DEF x
    <3> QED BY <1>1, <1>6, <1>7, <2>1
  <2> QED BY <1>4, <1>7, <2>2 DEF m, n, al, e, p, d, h, y
<1>9. CASE ~adds /\ x >= y
  <2>1. n = x - y /\ m = Max({al - 8 * l, 8 * l - al})
    BY <1>2, <1>5, <1>9
  <2>2. 8 * n = e * q - h /\ 8 * n \in Nat
    <3> HIDE DEF x
    <3> QED BY <1>1, <1>6, <1>9, <2>1
  <2>3. Sticky(8 * n, e) = 2 * q - al
    BY <1>7, <2>2
  <2>4. 2 * q - al >= 0
    <3> DEFINE k == 8 * n
               u == k \div e
               r == k % e
    <3>1. k \in Nat /\ k \in Int /\ e \in Nat \ {0}
      BY <1>3, <2>2
    <3> HIDE DEF k
    <3>2. u \in Int /\ r \in Int /\ r < e /\ k = e * u + r
      BY <3>1, DivMod
    <3>3. Sticky(k, e) = 2 * u + (IF r = 0 THEN 0 ELSE 1)
      BY DEF Sticky
    <3> HIDE DEF u, r
    <3>4. u >= 0
      <4> SUFFICES ASSUME u <= -1 PROVE FALSE
        BY <3>2
      <4> DEFINE z == e * u
      <4>1. z = -e + e * (u + 1) /\ e * (u + 1) <= 0 /\ e * (u + 1) \in Int /\ z \in Int
        BY <3>1, <3>2
      <4> DEFINE v == e * (u + 1)
      <4>2. z = -e + v /\ v <= 0 /\ v \in Int /\ k = z + r
        BY <3>2, <4>1
      <4> HIDE DEF z, v
      <4> QED BY <3>1, <3>2, <4>1, <4>2
    <3>5. Sticky(k, e) = 2 * q - al
      BY <2>3 DEF k
    <3> QED BY <3>2, <3>3, <3>4, <3>5
  <2>5. m = 2 * q - al
    <3> DEFINE i == al - 8 * l
               j == 8 * l - al
    <3>1. i \in Int /\ j \in Int /\ j = 2 * q - al /\ j >= i
      BY <1>1, <1>6, <1>7, <2>4
    <3>2. m = Max({i, j})
      BY <2>1
    <3> HIDE DEF i, j
    <3>3. Max({i, j}) = IF i >= j THEN i ELSE j
      BY <3>1, MaximumOf
    <3> QED BY <3>1, <3>2, <3>3
  <2> QED BY <1>4, <2>3, <2>5 DEF m, n, al, e, p, d, h, y
<1>10. CASE ~adds /\ ~(x >= y)
  <2>1. d = 0
    <3> SUFFICES ASSUME d # 0 PROVE FALSE
      OBVIOUS
    <3>1. x > y
      BY <1>2
    <3> HIDE DEF x
    <3> QED BY <1>1, <1>6, <1>10, <3>1
  <2>2. p = 1 /\ e = 2 /\ x = l
    <3>1. p = 1
      BY <1>3, <2>1
    <3> QED BY <1>1, <3>1 DEF e
  <2>3. n = y - l /\ y - l \in Nat /\ m = Max({al - 8 * l, 8 * l - al}) /\ y > l
    <3>1. n = y - x
      BY <1>2, <1>10
    <3> HIDE DEF x
    <3> QED BY <1>1, <1>5, <1>6, <1>10, <2>2, <3>1
  <2>4. al = 8 * y
    <3> DEFINE k == 4 * y
    <3>1. k \in Nat /\ h = e * k /\ 2 * k = 8 * y
      BY <1>1, <2>2
    <3> HIDE DEF k, h
    <3>2. Sticky(e * k, e) = 2 * k
      BY <1>3, <3>1, StickyWhole
    <3> QED BY <1>4, <3>1, <3>2
  <2>5. Sticky(8 * n, e) = 8 * n
    <3> DEFINE k == 4 * n
    <3>1. k \in Nat /\ 8 * n = e * k /\ 2 * k = 8 * n
      BY <2>2, <2>3
    <3> HIDE DEF k
    <3>2. Sticky(e * k, e) = 2 * k
      BY <1>3, <3>1, StickyWhole
    <3> QED BY <3>1, <3>2
  <2>6. m = 8 * n
    <3> DEFINE i == al - 8 * l
               j == 8 * l - al
    <3>1. i \in Int /\ j \in Int /\ i = 8 * n /\ i >= j
      BY <1>1, <2>3, <2>4
    <3>2. m = Max({i, j})
      BY <2>3
    <3> HIDE DEF i, j
    <3>3. Max({i, j}) = IF i >= j THEN i ELSE j
      BY <3>1, MaximumOf
    <3> QED BY <3>1, <3>2, <3>3
  <2> QED BY <1>4, <2>5, <2>6 DEF m, n, al, e, p, d, h, y
<1> QED BY <1>8, <1>9, <1>10

\* C rounds c units of 2^f to the same float as n of 2^e, and is not exact only if so.
SameInC(c, f, n, e) ==
    /\ \A sign \in {0, 1} : Rounded(sign, c, f) = Rounded(sign, n, e)
    /\ Inexact(c, f) => Inexact(n, e)

\* What the normalizer is to make of the sum: c units, place 0 of which has the
\* exponent x, that C rounds to the same float.
GivesSum(a, b, sub, c, x) ==
    LET sum == ExactSum(a, Addend(b, sub))
        f == x - Bias - MAN
    IN  IF c = 0 THEN SumSize(a, b, sub) = 0
        ELSE /\ SumSize(a, b, sub) # 0
             /\ FiniteSum(a, Addend(b, sub)) = Rounded(AddSign(a, b, sub, AlignedSmall(a, b)), c, f)
             /\ SameInC(c, f, sum.n, sum.e)

\* A number c on the way to its place from the exponent e, its places in s.
Arriving(s, e, c, x, p) ==
    \/ IsExact(c, x, p) /\ \E t : e = x + t /\ Coming(s, c, p, t)
    \/ IsBelow(c, x, p) /\ IF c = 0 THEN s = 0 ELSE \E t : e = x + t /\ t > p /\ Coming(s, c, p, t)

\* Aligned by two places or more, the sum has its highest one near that of the larger.
LEMMA FarSumArrives ==
    ASSUME NEW a, NEW b, IsFlushed(a), IsFlushed(b), NEW sub \in BOOLEAN, AddClass(a, b, sub) = {},
           Distance(a, b) >= 2
    PROVE  \E c, x, p : /\ c \in Nat /\ c # 0 /\ x \in Int /\ GivesSum(a, b, sub, c, x)
                        /\ Arriving(AddMantissa(a, b, sub, AlignedSmall(a, b)), LargeExponent(a, b),
                                    c, x, p)
<1> DEFINE P == 2 ^ MAN
           l == LargePart(a, b)
           y == SmallPart(a, b)
           d == Distance(a, b)
           n == SumSize(a, b, sub)
           el == LargeExponent(a, b)
           x == el - d
           s == AddMantissa(a, b, sub, AlignedSmall(a, b))
           w == Addend(b, sub)
           sign == AddSign(a, b, sub, AlignedSmall(a, b))
<1>1. /\ l \in P .. 2 * P - 1 /\ y \in 0 .. 2 * P - 1 /\ P \in Nat \ {0} /\ d \in 0 .. MAN + 3
      /\ el \in 1 .. AllOnes - 1 /\ AllOnes \in Nat /\ el - d >= 0
  BY FiniteOperands
<1>2. /\ MAN \in Nat /\ Bias \in Nat /\ XLEN >= MAN + 6 /\ XLEN \in Nat
      /\ AllOnes = 2 ^ EXP - 1 /\ 2 ^ EXP \in Nat
  BY WideExponent, ExponentSizes, FloatPowers DEF AllOnes
<1>3. d \in 2 .. MAN + 3 /\ d \in 0 .. XLEN /\ d \in Nat /\ el \in Int /\ x \in Int /\ x >= 0
  <2>1. d >= 2
    OBVIOUS
  <2> HIDE DEF d, el
  <2> QED BY <1>1, <1>2, <2>1
<1>4. /\ n = IF Adds(a, b, sub) THEN l * 2 ^ d + y
             ELSE IF l * 2 ^ d >= y THEN l * 2 ^ d - y ELSE y - l * 2 ^ d
      /\ l * 2 ^ d > y /\ l * 2 ^ d \in Nat
  <2>1. d # 0
    <3> HIDE DEF d
    <3> QED BY <1>3
  <2> QED BY <2>1, SumSigns DEF SumSize
<1>5. n \in {l * 2 ^ d + y, l * 2 ^ d - y}
  <2> DEFINE k == l * 2 ^ d
  <2>1. k >= y
    <3>1. k > y /\ k \in Nat /\ y \in Nat
      <4>1. y \in Nat
        <5> HIDE DEF y, P
        <5> QED BY <1>1
      <4> QED BY <1>4, <4>1
    <3> HIDE DEF k, y
    <3> QED BY <3>1
  <2> QED BY <1>4, <2>1
<1> HIDE DEF d, l, y, n, el
<1>6. n \in Nat /\ n # 0 /\ \E p \in {d - 1, d, d + 1} : IsSignificand(n, p)
  BY <1>1, <1>3, <1>5, SumPlaces
<1>7. PICK p \in {d - 1, d, d + 1} : IsSignificand(n, p)
  BY <1>6
<1>8. p \in Nat /\ p # 0 /\ x + p \in 0 .. 2 ^ EXP
  <2> DEFINE E == 2 ^ EXP
  <2>1. AllOnes = E - 1 /\ E \in Nat
    BY <1>2
  <2> HIDE DEF E
  <2> QED BY <1>1, <1>3, <1>7, <2>1 DEF E
<1>9. IsExact(n, x, p)
  BY <1>3, <1>6, <1>7, <1>8 DEF IsExact
<1>10. s = Sticky(8 * n, 2 * 2 ^ d)
  BY SumRegister DEF n, d
<1>11. Coming(s, n, p, d)
  <2>1. d \in {p - 1, p, p + 1}
    BY <1>3, <1>7
  <2> QED BY <1>3, <1>10, <2>1 DEF Coming
<1>12. el = x + d
  BY <1>3
<1>13. GivesSum(a, b, sub, n, x)
  <2>1. /\ ExactSum(a, w).n = n /\ ExactSum(a, w).sign = sign
        /\ ExactSum(a, w).e = el - Bias - MAN - d
    BY <1>6, SumInC DEF n, el, d
  <2>2. el - Bias - MAN - d = x - Bias - MAN
    BY <1>2, <1>3
  <2>3. FiniteSum(a, w) = Rounded(sign, n, x - Bias - MAN)
    BY <1>6, <2>1, <2>2 DEF FiniteSum
  <2>4. SameInC(n, x - Bias - MAN, ExactSum(a, w).n, ExactSum(a, w).e)
    BY <2>1, <2>2 DEF SameInC
  <2> QED BY <1>6, <2>3, <2>4 DEF GivesSum, n
<1>14. Arriving(s, el, n, x, p)
  BY <1>9, <1>11, <1>12 DEF Arriving
<1> QED BY <1>3, <1>6, <1>13, <1>14 DEF el

\* The powers that a sum of operands of almost the same exponent is scaled with.
LEMMA NearPowers ==
    ASSUME NEW d \in {0, 1}
    PROVE  LET P == 2 ^ MAN
               t == d + MAN + 1
           IN  /\ P \in Nat \ {0} /\ 2 ^ (MAN + 1) = 2 * P
               /\ t \in 0 .. XLEN /\ t + 1 \in 0 .. XLEN
               /\ 2 ^ t = 2 ^ d * (2 * P) /\ 2 ^ (t + 1) = 2 ^ d * (4 * P)
               /\ 2 ^ d = IF d = 0 THEN 1 ELSE 2
               /\ 2 ^ (t + 1) <= 2 ^ XLEN
<1> DEFINE P == 2 ^ MAN
           t == d + MAN + 1
           u == MAN + 1
<1>1. P \in Nat \ {0} /\ 2 ^ u = 2 * P
  BY FloatPowers, RegisterWidths
<1>2. MAN \in Nat /\ XLEN \in Nat /\ XLEN >= MAN + 6 /\ d \in Nat
  BY WideExponent
<1>3. t \in 0 .. XLEN /\ t + 1 \in 0 .. XLEN /\ d \in 0 .. t /\ t - d = u /\ d \in 0 .. XLEN
      /\ t \in 0 .. XLEN - 1
  BY <1>2
<1> HIDE DEF t, u
<1>4. 2 ^ t = 2 ^ d * 2 ^ u /\ 2 ^ t \in Nat /\ 2 ^ (t + 1) <= 2 ^ XLEN
  <2>1. 2 ^ t = 2 ^ d * 2 ^ (t - d)
    BY <1>3, Powers
  <2>2. t + 1 \in 0 .. XLEN /\ XLEN \in 0 .. XLEN
    BY <1>2, <1>3
  <2> QED BY <1>3, <2>1, <2>2, Powers
<1>5. 2 ^ (t + 1) = 2 * 2 ^ t
  BY <1>3, NextPower
<1>6. 2 ^ d = IF d = 0 THEN 1 ELSE 2
  <2>1. CASE d = 0
    BY <2>1, Powers
  <2>2. CASE d = 1
    <3>1. 0 \in 0 .. XLEN - 1 /\ 0 + 1 = 1
      BY <1>2
    <3>2. 2 ^ (0 + 1) = 2 * 2 ^ 0
      BY <3>1, NextPower
    <3> QED BY <2>2, <3>1, <3>2, Powers
  <2> QED BY <2>1, <2>2
<1> DEFINE p == 2 ^ d
<1>7. p \in Nat
  BY <1>6
<1> HIDE DEF p, P
<1>8. 2 * (p * (2 * P)) = p * (4 * P)
  BY <1>1, <1>7
<1> QED BY <1>1, <1>3, <1>4, <1>5, <1>6, <1>8 DEF p, P, t, u

\* Aligned by one place at most, it may have its highest one anywhere, but nothing is lost.
LEMMA NearSumArrives ==
    ASSUME NEW a, NEW b, IsFlushed(a), IsFlushed(b), NEW sub \in BOOLEAN, AddClass(a, b, sub) = {},
           Distance(a, b) \in {0, 1}
    PROVE  \E c, x, p : /\ c \in Nat /\ x \in Int /\ GivesSum(a, b, sub, c, x)
                        /\ Arriving(AddMantissa(a, b, sub, AlignedSmall(a, b)), LargeExponent(a, b),
                                    c, x, p)
<1> DEFINE P == 2 ^ MAN
           l == LargePart(a, b)
           y == SmallPart(a, b)
           d == Distance(a, b)
           g == 2 ^ d
           n == SumSize(a, b, sub)
           el == LargeExponent(a, b)
           t == d + MAN + 1
           x == el - t
           s == AddMantissa(a, b, sub, AlignedSmall(a, b))
           w == Addend(b, sub)
           sign == AddSign(a, b, sub, AlignedSmall(a, b))
           c == n * 2 ^ (MAN + 1)
           q == IF d = 0 THEN 4 * n ELSE 2 * n
           e == 2 * g
           f == 2 * 2 ^ t
<1>1. /\ l \in P .. 2 * P - 1 /\ y \in 0 .. 2 * P - 1
      /\ el \in 1 .. AllOnes - 1 /\ AllOnes \in Nat
  BY FiniteOperands
<1>2. /\ MAN \in Nat /\ Bias \in Nat /\ XLEN \in Nat
      /\ AllOnes = 2 ^ EXP - 1 /\ 2 ^ EXP \in Nat
  BY WideExponent, ExponentSizes, FloatPowers DEF AllOnes
<1>3. /\ P \in Nat \ {0} /\ 2 ^ (MAN + 1) = 2 * P
      /\ t \in 0 .. XLEN /\ t + 1 \in 0 .. XLEN
      /\ 2 ^ t = g * (2 * P) /\ 2 ^ (t + 1) = g * (4 * P)
      /\ g = (IF d = 0 THEN 1 ELSE 2) /\ 2 ^ (t + 1) <= 2 ^ XLEN
  BY NearPowers
<1>4. n \in Nat /\ n = IF Adds(a, b, sub) THEN l * g + y ELSE IF l * g >= y THEN l * g - y ELSE y - l * g
  BY SumSigns DEF SumSize
<1>5. el \in Nat /\ x \in Int /\ t \in Nat /\ el = x + t /\ d \in {0, 1} /\ el - d >= 0 /\ el >= 1
      /\ el \in 0 .. AllOnes
  <2> HIDE DEF el, t
  <2> QED BY <1>1, <1>2, <1>3, FiniteOperands DEF el
<1>6. n < g * (4 * P)
  <2> HIDE DEF l, y, P, g, n
  <2>1. l \in Nat /\ y \in Nat /\ l < 2 * P /\ y < 2 * P /\ g \in {1, 2}
    BY <1>1, <1>3
  <2>2. CASE g = 1
    <3>1. l * g = l /\ g * (4 * P) = 4 * P
      BY <1>3, <2>1, <2>2
    <3> QED BY <1>3, <1>4, <2>1, <3>1
  <2>3. CASE g = 2
    <3>1. l * g = 2 * l /\ g * (4 * P) = 8 * P
      BY <1>3, <2>1, <2>3
    <3> QED BY <1>3, <1>4, <2>1, <3>1
  <2> QED BY <2>1, <2>2, <2>3
<1>7. s = Sticky(8 * n, e)
  BY SumRegister
<1> HIDE DEF s, n, g, l, y, P, el, d, t
\* The register has an even number, and all of the sum.
<1>8. 8 * n = e * q /\ 8 * c = f * q /\ q \in Nat /\ e \in Nat \ {0} /\ f \in Nat \ {0} /\ f = 2 * (g * (2 * P))
  <2>1. c = n * (2 * P)
    BY <1>3
  <2>2. CASE d = 0
    <3>1. g = 1 /\ q = 4 * n /\ f = 4 * P
      BY <1>3, <2>2
    <3> QED BY <1>3, <1>4, <2>1, <3>1
  <2>3. CASE d # 0
    <3>1. g = 2 /\ q = 2 * n /\ f = 8 * P
      BY <1>3, <2>3
    <3> QED BY <1>3, <1>4, <2>1, <3>1
  <2> QED BY <2>2, <2>3
<1>9. c \in Nat /\ (c = 0 <=> n = 0)
  <2>1. c = n * (2 * P) /\ P \in Nat \ {0}
    BY <1>3
  <2> HIDE DEF c
  <2> QED BY <1>4, <2>1
<1> HIDE DEF c, q
<1>10. s = 2 * q /\ s = Sticky(8 * c, f)
  <2> HIDE DEF e, f
  <2>1. Sticky(e * q, e) = 2 * q /\ Sticky(f * q, f) = 2 * q
    BY <1>8, StickyWhole
  <2> QED BY <1>7, <1>8, <2>1
<1>11. Whole(s, c, t)
  <2> DEFINE v == 2 ^ t
  <2>1. f = 2 * v /\ v \in Nat
    BY <1>3, Powers
  <2> HIDE DEF f, v
  <2>2. s * v = f * q /\ s % 2 = 0
    BY <1>8, <1>10, <2>1
  <2> QED BY <1>8, <2>2 DEF Whole, v
<1>12. CASE n = 0
  <2>1. c = 0 /\ s = 0
    <3>1. q = 0
      BY <1>4, <1>12 DEF q
    <3> QED BY <1>9, <1>10, <1>12, <3>1
  <2>2. GivesSum(a, b, sub, c, x)
    BY <1>12, <2>1 DEF GivesSum, n
  <2>3. Arriving(s, el, c, x, 0)
    BY <2>1 DEF Arriving, IsBelow
  <2> QED BY <1>5, <1>9, <2>2, <2>3 DEF s, el
<1>13. CASE n # 0
  <2>1. n < 2 ^ XLEN
    <3> DEFINE u == g * (4 * P)
               v == 2 ^ XLEN
    <3>1. u <= v /\ n < u /\ u \in Int /\ v \in Int
      <4>1. g \in Nat /\ P \in Nat
        BY <1>3
      <4> QED BY <1>3, <1>6, <4>1, Powers
    <3> HIDE DEF u, v
    <3>2. n < v
      BY <1>4, <3>1
    <3> QED BY <3>2 DEF v
  <2>2. PICK k : HighestOne(n, k)
    BY <1>4, <1>13, <2>1, HighestOneExists
  <2>3. IsSignificand(c, k + 1) /\ k \in Nat /\ k + 1 # 0
    BY <1>4, <2>2, ScaledSignificand DEF c
  <2>4. k <= t
    <3> SUFFICES ASSUME k >= t + 1 PROVE FALSE
      BY <1>5, <2>3
    <3> DEFINE i == t + 1
               u == 2 ^ i
               v == 2 ^ k
    <3>1. k \in 0 .. XLEN - 1 /\ v <= n
      BY <2>2 DEF HighestOne
    <3>2. i \in 0 .. k /\ k \in 0 .. XLEN /\ i \in 0 .. XLEN
      BY <1>2, <1>3, <1>5, <3>1
    <3> HIDE DEF i
    <3>3. u <= v /\ u \in Nat /\ v \in Nat
      BY <3>2, Powers
    <3>4. u > n
      BY <1>3, <1>6 DEF i
    <3> HIDE DEF u, v
    <3> QED BY <1>4, <3>1, <3>3, <3>4
  <2> DEFINE p == k + 1
  <2>5. p \in Nat /\ p # 0 /\ p <= t + 1 /\ x + p \in Int /\ x + p <= 2 ^ EXP
    <3> DEFINE E == 2 ^ EXP
    <3>1. E \in Nat /\ AllOnes = E - 1
      BY <1>2
    <3> HIDE DEF E
    <3>2. p \in Nat /\ p # 0 /\ p <= t + 1 /\ x + p <= el + 1 /\ x + p \in Int
      BY <1>5, <2>3, <2>4
    <3>3. x + p <= E
      BY <1>1, <1>5, <3>1, <3>2
    <3> QED BY <3>2, <3>3 DEF E
  <2>6. IsSignificand(c, p) /\ c # 0
    BY <1>9, <1>13, <2>3
  <2>7. Coming(s, c, p, t)
    <3>1. t \in {p - 1, p, p + 1} \/ t > p
      <4> HIDE DEF p
      <4> QED BY <1>5, <2>5
    <3> QED BY <1>3, <1>10, <1>11, <3>1 DEF Coming
  <2>8. GivesSum(a, b, sub, c, x)
    <3> DEFINE h == el - Bias - MAN - d
    <3>1. /\ ExactSum(a, w).n = n /\ ExactSum(a, w).sign = sign /\ ExactSum(a, w).e = h
      BY <1>13, SumInC DEF n, el, d
    <3>2. h \in Int /\ h - (MAN + 1) = x - Bias - MAN
      BY <1>2, <1>5 DEF t
    <3> HIDE DEF h, x
    <3>3. FiniteSum(a, w) = Rounded(sign, n, h)
      BY <1>13, <3>1 DEF FiniteSum
    <3>4. \A s0 : Rounded(s0, n * 2 ^ (MAN + 1), h - (MAN + 1)) = Rounded(s0, n, h)
      BY <1>4, <2>2, <3>2, RoundedScaled
    <3>5. Inexact(c, x - Bias - MAN) => Inexact(n, h)
      BY <1>4, <2>2, <3>2, InexactScaled DEF c
    <3>6. SameInC(c, x - Bias - MAN, ExactSum(a, w).n, ExactSum(a, w).e)
      BY <3>1, <3>2, <3>4, <3>5 DEF SameInC, c
    <3> QED BY <1>9, <1>13, <3>2, <3>3, <3>4, <3>6 DEF GivesSum, n, c
  <2> HIDE DEF p
  <2>9. CASE x + p >= 0
    <3>1. x + p \in 0 .. 2 ^ EXP
      BY <1>2, <2>5, <2>9
    <3>2. IsExact(c, x, p)
      BY <1>5, <1>9, <2>5, <2>6, <3>1 DEF IsExact
    <3>3. Arriving(s, el, c, x, p)
      BY <1>5, <2>7, <3>2 DEF Arriving
    <3> QED BY <1>5, <1>9, <2>8, <3>3 DEF s, el
  <2>10. CASE x + p < 0
    <3>1. IsBelow(c, x, p)
      BY <1>5, <1>9, <2>5, <2>6, <2>10 DEF IsBelow
    <3>2. t > p
      BY <1>5, <2>5, <2>10
    <3>3. Arriving(s, el, c, x, p)
      BY <1>5, <2>6, <2>7, <3>1, <3>2 DEF Arriving
    <3> QED BY <1>5, <1>9, <2>8, <3>3 DEF s, el
  <2> QED BY <2>5, <2>9, <2>10
<1> QED BY <1>12, <1>13

LEMMA SumArrives ==
    ASSUME NEW a, NEW b, IsFlushed(a), IsFlushed(b), NEW sub \in BOOLEAN, AddClass(a, b, sub) = {}
    PROVE  /\ LargeExponent(a, b) \in 0 .. AllOnes
           /\ \E c, x, p : /\ GivesSum(a, b, sub, c, x)
                           /\ Arriving(AddMantissa(a, b, sub, AlignedSmall(a, b)), LargeExponent(a, b),
                                       c, x, p)
<1> DEFINE d == Distance(a, b)
           e == LargeExponent(a, b)
<1>1. d \in 0 .. MAN + 3 /\ e \in 1 .. AllOnes - 1 /\ AllOnes \in Nat
  BY FiniteOperands
<1>2. (d \in {0, 1} \/ d >= 2) /\ e \in 0 .. AllOnes
  <2> HIDE DEF d, e
  <2> QED BY <1>1, WideExponent
<1> QED BY <1>2, FarSumArrives, NearSumArrives

-----------------------------------------------------------------------------
(* The sum of two floats in C.                                             *)

Cancels(a, b, sub) == ExponentOf(a) # 0 /\ IF sub THEN a = b ELSE a = Negated(b)

\* A word and the sum that it stands for.
StandsForSum(word, a, b, sub) ==
    LET value == subnormal_flush(Sum(a, Addend(b, sub)))
    IN  \/ RoundedLike(word, value)
        \/ Cancels(a, b, sub) /\ IsZero(value) /\ word = FloatWord(SignOf(a), 0, 0)

LEMMA WordOfParts ==
    ASSUME NEW v \in Words
    PROVE  v = FloatWord(SignOf(v), 0, Magnitude(v))
<1> DEFINE s == SignOf(v)
           m == Magnitude(v)
           w == FloatWord(s, 0, m)
<1>1. s \in {0, 1} /\ m \in Nat /\ m < 2 ^ (XLEN - 1)
  BY FloatParts
<1> HIDE DEF s, m
<1>2. w \in Words /\ SignOf(w) = s /\ Magnitude(w) = m
  BY <1>1, FloatMade
<1> HIDE DEF w
<1>3. w = v
  BY <1>2, SameParts DEF s, m
<1> QED BY <1>3 DEF w, s, m

LEMMA ZeroWords ==
    /\ 0 = FloatWord(0, 0, 0) /\ Negated(0) = FloatWord(1, 0, 0)
    /\ \A s \in {0, 1} : /\ subnormal_flush(FloatWord(s, 0, 0)) = FloatWord(s, 0, 0)
                         /\ IsZero(FloatWord(s, 0, 0)) /\ FloatWord(s, 0, 0) \in Words
<1>1. 2 ^ (XLEN - 1) \in Nat \ {0} /\ 2 ^ MAN \in Nat \ {0}
  BY FloatPowers
<1>2. 0 = FloatWord(0, 0, 0)
  <2> DEFINE h == 2 ^ (XLEN - 1)
             p == 2 ^ MAN
  <2>1. FloatWord(0, 0, 0) = 0 * h + 0 * p + 0
    BY DEF FloatWord
  <2>2. h \in Nat /\ p \in Nat
    BY <1>1
  <2> HIDE DEF h, p
  <2> QED BY <2>1, <2>2
<1>3. ASSUME NEW s \in {0, 1}
      PROVE  /\ FloatWord(s, 0, 0) \in Words /\ SignOf(FloatWord(s, 0, 0)) = s
             /\ Magnitude(FloatWord(s, 0, 0)) = 0
  <2>1. 0 \in Nat /\ 0 < 2 ^ (XLEN - 1)
    BY <1>1
  <2> QED BY <2>1, FloatMade
<1>4. ASSUME NEW s \in {0, 1}
      PROVE  subnormal_flush(FloatWord(s, 0, 0)) = FloatWord(s, 0, 0) /\ IsZero(FloatWord(s, 0, 0))
  <2>1. 0 \in Nat /\ 0 < 2 ^ (XLEN - 1)
    BY <1>1
  <2>2. subnormal_flush(FloatWord(s, 0, 0)) = FloatWord(s, 0, IF 0 < 2 ^ MAN THEN 0 ELSE 0)
    BY <2>1, FlushedWord
  <2> DEFINE v == FloatWord(s, 0, 0)
  <2>3. v \in Words /\ Magnitude(v) = 0
    BY <1>3
  <2> HIDE DEF v
  <2>4. IsZero(v)
    BY <2>3, FloatClasses
  <2> QED BY <2>2, <2>4 DEF v
<1>5. Negated(0) = FloatWord(1, 0, 0)
  <2> DEFINE v == FloatWord(0, 0, 0)
  <2>1. SignOf(v) = 0 /\ Magnitude(v) = 0 /\ v = 0
    BY <1>2, <1>3
  <2> HIDE DEF v
  <2>2. SignOf(0) = 0 /\ Magnitude(0) = 0
    BY <2>1
  <2>3. 1 - SignOf(0) = 1
    BY <2>2
  <2> QED BY <2>2, <2>3 DEF Negated
<1> QED BY <1>2, <1>3, <1>4, <1>5

\* Words that are not subnormal stay.
LEMMA SpecialWords ==
    /\ subnormal_flush(QuietNaN) = QuietNaN
    /\ \A s \in {0, 1} : subnormal_flush(FloatWord(s, 0, Infinity)) = FloatWord(s, 0, Infinity)
<1>1. /\ Infinity \in Nat /\ 2 ^ MAN <= Infinity /\ Infinity < 2 ^ (XLEN - 1)
      /\ 2 ^ MAN \in Nat \ {0} /\ 2 ^ (XLEN - 1) \in Nat \ {0} /\ ~(Infinity < 2 ^ MAN)
  <2>1. QuietNaN \in Words
    BY QuietNaNWord
  <2>2. /\ Infinity \in Nat /\ 2 ^ MAN <= Infinity /\ Infinity < 2 ^ (XLEN - 1)
        /\ 2 ^ MAN \in Nat \ {0} /\ 2 ^ (XLEN - 1) \in Nat \ {0}
    BY <2>1, FloatClasses, FloatPowers
  <2> DEFINE p == 2 ^ MAN
  <2>3. p \in Nat /\ p <= Infinity /\ Infinity \in Nat
    BY <2>2
  <2> HIDE DEF p
  <2>4. ~(Infinity < p)
    BY <2>3
  <2> QED BY <2>2, <2>4 DEF p
<1>2. ASSUME NEW s \in {0, 1}
      PROVE  subnormal_flush(FloatWord(s, 0, Infinity)) = FloatWord(s, 0, Infinity)
  <2>1. subnormal_flush(FloatWord(s, 0, Infinity))
          = FloatWord(s, 0, IF Infinity < 2 ^ MAN THEN 0 ELSE Infinity)
    BY <1>1, FlushedWord
  <2> QED BY <1>1, <2>1
\* The product of a NaN is the quiet NaN, flushed.
<1>3. subnormal_flush(QuietNaN) = QuietNaN
  <2> DEFINE v == FloatWord(0, 0, Infinity)
             zero == FloatWord(0, 0, 0)
  <2>1. v \in Words /\ Magnitude(v) = Infinity /\ zero \in Words /\ Magnitude(zero) = 0
    <3>1. 0 \in Nat /\ 0 < 2 ^ (XLEN - 1)
      BY <1>1
    <3> QED BY <1>1, <3>1, FloatMade
  <2> HIDE DEF v, zero
  <2>2. IsFlushed(v) /\ IsFlushed(zero) /\ IsInfinite(v) /\ IsZero(zero)
    BY <1>1, <2>1, FloatClasses DEF IsFlushed
  <2>3. MulClass(zero, v) \intersect NaNs # {}
    BY <2>1, <2>2, ClassOfProduct
  <2>4. subnormal_flush(Product(zero, v)) = QuietNaN
    BY <2>2, <2>3, SpecialValue
  <2>5. Product(zero, v) = QuietNaN
    <3>1. {fpclassify(zero), fpclassify(v)} = {"FP_INFINITE", "FP_ZERO"}
      BY <2>2 DEF IsInfinite, IsZero
    <3>2. ~({fpclassify(zero), fpclassify(v)} \intersect {"FP_NAN", "FP_ZERO"} = {})
      BY <3>1
    <3>3. ~IsNaN(zero) /\ ~IsNaN(v)
      BY <2>2 DEF IsInfinite, IsZero, IsNaN
    <3> QED BY <3>1, <3>2, <3>3 DEF Product
  <2> QED BY <2>4, <2>5
<1> QED BY <1>2, <1>3

LEMMA SumOfNumbers ==
    ASSUME NEW a, NEW b, IsFlushed(a), IsFlushed(b), NEW sub \in BOOLEAN, AddClass(a, b, sub) = {}
    PROVE  Sum(a, Addend(b, sub)) = FiniteSum(a, Addend(b, sub))
<1> DEFINE w == Addend(b, sub)
<1>1. ~IsNaN(a) /\ ~IsNaN(b) /\ ~IsInfinite(a) /\ ~IsInfinite(b)
  BY FiniteOperands
<1>2. (IsNaN(w) <=> IsNaN(b)) /\ (IsInfinite(w) <=> IsInfinite(b))
  BY AddendParts
<1> HIDE DEF w
<1> QED BY <1>1, <1>2 DEF Sum, w

\* A sum is zero only of two words that cancel each other.
LEMMA SumCancels ==
    ASSUME NEW a, NEW b, IsFlushed(a), IsFlushed(b), NEW sub \in BOOLEAN, AddClass(a, b, sub) = {},
           SumSize(a, b, sub) = 0
    PROVE  /\ Cancels(a, b, sub) /\ IsZero(subnormal_flush(Sum(a, Addend(b, sub))))
           /\ AddSign(a, b, sub, AlignedSmall(a, b)) = SignOf(a)
<1> DEFINE w == Addend(b, sub)
           x == LargePart(a, b) * 2 ^ Distance(a, b)
           y == SmallPart(a, b)
           s == IF FirstIsSmall(a, b) THEN SignOf(w) ELSE SignOf(a)
<1>1. /\ x \in Nat /\ ~Adds(a, b, sub) /\ ExponentOf(a) = ExponentOf(b) /\ HiddenOne(a) = HiddenOne(b)
      /\ Adds(a, b, sub) <=> SignOf(a) = SignOf(w)
      /\ AddSign(a, b, sub, AlignedSmall(a, b)) = IF Adds(a, b, sub) \/ x >= y THEN s ELSE 1 - s
  BY SumSigns
<1>2. /\ a \in Words /\ b \in Words /\ w \in Words
      /\ SignOf(b) \in {0, 1} /\ SignOf(w) \in {0, 1} /\ SignOf(a) \in {0, 1}
      /\ SignOf(w) = IF sub THEN 1 - SignOf(b) ELSE SignOf(b)
  BY AddendParts, FloatParts DEF IsFlushed
<1>3. ExponentOf(a) # 0 /\ y \in Nat
  <2>1. /\ LargeExponent(a, b) \in 1 .. AllOnes - 1 /\ SmallPart(a, b) \in 0 .. 2 * 2 ^ MAN - 1
        /\ AllOnes \in Nat
    BY FiniteOperands
  <2>2. LargeExponent(a, b) # 0 /\ y \in Nat
    BY <2>1
  <2> QED BY <1>1, <2>2 DEF LargeExponent, LargeOperand
<1>4. s = SignOf(a)
  <2>1. ExponentOf(b) \in 0 .. AllOnes /\ AllOnes \in Nat
    BY <1>2, FloatParts, FloatPowers
  <2>2. ~(ExponentOf(a) < ExponentOf(b))
    BY <1>1, <2>1
  <2> QED BY <2>2 DEF FirstIsSmall
<1>5. x >= y
  <2>1. 0 = IF x >= y THEN x - y ELSE y - x
    BY <1>1 DEF SumSize
  <2> HIDE DEF x, y
  <2> QED BY <1>1, <1>3, <2>1
<1>6. Magnitude(a) = Magnitude(b)
  <2> DEFINE P == 2 ^ MAN
             m == MantissaOf(a)
             n == MantissaOf(b)
  <2>1. /\ Magnitude(a) = P * ExponentOf(a) + m /\ Magnitude(b) = P * ExponentOf(b) + n
        /\ m \in 0 .. P - 1 /\ n \in 0 .. P - 1 /\ P \in Nat
    BY <1>2, FloatParts, FloatPowers
  <2>2. P + m = P + n
    BY <1>1 DEF HiddenOne
  <2> HIDE DEF P, m, n
  <2>3. m = n
    BY <2>1, <2>2
  <2> QED BY <1>1, <2>1, <2>3
<1>7. Cancels(a, b, sub)
  <2> DEFINE k == SignOf(a)
             l == SignOf(b)
  <2>3. k # (IF sub THEN 1 - l ELSE l) /\ k \in {0, 1} /\ l \in {0, 1}
    BY <1>1, <1>2
  <2> HIDE DEF k, l
  <2>4. (sub => k = l) /\ (~sub => k = 1 - l)
    BY <2>3
  <2> USE DEF k, l
  <2>1. CASE sub
    <3>1. SignOf(a) = SignOf(b)
      BY <2>1, <2>4
    <3>2. a = b
      BY <1>2, <1>6, <3>1, SameParts
    <3> QED BY <1>3, <2>1, <3>2 DEF Cancels
  <2>2. CASE ~sub
    <3>1. SignOf(a) = 1 - SignOf(b)
      BY <2>2, <2>4
    <3>2. a = FloatWord(SignOf(a), 0, Magnitude(a))
      BY <1>2, WordOfParts
    <3>3. a = Negated(b)
      BY <1>6, <3>1, <3>2 DEF Negated
    <3> QED BY <1>3, <2>2, <3>3 DEF Cancels
  <2> QED BY <2>1, <2>2
<1>8. IsZero(subnormal_flush(Sum(a, w)))
  <2>1. ExactSum(a, w).n = 0
    BY SumInC
  <2>2. FiniteSum(a, w) \in {0, Negated(0)}
    BY <2>1 DEF FiniteSum
  <2>3. \E z \in {0, 1} : FiniteSum(a, w) = FloatWord(z, 0, 0)
    BY <2>2, ZeroWords
  <2>4. Sum(a, w) = FiniteSum(a, w)
    BY SumOfNumbers
  <2> QED BY <2>3, <2>4, ZeroWords
<1> HIDE DEF x, y, s
<1>9. AddSign(a, b, sub, AlignedSmall(a, b)) = SignOf(a)
  BY <1>1, <1>4, <1>5
<1> QED BY <1>7, <1>8, <1>9 DEF w

\* The sum of C that is to be normalized.
LEMMA SumGiven ==
    ASSUME NEW a, NEW b, IsFlushed(a), IsFlushed(b), NEW sub \in BOOLEAN, AddClass(a, b, sub) = {},
           NEW c, NEW x, GivesSum(a, b, sub, c, x),
           NEW sign, sign = AddSign(a, b, sub, AlignedSmall(a, b)), NEW word,
           c # 0 => RoundedLike(word, subnormal_flush(Rounded(sign, c, x - Bias - MAN))),
           c = 0 => word = FloatWord(sign, 0, 0)
    PROVE  StandsForSum(word, a, b, sub)
<1>1. Sum(a, Addend(b, sub)) = FiniteSum(a, Addend(b, sub))
  BY SumOfNumbers
<1>2. CASE c = 0
  <2>1. SumSize(a, b, sub) = 0
    BY <1>2 DEF GivesSum
  <2>2. /\ Cancels(a, b, sub) /\ IsZero(subnormal_flush(Sum(a, Addend(b, sub))))
        /\ AddSign(a, b, sub, AlignedSmall(a, b)) = SignOf(a)
    BY <2>1, SumCancels
  <2> QED BY <1>2, <2>2 DEF StandsForSum
<1>3. CASE c # 0
  <2>1. FiniteSum(a, Addend(b, sub)) = Rounded(sign, c, x - Bias - MAN)
    BY <1>3 DEF GivesSum
  <2> QED BY <1>1, <1>3, <2>1 DEF StandsForSum
<1> QED BY <1>2, <1>3

\* Two zeros have the exact sum 0.
LEMMA SumOfZeros ==
    ASSUME NEW a, NEW w, IsFlushed(a), IsFlushed(w), IsZero(a), IsZero(w)
    PROVE  ExactSum(a, w).n = 0
<1>1. ASSUME NEW v \in {a, w}
      PROVE  Significand(v) = 0 /\ SignedSignificand(v) = 0 /\ Scale(v) = 1 - Bias - MAN
  <2>1. IsFlushed(v) /\ v \in Words /\ IsZero(v)
    BY <1>1 DEF IsFlushed
  <2>2. ExponentOf(v) = 0 /\ MantissaOf(v) = 0
    BY <2>1, KindOfClass, SpecialNumbers
  <2>3. Significand(v) = 0
    BY <2>2 DEF Significand
  <2>4. SignedSignificand(v) = 0
    <3> DEFINE n == Significand(v)
    <3>1. SignedSignificand(v) = n \/ SignedSignificand(v) = -n
      BY DEF SignedSignificand
    <3>2. n = 0
      BY <2>3
    <3> HIDE DEF n
    <3> QED BY <3>1, <3>2
  <2> QED BY <2>2, <2>3, <2>4 DEF Scale
<1>2. ExactSum(a, w).n = 0
  <2> DEFINE k == Scale(a) - Scale(w)
             d == Min({k, MAN + 3})
             D == 2 ^ d
  <2>1. Scale(a) = Scale(w) /\ Scale(a) \in Int /\ Scale(a) >= Scale(w) /\ k = 0
    BY <1>1, ExponentSizes
  <2>2. d = 0
    <3>1. Min({0, MAN + 3}) = 0
      BY MinimumOf, ExponentSizes
    <3> QED BY <2>1, <3>1
  <2>3. D = 1
    BY <2>2, FloatPowers
  <2>4. SignedSignificand(a) * D + SignedSignificand(w) = 0
    <3> HIDE DEF D
    <3> QED BY <1>1, <2>3
  <2> QED BY <2>1, <2>4 DEF ExactSum
<1> QED BY <1>2

\* The sums with a class.
LEMMA ClassifiedSum ==
    ASSUME NEW a, NEW b, IsFlushed(a), IsFlushed(b), NEW sub \in BOOLEAN
    PROVE  LET class == AddClass(a, b, sub)
               value == subnormal_flush(Sum(a, Addend(b, sub)))
               sign == AddSign(a, b, sub, AlignedSmall(a, b))
           IN  /\ class \intersect NaNs # {} => value = QuietNaN
               /\ class \intersect NaNs = {} /\ class \intersect Infinities # {} =>
                    value = FloatWord(sign, 0, Infinity)
               /\ class # {} /\ class \intersect NaNs = {} /\ class \intersect Infinities = {} =>
                    /\ class \intersect Zeros # {}
                    /\ value = FloatWord(IF "neg_zero" \in class THEN 1 ELSE 0, 0, 0)
               /\ AddFlags(a, b) # {} => class # {}
               /\ AddFlags(a, b) \subseteq {"nv"}
<1> DEFINE w == Addend(b, sub)
           class == AddClass(a, b, sub)
           value == subnormal_flush(Sum(a, w))
           sign == AddSign(a, b, sub, AlignedSmall(a, b))
           invalid == IsInfinite(a) /\ IsInfinite(b) /\ SignOf(a) # SignOf(w)
<1>1. /\ a \in Words /\ b \in Words /\ w \in Words /\ IsFlushed(w)
      /\ SignOf(b) \in {0, 1} /\ SignOf(w) \in {0, 1} /\ SignOf(a) \in {0, 1}
      /\ SignOf(w) = IF sub THEN 1 - SignOf(b) ELSE SignOf(b)
      /\ Magnitude(w) = Magnitude(b) /\ ExponentOf(w) = ExponentOf(b)
      /\ IsNaN(w) <=> IsNaN(b)
      /\ IsInfinite(w) <=> IsInfinite(b)
      /\ IsZero(w) <=> IsZero(b)
  BY AddendParts, FloatParts DEF IsFlushed
<1>2. /\ class \intersect NaNs # {} <=> IsNaN(a) \/ IsNaN(b) \/ invalid
      /\ class \intersect NaNs = {} =>
           /\ class \intersect Infinities # {} <=> IsInfinite(a) \/ IsInfinite(b)
           /\ class = {} <=> ~IsInfinite(a) /\ ~IsInfinite(b) /\ ~(IsZero(a) /\ IsZero(b))
           /\ class \intersect Zeros # {} <=> IsZero(a) /\ IsZero(b)
           /\ "neg_zero" \in class <=> IsZero(a) /\ IsZero(b) /\ SignOf(a) = 1 /\ SignOf(w) = 1
  BY <1>1, ClassOfSum
<1>3. /\ IsInfinite(a) <=> Magnitude(a) = Infinity
      /\ IsInfinite(w) <=> Magnitude(w) = Infinity
  BY <1>1, FloatClasses
<1>4. IsInfinite(a) /\ IsInfinite(w) => (a = w <=> SignOf(a) = SignOf(w))
  BY <1>1, <1>3, SameParts
<1>5. Sum(a, w) =
        CASE IsNaN(a) \/ IsNaN(w) -> QuietNaN
          [] IsInfinite(a) /\ IsInfinite(w) /\ a # w -> QuietNaN
          [] IsInfinite(a) /\ ~IsNaN(w) /\ (IsInfinite(w) => a = w) -> a
          [] IsInfinite(w) /\ ~IsNaN(a) /\ ~IsInfinite(a) -> w
          [] OTHER -> FiniteSum(a, w)
  BY DEF Sum
<1>6. ~(IsNaN(a) /\ IsInfinite(a)) /\ ~(IsNaN(w) /\ IsInfinite(w))
  BY DEF IsNaN, IsInfinite
<1> HIDE DEF w
<1>7. ASSUME class \intersect NaNs # {} PROVE value = QuietNaN
  <2>1. Sum(a, w) = QuietNaN
    BY <1>1, <1>2, <1>4, <1>5, <1>6, <1>7
  <2> QED BY <2>1, SpecialWords
<1>8. ASSUME class \intersect NaNs = {}, class \intersect Infinities # {}
      PROVE  value = FloatWord(sign, 0, Infinity)
  <2>1. ~IsNaN(a) /\ ~IsNaN(w) /\ ~invalid /\ (IsInfinite(a) \/ IsInfinite(w))
    BY <1>1, <1>2, <1>8
  <2>2. Sum(a, w) = (IF IsInfinite(a) THEN a ELSE w)
    BY <1>1, <1>4, <1>5, <2>1
  <2>3. ASSUME NEW v \in {a, w}, ~IsNaN(v), ~IsInfinite(v)
        PROVE  ExponentOf(v) < AllOnes
    <3>1. IsFlushed(v) /\ v \in Words
      BY <1>1
    <3>2. /\ ClassOf(v) \in Zeros <=> IsZero(v)
          /\ ClassOf(v) \in Infinities <=> IsInfinite(v)
          /\ ClassOf(v) \in NaNs <=> IsNaN(v)
      BY <3>1, KindOfClass
    <3>3. /\ ExponentOf(v) \in 0 .. AllOnes /\ AllOnes \in Nat /\ AllOnes # 0
          /\ IsZero(v) => ExponentOf(v) = 0
          /\ ~IsZero(v) => ExponentOf(v) # AllOnes
      <4>1. AllOnes # 0 /\ AllOnes \in Nat
        BY ExponentSizes
      <4> QED BY <2>3, <3>1, <3>2, <4>1, SpecialNumbers DEF IsSpecial
    <3> QED BY <3>3
  <2>4. ASSUME NEW v \in {a, w}, IsInfinite(v)
        PROVE  ExponentOf(v) = AllOnes /\ v = FloatWord(SignOf(v), 0, Infinity)
    <3>1. IsFlushed(v) /\ v \in Words
      BY <1>1
    <3>2. ExponentOf(v) = AllOnes
      BY <2>4, <3>1, KindOfClass, SpecialNumbers
    <3> QED BY <1>3, <2>4, <3>1, <3>2, WordOfParts
  <2>5. sign = SignOf(IF IsInfinite(a) THEN a ELSE w)
    <3>1. AllOnes \in Nat
      BY ExponentSizes
    <3>2. Adds(a, b, sub) <=> SignOf(a) = SignOf(w)
      BY <1>1 DEF Adds
    <3>3. CASE IsInfinite(a) /\ IsInfinite(w)
      <4>1. SignOf(a) = SignOf(w)
        BY <1>1, <2>1, <3>3
      <4> QED BY <3>2, <3>3, <4>1 DEF AddSign
    <3>4. CASE IsInfinite(a) /\ ~IsInfinite(w)
      <4>1. ExponentOf(a) = AllOnes /\ ExponentOf(b) < AllOnes
        BY <1>1, <2>1, <2>3, <2>4, <3>4
      <4>2. ExponentOf(b) \in Int
        BY <1>1, FloatParts, <3>1
      <4>3. ExponentOf(a) # ExponentOf(b) /\ ~FirstIsSmall(a, b)
        BY <3>1, <4>1, <4>2 DEF FirstIsSmall
      <4> QED BY <3>4, <4>3 DEF AddSign
    <3>5. CASE ~IsInfinite(a)
      <4>1. ExponentOf(b) = AllOnes /\ ExponentOf(a) < AllOnes
        BY <1>1, <2>1, <2>3, <2>4, <3>5
      <4>2. ExponentOf(a) \in Int
        BY <1>1, FloatParts, <3>1
      <4>3. ExponentOf(a) # ExponentOf(b) /\ FirstIsSmall(a, b)
        BY <3>1, <4>1, <4>2 DEF FirstIsSmall
      <4>4. sign = IF Adds(a, b, sub) THEN SignOf(a) ELSE 1 - SignOf(a)
        BY <4>3 DEF AddSign
      <4>5. SignOf(a) # SignOf(w) => 1 - SignOf(a) = SignOf(w)
        BY <1>1
      <4> HIDE DEF sign
      <4> QED BY <3>2, <3>5, <4>4, <4>5
    <3> QED BY <3>3, <3>4, <3>5
  <2> DEFINE v == IF IsInfinite(a) THEN a ELSE w
  <2>6. v \in {a, w} /\ IsInfinite(v) /\ SignOf(v) \in {0, 1}
    BY <1>1, <2>1
  <2>7. v = FloatWord(SignOf(v), 0, Infinity)
    BY <2>4, <2>6
  <2>8. Sum(a, w) = v /\ sign = SignOf(v)
    BY <2>2, <2>5
  <2> HIDE DEF v, sign
  <2> QED BY <2>6, <2>7, <2>8, SpecialWords
<1>9. ASSUME class # {}, class \intersect NaNs = {}, class \intersect Infinities = {}
      PROVE  /\ class \intersect Zeros # {}
             /\ value = FloatWord(IF "neg_zero" \in class THEN 1 ELSE 0, 0, 0)
  <2>1. /\ ~IsNaN(a) /\ ~IsNaN(w) /\ ~IsInfinite(a) /\ ~IsInfinite(w) /\ IsZero(a) /\ IsZero(w)
        /\ class \intersect Zeros # {}
        /\ "neg_zero" \in class <=> SignOf(a) = 1 /\ SignOf(w) = 1
    BY <1>1, <1>2, <1>9
  <2>2. Sum(a, w) = FiniteSum(a, w)
    BY <1>5, <2>1
  <2>4. ExactSum(a, w).n = 0
    BY <1>1, <2>1, SumOfZeros
  <2>5. FiniteSum(a, w) = (IF SignOf(a) = 1 /\ SignOf(w) = 1 THEN Negated(0) ELSE 0)
    BY <2>4 DEF FiniteSum
  <2>6. FiniteSum(a, w) = FloatWord(IF "neg_zero" \in class THEN 1 ELSE 0, 0, 0)
    BY <2>1, <2>5, ZeroWords
  <2> DEFINE z == IF "neg_zero" \in class THEN 1 ELSE 0
  <2>7. z \in {0, 1}
    OBVIOUS
  <2>8. value = FloatWord(z, 0, 0)
    BY <2>2, <2>6, <2>7, ZeroWords
  <2> QED BY <2>1, <2>8
<1>10. /\ AddFlags(a, b) # {} => class # {}
       /\ AddFlags(a, b) \subseteq {"nv"}
  <2>1. ASSUME AddFlags(a, b) # {} PROVE class # {}
    <3>1. IsInfinite(a) /\ IsInfinite(b)
      BY <1>1, <2>1, KindOfClass DEF AddFlags
    <3> HIDE DEF class
    <3>2. class = {} => class \intersect NaNs = {} /\ class \intersect Infinities = {}
      OBVIOUS
    <3> QED BY <1>2, <3>1, <3>2
  <2> QED BY <2>1 DEF AddFlags
<1> HIDE DEF class, value, sign
<1> QED BY <1>7, <1>8, <1>9, <1>10 DEF class, value, sign, w

-----------------------------------------------------------------------------
(* The normalizer with a sum.                                              *)

SumClass == AddClass(fpu.a, fpu.b, fpu.sub)
SumFlags == AddFlags(fpu.a, fpu.b)
SumSign == AddSign(fpu.a, fpu.b, fpu.sub, AlignedSmall(fpu.a, fpu.b))
SumAligned ==
    adder.exp = LargeExponent(fpu.a, fpu.b) /\ adder.aligned = AlignedSmall(fpu.a, fpu.b)
SumOperands == IsFlushed(fpu.a) /\ IsFlushed(fpu.b) /\ fpu.sub \in BOOLEAN

\* A sum of numbers on the way to its place, or below the smallest exponent.
Normalizes(r, c, x, p) ==
    /\ GivesSum(fpu.a, fpu.b, fpu.sub, c, x)
    /\ (IsExact(c, x, p) /\ Underway(r, c, x, p)) \/ (IsBelow(c, x, p) /\ Sinking(r, c, x, p))
Summing(r) ==
    /\ r.state \notin {"S_IDLE", "S_PREPARE_I2F", "S_CHECK_I2F"} /\ r.sign = SumSign
    /\ r.state = "S_PREPARE_NORM" =>
         /\ r.cnt = LargeExponent(fpu.a, fpu.b) /\ r.class = SumClass /\ r.flags = SumFlags
         /\ ~r.norm_r /\ ~r.of /\ ~r.uf
    /\ r.state # "S_PREPARE_NORM" =>
         IF SumClass = {} THEN \E c, x, p : Normalizes(r, c, x, p)
         ELSE r.state = "S_FINALIZE" /\ r.class = SumClass /\ r.flags = SumFlags

LEMMA PrepareSums ==
    ASSUME NormalizerTypes, ControlTypes, fpu.op = "addsub", SumOperands, SumAligned, Summing(norm),
           norm.state = "S_PREPARE_NORM", NEW r, Follows(r)
    PROVE  Summing(r)
<1> DEFINE E == LargeExponent(fpu.a, fpu.b)
           next == IF NeedsNoShift THEN "S_FINALIZE" ELSE "S_PREPARE_SHIFT"
           s == NormalizerMantissa
           n == [norm EXCEPT !.sreg = s, !.state = next]
<1>1. /\ norm.cnt = E /\ norm.class = SumClass /\ norm.flags = SumFlags
      /\ ~norm.norm_r /\ ~norm.of /\ ~norm.uf /\ norm.sign = SumSign
  BY DEF Summing
<1>2. NormalizerStep = n
  BY DEF NormalizerStep
<1>3. /\ SumFlags # {} => SumClass # {}
      /\ SumFlags \subseteq {"nv"}
  BY ClassifiedSum DEF SumOperands, SumClass, SumFlags
<1>4. NeedsNoShift <=> SumClass # {}
  BY <1>1, <1>3 DEF NeedsNoShift
<1>5. s = AddMantissa(fpu.a, fpu.b, fpu.sub, AlignedSmall(fpu.a, fpu.b))
  BY DEF NormalizerMantissa, SumAligned
<1> HIDE DEF s, E
<1>6. /\ n.state = next /\ n.class = norm.class /\ n.sign = norm.sign /\ n.flags = norm.flags
      /\ n.cnt = norm.cnt /\ n.sreg = s /\ n.norm_r = norm.norm_r
  BY DEF NormalizerTypes, NormalizerRecord
<1> HIDE DEF n
<1>7. /\ r.state = next /\ r.class = SumClass /\ r.sign = SumSign /\ r.flags = SumFlags
      /\ r.cnt = E /\ r.sreg = s /\ ~r.norm_r
  BY <1>1, <1>2, <1>6 DEF Follows
<1>8. /\ E \in 0 .. AllOnes /\ E \in 0 .. 2 ^ EXP /\ E # 2 ^ EXP /\ AllOnes \in Nat /\ E <= AllOnes
  <2> DEFINE M == 2 ^ EXP
  <2>1. M \in Nat \ {0} /\ AllOnes = M - 1 /\ AllOnes \in Nat
    BY FloatPowers DEF AllOnes
  <2>2. E \in 0 .. AllOnes
    <3>1. fpu.a \in Words /\ fpu.b \in Words
      BY DEF ControlTypes
    <3> QED BY <3>1, FloatParts DEF E, LargeExponent, LargeOperand
  <2> HIDE DEF M
  <2>3. E \in 0 .. M /\ E # M /\ E <= AllOnes
    BY <2>1, <2>2
  <2> QED BY <2>1, <2>2, <2>3 DEF M
<1>9. ~r.of /\ ~r.uf
  <2>1. norm.cnt \div 2 ^ (EXP - 1) # 2 /\ norm.cnt \div 2 ^ (EXP - 1) # 3
    BY <1>1, <1>8, HighestBits
  <2> QED BY <1>1, <2>1 DEF Follows
<1>10. CASE SumClass = {}
  <2>1. next = "S_PREPARE_SHIFT" /\ r.class = {} /\ r.flags = {}
    BY <1>3, <1>4, <1>7, <1>10
  <2>2. \E c, x, p : GivesSum(fpu.a, fpu.b, fpu.sub, c, x) /\ Arriving(s, E, c, x, p)
    BY <1>5, <1>10, SumArrives DEF SumOperands, SumClass, E
  <2>3. PICK c, x, p : GivesSum(fpu.a, fpu.b, fpu.sub, c, x) /\ Arriving(s, E, c, x, p)
    BY <2>2
  <2>4. Watched(r)
    BY <1>7, <1>8, <1>9 DEF Watched
  <2>5. CASE IsExact(c, x, p) /\ \E t : E = x + t /\ Coming(s, c, p, t)
    <3>1. Underway(r, c, x, p)
      BY <1>7, <1>8, <1>9, <2>1, <2>4, <2>5 DEF Underway
    <3>2. Normalizes(r, c, x, p)
      BY <2>3, <2>5, <3>1 DEF Normalizes
    <3> QED BY <1>7, <1>10, <2>1, <3>2 DEF Summing
  <2>6. CASE IsBelow(c, x, p) /\ IF c = 0 THEN s = 0 ELSE \E t : E = x + t /\ t > p /\ Coming(s, c, p, t)
    <3>1. SinkingAt(r, c, x, p)
      BY <1>7, <1>8, <2>6 DEF SinkingAt
    <3>2. Sinking(r, c, x, p)
      BY <1>7, <1>9, <2>1, <3>1 DEF Sinking
    <3>3. Normalizes(r, c, x, p)
      BY <2>3, <2>6, <3>2 DEF Normalizes
    <3> QED BY <1>7, <1>10, <2>1, <3>3 DEF Summing
  <2> QED BY <2>3, <2>5, <2>6 DEF Arriving
<1>11. CASE SumClass # {}
  <2>1. next = "S_FINALIZE"
    BY <1>4, <1>11
  <2> QED BY <1>7, <1>11, <2>1 DEF Summing
<1> QED BY <1>10, <1>11

\* One period of the normalizer with a sum.
LEMMA SumSteps ==
    ASSUME NormalizerTypes, ControlTypes, fpu.op = "addsub", fpu.frm = 0, SumOperands,
           norm.state = "S_PREPARE_NORM" => SumAligned, Summing(norm), NEW r, Follows(r)
    PROVE  /\ norm.state # "S_FINALIZE" => Summing(r)
           /\ norm.state = "S_FINALIZE" => r.result = FinalWord /\ r.state = "S_IDLE"
<1>1. CASE norm.state = "S_PREPARE_NORM"
  BY <1>1, PrepareSums
<1>2. CASE norm.state = "S_FINALIZE"
  <2>1. NormalizerStep = [norm EXCEPT !.result = FinalWord, !.flags = FinalFlags, !.state = "S_IDLE"]
    BY <1>2 DEF NormalizerStep
  <2>2. NormalizerStep.result = FinalWord /\ NormalizerStep.state = "S_IDLE"
    BY <2>1 DEF NormalizerTypes, NormalizerRecord
  <2> QED BY <1>2, <2>2 DEF Follows
<1>3. CASE norm.state \notin {"S_PREPARE_NORM", "S_FINALIZE"}
  <2>1. SumClass = {}
    BY <1>3 DEF Summing
  <2>2. PICK c, x, p : Normalizes(norm, c, x, p)
    BY <1>3, <2>1 DEF Summing
  <2>3. norm.state \in {"S_PREPARE_SHIFT", "S_NORMALIZE_BUSY", "S_ROUND", "S_CHECK"}
    BY <1>3 DEF Summing, NormalizerTypes, NormalizerRecord
  <2>4. /\ Normalizes(r, c, x, p) /\ r.sign = norm.sign
        /\ r.state \in {"S_PREPARE_SHIFT", "S_NORMALIZE_BUSY", "S_ROUND", "S_CHECK", "S_FINALIZE"}
    <3>1. CASE IsExact(c, x, p) /\ Underway(norm, c, x, p)
      BY <2>2, <2>3, <3>1, UnderwayStep DEF Normalizes
    <3>2. CASE IsBelow(c, x, p) /\ Sinking(norm, c, x, p)
      BY <2>2, <2>3, <3>2, SinkingStep DEF Normalizes
    <3> QED BY <2>2, <3>1, <3>2 DEF Normalizes
  <2>5. norm.sign = SumSign
    BY DEF Summing
  <2> QED BY <1>3, <2>1, <2>4, <2>5 DEF Summing
<1> QED BY <1>1, <1>2, <1>3

\* It starts with a sum.
LEMMA SumTakes ==
    ASSUME NormalizerTypes, fpu.op = "addsub", norm.state = "S_IDLE",
           adder.state = "DONE" => SumAligned, NEW r, Follows(r)
    PROVE  /\ r.state # "S_IDLE" => adder.state = "DONE" /\ Summing(r)
           /\ r.result = norm.result
<1> DEFINE idle == [norm EXCEPT !.norm_r = FALSE, !.rounded = FALSE]
           cnt == adder.exp
           sign == AddSign(fpu.a, fpu.b, fpu.sub, adder.aligned)
           class == SumClass
           flags == SumFlags
           n == [idle EXCEPT !.state = "S_PREPARE_NORM", !.cnt = cnt, !.sign = sign, !.class = class,
                             !.flags = flags]
<1>1. NormalizerStep = IF adder.state = "DONE" THEN n ELSE idle
  <2>1. NormalizerInput = [state |-> "S_PREPARE_NORM", cnt |-> cnt, sign |-> sign, class |-> class,
                           flags |-> flags]
    BY DEF NormalizerInput, SumClass, SumFlags
  <2>2. NormalizerStarts <=> adder.state = "DONE"
    BY DEF NormalizerStarts
  <2> QED BY <2>1, <2>2 DEF NormalizerStep
<1>2. /\ idle.state = "S_IDLE" /\ idle.result = norm.result /\ ~idle.norm_r
      /\ {"state", "norm_r", "cnt", "cnt_pre", "of", "uf", "rounded", "sign", "class", "flags",
          "sreg", "left", "result", "done"} \subseteq DOMAIN idle
  BY DEF NormalizerTypes, NormalizerRecord
<1> HIDE DEF idle, cnt, sign, class, flags
<1>3. /\ n.state = "S_PREPARE_NORM" /\ n.cnt = cnt /\ n.sign = sign /\ n.class = class
      /\ n.flags = flags /\ ~n.norm_r /\ n.result = norm.result
  BY <1>2
<1> HIDE DEF n
<1>4. CASE adder.state # "DONE"
  BY <1>1, <1>2, <1>4 DEF Follows
<1>5. CASE adder.state = "DONE"
  <2>1. /\ r.state = "S_PREPARE_NORM" /\ r.cnt = cnt /\ r.sign = sign /\ r.class = class
        /\ r.flags = flags /\ ~r.norm_r /\ r.result = norm.result /\ ~r.of /\ ~r.uf
    BY <1>1, <1>3, <1>5 DEF Follows
  <2>2. cnt = LargeExponent(fpu.a, fpu.b) /\ sign = SumSign
    BY <1>5 DEF SumAligned, SumSign, cnt, sign
  <2> QED BY <1>5, <2>1, <2>2 DEF Summing, class, flags
<1> QED BY <1>4, <1>5

\* The word that the normalizer ends with stands for the sum of C.
LEMMA FinalSums ==
    ASSUME NormalizerTypes, SumOperands, Summing(norm), norm.state = "S_FINALIZE"
    PROVE  StandsForSum(FinalWord, fpu.a, fpu.b, fpu.sub)
<1> DEFINE value == subnormal_flush(Sum(fpu.a, Addend(fpu.b, fpu.sub)))
<1>1. norm.sign = SumSign /\ norm.sign \in {0, 1}
  BY DEF Summing, NormalizerTypes, NormalizerRecord
<1>2. CASE SumClass = {}
  <2>1. PICK c, x, p : Normalizes(norm, c, x, p)
    BY <1>2 DEF Summing
  <2>2. /\ c # 0 => RoundedLike(FinalWord, subnormal_flush(Rounded(SumSign, c, x - Bias - MAN)))
        /\ c = 0 => FinalWord = FloatWord(SumSign, 0, 0)
    <3>1. CASE IsExact(c, x, p) /\ Underway(norm, c, x, p)
      <4>1. c # 0
        BY <3>1, ExactTyped
      <4> QED BY <1>1, <3>1, <4>1, FinalRounded
    <3>2. CASE IsBelow(c, x, p) /\ Sinking(norm, c, x, p)
      BY <1>1, <3>2, FinalSunk
    <3> QED BY <2>1, <3>1, <3>2 DEF Normalizes
  <2>3. GivesSum(fpu.a, fpu.b, fpu.sub, c, x)
    BY <2>1 DEF Normalizes
  <2> QED BY <1>2, <2>2, <2>3, SumGiven DEF SumOperands, SumClass, SumSign
<1>3. CASE SumClass # {}
  <2>1. norm.class = SumClass /\ norm.flags = SumFlags
    BY <1>3 DEF Summing
  <2>2. /\ SumClass \intersect NaNs # {} => value = QuietNaN
        /\ SumClass \intersect NaNs = {} /\ SumClass \intersect Infinities # {} =>
             value = FloatWord(SumSign, 0, Infinity)
        /\ SumClass # {} /\ SumClass \intersect NaNs = {} /\ SumClass \intersect Infinities = {} =>
             /\ SumClass \intersect Zeros # {}
             /\ value = FloatWord(IF "neg_zero" \in SumClass THEN 1 ELSE 0, 0, 0)
        /\ SumFlags \subseteq {"nv"}
    BY ClassifiedSum DEF SumOperands, SumClass, SumFlags, SumSign
  <2>3. FinalWord =
          IF norm.class \intersect NaNs # {} THEN QuietNaN
          ELSE IF norm.class \intersect Infinities # {} \/ "of" \in norm.flags
               THEN FloatWord(SumSign, 0, Infinity)
          ELSE IF norm.class \intersect Zeros # {}
               THEN FloatWord(IF "neg_zero" \in norm.class THEN 1 ELSE 0, 0, 0)
          ELSE IF "uf" \in norm.flags \/ Upper = 0 THEN FloatWord(SumSign, 0, 0)
          ELSE FloatWord(SumSign, norm.cnt % 2 ^ EXP, Lower)
    BY <1>1 DEF FinalWord
  <2>4. "of" \notin norm.flags
    BY <2>1, <2>2
  <2> HIDE DEF value
  <2>5. FinalWord = value
    <3>1. CASE SumClass \intersect NaNs # {}
      BY <2>1, <2>2, <2>3, <3>1
    <3>2. CASE SumClass \intersect NaNs = {} /\ SumClass \intersect Infinities # {}
      BY <2>1, <2>2, <2>3, <3>2
    <3>3. CASE SumClass \intersect NaNs = {} /\ SumClass \intersect Infinities = {}
      BY <1>3, <2>1, <2>2, <2>3, <2>4, <3>3
    <3> QED BY <3>1, <3>2, <3>3
  <2> QED BY <2>5 DEF StandsForSum, RoundedLike, value
<1> QED BY <1>2, <1>3

-----------------------------------------------------------------------------
(* The adder: how it aligns the smaller operand.                           *)

\* The smaller mantissa when the exponent is e; it ends as a sticky bit.
Alignment(a, b, e) ==
    LET d == e - SmallExponent(a, b)
    IN  IF SmallExponent(a, b) = 0 THEN 0
        ELSE Sticky(8 * HiddenOne(SmallOperand(a, b)), 2 * 2 ^ (IF d <= MAN + 3 THEN d ELSE MAN + 3))

LEMMA OperandExponents ==
    ASSUME NEW a, NEW b, IsFlushed(a), IsFlushed(b)
    PROVE  /\ a \in Words /\ b \in Words
           /\ LargeExponent(a, b) \in 0 .. AllOnes /\ SmallExponent(a, b) \in 0 .. LargeExponent(a, b)
           /\ AllOnes \in Nat /\ AllOnes < 2 ^ EXP /\ 2 ^ EXP \in Nat \ {0}
           /\ HiddenOne(SmallOperand(a, b)) \in 0 .. 2 * 2 ^ MAN - 1
           /\ {ClassOf(a), ClassOf(b)} \intersect Zeros # {} <=> SmallExponent(a, b) = 0
<1> DEFINE x == ExponentOf(a)
           y == ExponentOf(b)
<1>1. /\ a \in Words /\ b \in Words /\ x \in 0 .. AllOnes /\ y \in 0 .. AllOnes /\ AllOnes \in Nat
      /\ AllOnes = 2 ^ EXP - 1 /\ 2 ^ EXP \in Nat \ {0} /\ AllOnes # 0
  BY FloatParts, FloatPowers DEF IsFlushed, AllOnes
<1>2. /\ LargeExponent(a, b) = IF x < y THEN y ELSE x
      /\ SmallExponent(a, b) = IF x < y THEN x ELSE y
  BY DEF LargeExponent, SmallExponent, LargeOperand, SmallOperand, FirstIsSmall
<1>3. ASSUME NEW v, IsFlushed(v) PROVE ClassOf(v) \in Zeros <=> ExponentOf(v) = 0
  <2>1. CASE ClassOf(v) \in Infinities \/ ClassOf(v) \in NaNs
    <3>1. ExponentOf(v) = AllOnes /\ ClassOf(v) \notin Zeros
      BY <1>3, <2>1, SpecialNumbers DEF Infinities, NaNs, Zeros
    <3> QED BY <1>1, <3>1
  <2>2. CASE ClassOf(v) \notin Infinities /\ ClassOf(v) \notin NaNs
    BY <1>3, <2>2, SpecialNumbers DEF IsSpecial
  <2> QED BY <2>1, <2>2
<1>4. HiddenOne(SmallOperand(a, b)) \in 0 .. 2 * 2 ^ MAN - 1
  <2> DEFINE P == 2 ^ MAN
             m == MantissaOf(SmallOperand(a, b))
  <2>1. m \in 0 .. P - 1 /\ P \in Nat \ {0}
    BY <1>1, FloatParts, FloatPowers DEF SmallOperand
  <2>2. HiddenOne(SmallOperand(a, b)) = P + m
    BY DEF HiddenOne
  <2> HIDE DEF P, m
  <2>3. P + m \in 0 .. 2 * P - 1
    BY <2>1
  <2> QED BY <2>2, <2>3 DEF P
<1>5. {ClassOf(a), ClassOf(b)} \intersect Zeros # {} <=> x = 0 \/ y = 0
  <2>1. (ClassOf(a) \in Zeros <=> x = 0) /\ (ClassOf(b) \in Zeros <=> y = 0)
    BY <1>3
  <2> HIDE DEF x, y
  <2> QED BY <2>1
<1> DEFINE M == 2 ^ EXP
<1> HIDE DEF x, y, M
<1>6. /\ (IF x < y THEN y ELSE x) \in 0 .. AllOnes
      /\ (IF x < y THEN x ELSE y) \in 0 .. (IF x < y THEN y ELSE x)
      /\ (IF x < y THEN x ELSE y) = 0 <=> x = 0 \/ y = 0
      /\ AllOnes < M
  BY <1>1 DEF M
<1> QED BY <1>1, <1>2, <1>4, <1>5, <1>6 DEF M

LEMMA AlignmentMade ==
    ASSUME NEW a, NEW b, IsFlushed(a), IsFlushed(b)
    PROVE  LET H == 8 * HiddenOne(SmallOperand(a, b))
               small == SmallExponent(a, b)
           IN  /\ Alignment(a, b, small) = IF small = 0 THEN 0 ELSE H
               /\ \A e \in small .. LargeExponent(a, b) - 1 :
                    ShiftedToSticky(Alignment(a, b, e)) = Alignment(a, b, e + 1)
               /\ Alignment(a, b, LargeExponent(a, b)) = AlignedSmall(a, b)
<1> DEFINE h == HiddenOne(SmallOperand(a, b))
           H == 8 * h
           small == SmallExponent(a, b)
           large == LargeExponent(a, b)
           cut(d) == IF d <= MAN + 3 THEN d ELSE MAN + 3
           P == 2 ^ MAN
<1>1. /\ large \in 0 .. AllOnes /\ small \in 0 .. large /\ AllOnes \in Nat
      /\ h \in 0 .. 2 * P - 1 /\ P \in Nat \ {0} /\ MAN \in Nat /\ XLEN >= MAN + 6 /\ XLEN \in Nat
  BY OperandExponents, FloatPowers, WideExponent
<1>2. h \in Nat /\ H \in Nat /\ H < 16 * P /\ small \in Int /\ large \in Int
  <2> HIDE DEF h, P, small, large
  <2> QED BY <1>1
<1>3. \A e : Alignment(a, b, e) = IF small = 0 THEN 0 ELSE Sticky(H, 2 * 2 ^ cut(e - small))
  BY DEF Alignment
<1>4. 2 ^ 0 = 1 /\ 2 ^ (MAN + 3) = 8 * P
  <2>1. 0 \in 0 .. XLEN /\ MAN \in 0 .. XLEN - 1 /\ MAN + 1 \in 0 .. XLEN - 1
        /\ MAN + 2 \in 0 .. XLEN - 1
    BY <1>1
  <2>2. 2 ^ (MAN + 1) = 2 * P /\ 2 ^ (MAN + 1 + 1) = 2 * 2 ^ (MAN + 1)
        /\ 2 ^ (MAN + 2 + 1) = 2 * 2 ^ (MAN + 2)
    BY <2>1, NextPower
  <2>3. MAN + 1 + 1 = MAN + 2 /\ MAN + 2 + 1 = MAN + 3
    BY <1>1
  <2>4. 2 ^ (MAN + 2) = 2 * (2 * P) /\ 2 ^ (MAN + 3) = 2 * 2 ^ (MAN + 2)
    BY <2>2, <2>3
  <2>5. 2 ^ 0 = 1
    BY FloatPowers
  <2> DEFINE q == 2 ^ (MAN + 2)
             r == 2 ^ (MAN + 3)
  <2> HIDE DEF P, q, r
  <2>6. q = 2 * (2 * P) /\ r = 2 * q
    BY <2>4 DEF q, r
  <2>7. r = 8 * P
    BY <1>1, <2>6
  <2> QED BY <2>5, <2>7 DEF r
<1>5. Alignment(a, b, small) = IF small = 0 THEN 0 ELSE H
  <2>1. small - small = 0 /\ cut(0) = 0
    BY <1>1, <1>2
  <2>2. Sticky(H, 2 * 2 ^ 0) = H
    <3> HIDE DEF h
    <3>1. 4 * h \in Nat /\ 2 * (4 * h) = H /\ 2 * 1 = 2
      BY <1>2
    <3>2. Sticky(2 * (4 * h), 2) = 2 * (4 * h)
      BY <3>1, StickyWhole
    <3> QED BY <1>4, <3>1, <3>2
  <2> HIDE DEF small, H, cut
  <2> QED BY <1>3, <2>1, <2>2
<1>6. ASSUME NEW e \in small .. large - 1
      PROVE  ShiftedToSticky(Alignment(a, b, e)) = Alignment(a, b, e + 1)
  <2> DEFINE d == e - small
  <2>1. d \in Nat /\ (e + 1) - small = d + 1
    <3> HIDE DEF small, large
    <3> QED BY <1>1, <1>2
  <2>5. /\ Alignment(a, b, e) = IF small = 0 THEN 0 ELSE Sticky(H, 2 * 2 ^ cut(d))
        /\ Alignment(a, b, e + 1) = IF small = 0 THEN 0 ELSE Sticky(H, 2 * 2 ^ cut(d + 1))
    <3> HIDE DEF small, H, cut
    <3> QED BY <1>3, <2>1
  <2>2. CASE small = 0
    <3>1. ShiftedToSticky(0) = 0
      BY DEF ShiftedToSticky
    <3> QED BY <2>2, <2>5, <3>1
  <2>3. CASE small # 0 /\ d < MAN + 3
    <3> HIDE DEF d, small, H, P
    <3>1. cut(d) = d /\ cut(d + 1) = d + 1 /\ d \in 0 .. XLEN - 1
      BY <1>1, <2>1, <2>3
    <3>2. 2 ^ (d + 1) = 2 * 2 ^ d /\ 2 ^ d \in Nat \ {0}
      BY <3>1, NextPower
    <3> DEFINE D == 2 ^ d
    <3>3. 2 * D \in Nat \ {0} /\ 2 ^ (d + 1) = 2 * D
      BY <3>2
    <3> HIDE DEF D
    <3>4. ShiftedToSticky(Sticky(H, 2 * D)) = Sticky(H, 2 * (2 * D))
      BY <1>2, <3>3, StickyShifted
    <3> HIDE DEF cut
    <3>5. Alignment(a, b, e) = Sticky(H, 2 * 2 ^ d) /\ Alignment(a, b, e + 1) = Sticky(H, 2 * 2 ^ (d + 1))
      BY <2>3, <2>5, <3>1
    <3> QED BY <3>3, <3>4, <3>5 DEF D
  <2>4. CASE small # 0 /\ ~(d < MAN + 3)
    <3> HIDE DEF d, small, P
    <3>1. cut(d) = MAN + 3 /\ cut(d + 1) = MAN + 3
      BY <1>1, <2>1, <2>4
    <3> DEFINE D == 2 * (8 * P)
    <3>2. D \in Nat \ {0} /\ H < D
      BY <1>1, <1>2
    <3> HIDE DEF H, D, cut
    <3>3. Sticky(H, D) = IF H = 0 THEN 0 ELSE 1
      BY <1>2, <3>2, StickyOnly
    <3>4. ShiftedToSticky(0) = 0 /\ ShiftedToSticky(1) = 1
      BY DEF ShiftedToSticky
    <3>5. Alignment(a, b, e) = Sticky(H, D) /\ Alignment(a, b, e + 1) = Sticky(H, D)
      BY <1>4, <2>4, <2>5, <3>1 DEF D
    <3> QED BY <3>3, <3>4, <3>5
  <2> QED BY <2>2, <2>3, <2>4
<1>7. Alignment(a, b, large) = AlignedSmall(a, b)
  <2>1. CASE small = 0
    BY <2>1 DEF Alignment, AlignedSmall
  <2>2. CASE small # 0
    BY <2>2 DEF Alignment, AlignedSmall, Distance
  <2> QED BY <2>1, <2>2
<1> QED BY <1>5, <1>6, <1>7

-----------------------------------------------------------------------------
(* The states of the adder.                                                *)

LEMMA AdderMoves ==
    ASSUME ControlTypes, AdderTypes, Phases, Clock
    PROVE  /\ adder.state = "IDLE" => adder'.state \in {"IDLE", "COMPARE"}
           /\ adder.state = "COMPARE" =>
                /\ adder'.state = "ALIGN" /\ adder'.exp = SmallExponent(fpu.a, fpu.b)
                /\ adder'.aligned = IF AnyZero THEN 0 ELSE 8 * HiddenOne(SmallOperand(fpu.a, fpu.b))
           /\ adder.state = "ALIGN" /\ ~Aligned =>
                /\ adder'.state = "ALIGN" /\ adder'.exp = adder.exp + 1
                /\ adder'.aligned = ShiftedToSticky(adder.aligned)
           /\ adder.state = "ALIGN" /\ Aligned => adder'.state = "SORT"
           /\ adder.state = "SORT" => adder'.state = "ADD"
           /\ adder.state = "ADD" => adder'.state = "DONE"
           /\ adder.state \notin {"IDLE", "COMPARE", "ALIGN", "SORT", "ADD"} => adder'.state = "IDLE"
           /\ adder.state # "COMPARE" /\ ~(adder.state = "ALIGN" /\ ~Aligned) =>
                adder'.aligned = adder.aligned /\ adder'.exp = adder.exp
<1>1. AdderClock(instr)
  BY DEF Clock, CoProcessorsClock, FpuClock
<1>2. {"state", "aligned", "exp"} \subseteq DOMAIN adder
  BY DEF AdderTypes
<1>3. Started(instr, "addsub") => adder.state = "IDLE"
  <2> SUFFICES ASSUME Started(instr, "addsub") PROVE adder.state = "IDLE"
    OBVIOUS
  <2>1. fpu.after = 0
    BY DEF Started
  <2> QED BY <2>1 DEF Phases
<1>4. CASE Started(instr, "addsub")
  <2>1. adder' = [adder EXCEPT !.state = "COMPARE"]
    BY <1>1, <1>3, <1>4 DEF AdderClock
  <2> QED BY <1>2, <1>3, <1>4, <2>1
<1>5. CASE ~Started(instr, "addsub") /\ adder.state = "COMPARE"
  <2> DEFINE aligned == IF AnyZero THEN 0 ELSE 8 * HiddenOne(SmallOperand(fpu.a, fpu.b))
             exp == ExponentOf(SmallOperand(fpu.a, fpu.b))
  <2>1. adder' = [state |-> "ALIGN", aligned |-> aligned, exp |-> exp]
    BY <1>1, <1>5 DEF AdderClock
  <2> HIDE DEF aligned, exp
  <2>2. adder'.state = "ALIGN" /\ adder'.aligned = aligned /\ adder'.exp = exp
    BY <2>1
  <2> QED BY <1>5, <2>2 DEF aligned, exp, SmallExponent
<1>6. CASE ~Started(instr, "addsub") /\ adder.state = "ALIGN" /\ ~Aligned
  <2>1. adder' = [adder EXCEPT !.aligned = ShiftedToSticky(@), !.exp = @ + 1]
    BY <1>1, <1>6 DEF AdderClock
  <2> DEFINE s == ShiftedToSticky(adder.aligned)
             e == adder.exp + 1
  <2>2. adder' = [adder EXCEPT !.aligned = s, !.exp = e]
    BY <2>1
  <2> HIDE DEF s, e
  <2>3. adder'.state = "ALIGN" /\ adder'.aligned = s /\ adder'.exp = e
    BY <1>2, <1>6, <2>2
  <2> QED BY <1>6, <2>3 DEF s, e
<1>7. CASE ~Started(instr, "addsub") /\ adder.state # "COMPARE" /\ ~(adder.state = "ALIGN" /\ ~Aligned)
  <2> DEFINE next == CASE adder.state = "ALIGN" /\ Aligned -> "SORT" [] adder.state = "SORT" -> "ADD"
                       [] adder.state = "ADD" -> "DONE" [] OTHER -> "IDLE"
  <2>1. adder' = [adder EXCEPT !.state = next]
    BY <1>1, <1>7 DEF AdderClock
  <2> HIDE DEF next
  <2>2. adder'.state = next /\ adder'.aligned = adder.aligned /\ adder'.exp = adder.exp
    BY <1>2, <2>1
  <2> QED BY <1>7, <2>2 DEF next
<1> QED BY <1>4, <1>5, <1>6, <1>7

\* The adder at work.
AdderAligns ==
    /\ adder.state = "ALIGN" =>
         /\ adder.exp \in SmallExponent(fpu.a, fpu.b) .. LargeExponent(fpu.a, fpu.b)
         /\ adder.aligned = Alignment(fpu.a, fpu.b, adder.exp)
    /\ adder.state \in {"SORT", "ADD", "DONE"} \/ norm.state = "S_PREPARE_NORM" => SumAligned

LEMMA AdderAlignsStep ==
    ASSUME ControlTypes, AdderTypes, Phases, Clock, IsFlushed(fpu.a), IsFlushed(fpu.b), AdderAligns,
           fpu'.a = fpu.a, fpu'.b = fpu.b,
           norm'.state = "S_PREPARE_NORM" => adder.state = "DONE"
    PROVE  AdderAligns'
<1> DEFINE a == fpu.a
           b == fpu.b
           small == SmallExponent(fpu.a, fpu.b)
           large == LargeExponent(fpu.a, fpu.b)
<1>1. /\ large \in 0 .. AllOnes /\ small \in 0 .. large /\ AllOnes \in Nat /\ AllOnes < 2 ^ EXP
      /\ 2 ^ EXP \in Nat \ {0} /\ (AnyZero <=> small = 0)
  BY OperandExponents DEF AnyZero
<1>2. /\ Alignment(a, b, small) = IF small = 0 THEN 0 ELSE 8 * HiddenOne(SmallOperand(a, b))
      /\ \A e \in small .. large - 1 : ShiftedToSticky(Alignment(a, b, e)) = Alignment(a, b, e + 1)
      /\ Alignment(a, b, large) = AlignedSmall(a, b)
  BY AlignmentMade
<1>3. ASSUME adder.state = "ALIGN"
      PROVE  /\ adder.exp \in small .. large /\ adder.aligned = Alignment(a, b, adder.exp)
             /\ Aligned <=> adder.exp = large
  <2>1. adder.exp \in small .. large /\ adder.aligned = Alignment(a, b, adder.exp)
    BY <1>3 DEF AdderAligns
  <2> DEFINE M == 2 ^ EXP
             e == adder.exp
  <2>2. e % M = e
    <3>1. M \in Nat \ {0} /\ e \in 0 .. M - 1
      <4> HIDE DEF small, large
      <4> QED BY <1>1, <2>1
    <3> HIDE DEF M, e
    <3> QED BY <3>1, SmallReduced
  <2> QED BY <2>1, <2>2 DEF Aligned, LargeExponent
<1>4. ASSUME adder.state = "ALIGN", adder.exp # large
      PROVE  adder.exp \in small .. large - 1 /\ adder.exp + 1 \in small .. large
  <2>1. adder.exp \in small .. large
    BY <1>3, <1>4
  <2> HIDE DEF small, large
  <2> QED BY <1>1, <1>4, <2>1
<1>5. /\ SmallExponent(fpu.a, fpu.b)' = small /\ LargeExponent(fpu.a, fpu.b)' = large
      /\ AlignedSmall(fpu.a, fpu.b)' = AlignedSmall(a, b)
      /\ Alignment(fpu.a, fpu.b, adder.exp)' = Alignment(a, b, adder'.exp)
  OBVIOUS
<1>6. ASSUME adder'.state = "ALIGN"
      PROVE  adder'.exp \in small .. large /\ adder'.aligned = Alignment(a, b, adder'.exp)
  <2>1. adder.state = "COMPARE" \/ (adder.state = "ALIGN" /\ ~Aligned)
    BY <1>6, AdderMoves
  <2>2. CASE adder.state = "COMPARE"
    <3>1. small \in small .. large
      <4> HIDE DEF small, large
      <4> QED BY <1>1
    <3> QED BY <1>1, <1>2, <2>2, <3>1, AdderMoves
  <2>3. CASE adder.state = "ALIGN" /\ ~Aligned
    <3>1. /\ adder'.exp = adder.exp + 1 /\ adder'.aligned = ShiftedToSticky(adder.aligned)
      BY <2>3, AdderMoves
    <3>2. adder.exp # large /\ adder.aligned = Alignment(a, b, adder.exp)
      BY <1>3, <2>3
    <3>3. adder.exp \in small .. large - 1 /\ adder.exp + 1 \in small .. large
      BY <1>4, <2>3, <3>2
    <3> QED BY <1>2, <3>1, <3>2, <3>3
  <2> QED BY <2>1, <2>2, <2>3
<1>7. ASSUME adder'.state \in {"SORT", "ADD", "DONE"} \/ norm'.state = "S_PREPARE_NORM"
      PROVE  adder'.exp = large /\ adder'.aligned = AlignedSmall(a, b)
  <2>1. (adder.state = "ALIGN" /\ Aligned) \/ adder.state \in {"SORT", "ADD", "DONE"}
    BY <1>7, AdderMoves
  <2>2. adder'.aligned = adder.aligned /\ adder'.exp = adder.exp
    BY <2>1, AdderMoves
  <2>3. adder.exp = large /\ adder.aligned = AlignedSmall(a, b)
    <3>1. CASE adder.state = "ALIGN" /\ Aligned
      BY <1>2, <1>3, <3>1
    <3>2. CASE adder.state \in {"SORT", "ADD", "DONE"}
      BY <3>2 DEF AdderAligns, SumAligned
    <3> QED BY <2>1, <3>1, <3>2
  <2> QED BY <2>2, <2>3
<1> HIDE DEF a, b, small, large
<1> QED BY <1>5, <1>6, <1>7 DEF AdderAligns, SumAligned

-----------------------------------------------------------------------------
(* The adder in the ALU.                                                   *)

Subtracts == Bits(instr.funct7, 2, 2) = 1
WordOfSum(word) == StandsForSum(word, OperandData(rs.rs1), OperandData(rs.rs2), Subtracts)

\* The adder and the normalizer at work and their result, as long as no trapped
\* instruction has left one of the co-processors running.
SumHeld ==
    /\ fpu.busy => fpu.sub = Subtracts
    /\ fpu.op = "addsub" =>
         /\ AdderAligns
         /\ fpu.frm = 0 => /\ norm.state # "S_IDLE" => Summing(norm)
                           /\ norm.done \/ fpu.valid => WordOfSum(norm.result)

LEMMA SumTaken ==
    ASSUME ControlTypes, Clock
    PROVE  fpu'.sub = Subtracts
<1> DEFINE control == ControlEngine(Start("fpu"), instr, rs.rs1 = rs.rs2,
                                    LessThan(rs.rs1, rs.rs2), rs.rs1, rs.rs2)
           Fields == {"busy", "after", "valid", "op", "equal", "less", "frm", "a", "b", "sub",
                      "neg", "abs", "result", "flags"}
           sub == Subtracts
<1>1. \E flags, abs, neg :
        fpu' = [control EXCEPT !.result = OutputGate(instr), !.flags = flags, !.neg = neg,
                               !.abs = abs, !.sub = sub]
  BY DEF Clock, CoProcessorsClock, FpuClock, Subtracts
<1>2. Fields \subseteq DOMAIN control
  BY DEF ControlTypes, ControlEngine
<1> HIDE DEF control, sub
<1>3. fpu'.sub = sub
  BY <1>1, <1>2
<1> QED BY <1>3 DEF sub

\* Only an idle normalizer takes an input.
LEMMA OnlyIdleTakes ==
    ASSUME NormalizerTypes, norm.state # "S_IDLE", NEW r, Follows(r)
    PROVE  r.state # "S_PREPARE_NORM"
<1>1. NormalizerStep.state # "S_PREPARE_NORM"
  <2>1. /\ {"state", "norm_r", "cnt", "sreg", "class", "flags", "left", "result", "rounded"}
             \subseteq DOMAIN norm
        /\ norm.state \in {"S_PREPARE_I2F", "S_CHECK_I2F", "S_PREPARE_NORM", "S_PREPARE_SHIFT",
                           "S_NORMALIZE_BUSY", "S_ROUND", "S_CHECK", "S_FINALIZE"}
    BY DEF NormalizerTypes, NormalizerRecord
  <2>2. CASE norm.state = "S_PREPARE_I2F"
    BY <2>1, <2>2 DEF NormalizerStep
  <2>3. CASE norm.state = "S_CHECK_I2F"
    BY <2>1, <2>3 DEF NormalizerStep
  <2>4. CASE norm.state = "S_PREPARE_NORM"
    BY <2>1, <2>4 DEF NormalizerStep
  <2>5. CASE norm.state = "S_PREPARE_SHIFT"
    BY <2>1, <2>5 DEF NormalizerStep
  <2>6. CASE norm.state = "S_NORMALIZE_BUSY"
    <3>1. NormalizerStep = NormalizeBusy
      BY <2>6 DEF NormalizerStep
    <3>2. NormalizeBusy.state \in {"S_CHECK", "S_ROUND", "S_NORMALIZE_BUSY"}
      BY <2>1, <2>6 DEF NormalizeBusy
    <3> QED BY <3>1, <3>2
  <2>7. CASE norm.state = "S_ROUND"
    BY <2>1, <2>7 DEF NormalizerStep, Rounding
  <2>8. CASE norm.state = "S_CHECK"
    BY <2>1, <2>8 DEF NormalizerStep
  <2>9. CASE norm.state = "S_FINALIZE"
    BY <2>1, <2>9 DEF NormalizerStep
  <2> QED BY <2>1, <2>2, <2>3, <2>4, <2>5, <2>6, <2>7, <2>8, <2>9
<1> QED BY <1>1 DEF Follows

LEMMA SameSum ==
    ASSUME fpu'.a = fpu.a, fpu'.b = fpu.b, fpu'.sub = fpu.sub
    PROVE  Summing(norm') => Summing(norm)'
<1>1. SumClass' = SumClass /\ SumFlags' = SumFlags /\ SumSign' = SumSign
  BY DEF SumClass, SumFlags, SumSign
<1>2. \A c, x, p : /\ Underway(norm, c, x, p)' = Underway(norm', c, x, p)
                   /\ Sinking(norm, c, x, p)' = Sinking(norm', c, x, p)
  BY DEF Underway, Watched, RoundedAt, CarriedTo, SettledAt, CompleteAt, Moving, Sinking, SinkingAt
<1>3. \A c, x, p : Normalizes(norm, c, x, p)' = Normalizes(norm', c, x, p)
  BY <1>2 DEF Normalizes
<1>4. LargeExponent(fpu.a, fpu.b)' = LargeExponent(fpu.a, fpu.b)
  OBVIOUS
<1> QED BY <1>1, <1>3, <1>4 DEF Summing

LEMMA SumHeldStep ==
    ASSUME IInv, Awaited, Operands, Typed, FloatHeld, SumHeld, Clock, ~abandoned'
    PROVE  SumHeld'
<1>1. /\ ControlTypes /\ AdderTypes /\ NormalizerTypes /\ Phases /\ Controlled /\ Shapes
      /\ FpuInvariant
  BY DEF Typed, IInv
<1>2. /\ norm'.done = (norm.state = "S_FINALIZE")
      /\ norm.state = "S_IDLE" /\ ~NormalizerStarts => norm'.state = "S_IDLE"
  BY <1>1, NormalizerStates
<1>3. fpu'.sub = Subtracts
  BY <1>1, SumTaken
<1>4. ASSUME state = "ALU_WAIT"
      PROVE  rs' = rs /\ Subtracts' = Subtracts
  <2>1. instr' = instr /\ rs' = rs
    BY <1>1, <1>4, Waiting DEF instr
  <2> QED BY <2>1 DEF Subtracts
<1>5. CASE ~fpu.busy
  <2>1. /\ norm.state = "S_IDLE" /\ ~NormalizerStarts /\ adder.state = "IDLE"
    <3>1. fpu.after \in 0 .. 4
      BY <1>1 DEF ControlTypes
    <3> QED BY <1>1, <1>5, <3>1 DEF Phases, NormalizerStarts
  <2>2. norm'.state = "S_IDLE" /\ ~norm'.done /\ ~fpu'.valid
    BY <1>1, <1>2, <1>5, <2>1, FpuRecord
  <2>3. adder'.state \in {"IDLE", "COMPARE"}
    BY <1>1, <2>1, AdderMoves
  <2>4. fpu'.busy => state = "ALU_WAIT"
    <3>1. fpu'.busy => Start("fpu")
      BY <1>1, <1>5, FpuRecord
    <3> QED BY <3>1 DEF Awaited, Start
  <2>5. AdderAligns'
    BY <2>2, <2>3 DEF AdderAligns
  <2> QED BY <1>3, <1>4, <2>2, <2>4, <2>5 DEF SumHeld
<1>6. CASE fpu.busy
  <2>1. state = "ALU_WAIT"
    BY <1>6 DEF Awaited, Working
  <2>2. rs' = rs /\ Subtracts' = Subtracts /\ fpu.sub = Subtracts /\ fpu'.sub = fpu.sub
    BY <1>3, <1>4, <1>6, <2>1 DEF SumHeld
  <2>3. fpu'.op = fpu.op /\ fpu'.frm = fpu.frm /\ fpu'.a = fpu.a /\ fpu'.b = fpu.b
    BY <1>1, <1>6, ControllerFields
  <2>4. Follows(norm')
    BY <1>1, NormalizerFollows
  <2>5. fpu.a = OperandData(rs.rs1) /\ fpu.b = OperandData(rs.rs2)
    BY <1>6 DEF FloatHeld
  <2>6. IsFlushed(fpu.a) /\ IsFlushed(fpu.b) /\ SumOperands
    <3>1. rs.rs1 \in Words /\ rs.rs2 \in Words
      BY DEF Operands
    <3>2. fpu.sub \in BOOLEAN
      BY <2>2 DEF Subtracts
    <3> QED BY <2>5, <3>1, <3>2, FlushedOperand DEF SumOperands
  <2>8. WordOfSum(norm.result)' <=> WordOfSum(norm'.result)
    BY <2>2 DEF WordOfSum, StandsForSum
  <2> SUFFICES ASSUME fpu.op = "addsub"
               PROVE  /\ AdderAligns'
                      /\ fpu.frm = 0 =>
                           /\ norm'.state # "S_IDLE" => Summing(norm)'
                           /\ norm'.done \/ fpu'.valid => WordOfSum(norm'.result)
    BY <2>2, <2>3, <2>8 DEF SumHeld
  <2>9. AdderAligns
    BY DEF SumHeld
  <2>10. /\ adder.state = "DONE" => SumAligned
         /\ norm.state = "S_PREPARE_NORM" => SumAligned
    BY <2>9 DEF AdderAligns
  <2>11. ASSUME norm.state = "S_IDLE"
         PROVE  /\ norm'.state # "S_IDLE" => adder.state = "DONE" /\ Summing(norm')
                /\ norm'.result = norm.result
    BY <1>1, <2>4, <2>10, <2>11, SumTakes
  <2>12. ASSUME norm.state # "S_IDLE", fpu.frm = 0
         PROVE  /\ Summing(norm)
                /\ norm.state # "S_FINALIZE" => Summing(norm')
                /\ norm.state = "S_FINALIZE" => norm'.result = FinalWord /\ norm'.state = "S_IDLE"
    <3>1. Summing(norm)
      BY <2>12 DEF SumHeld
    <3> QED BY <1>1, <2>4, <2>6, <2>10, <2>12, <3>1, SumSteps
  <2>13. AdderAligns'
    <3>1. norm'.state = "S_PREPARE_NORM" => adder.state = "DONE"
      BY <1>1, <2>4, <2>11, OnlyIdleTakes
    <3> QED BY <1>1, <2>3, <2>6, <2>9, <3>1, AdderAlignsStep
  <2>14. ASSUME fpu.frm = 0, norm'.state # "S_IDLE" PROVE Summing(norm)'
    <3>1. Summing(norm')
      BY <2>11, <2>12, <2>14
    <3> QED BY <2>2, <2>3, <3>1, SameSum
  <2>15. ASSUME fpu.frm = 0, norm'.done \/ fpu'.valid
         PROVE  WordOfSum(norm'.result)
    <3>1. CASE norm'.done
      <4>1. norm.state = "S_FINALIZE"
        BY <1>2, <3>1
      <4>2. norm'.result = FinalWord /\ Summing(norm)
        BY <2>12, <2>15, <4>1
      <4>3. StandsForSum(FinalWord, fpu.a, fpu.b, fpu.sub)
        BY <1>1, <2>6, <4>1, <4>2, FinalSums
      <4> QED BY <2>2, <2>5, <4>2, <4>3 DEF WordOfSum
    <3>2. CASE fpu'.valid
      <4>1. CoreDone(instr)
        <5>1. fpu'.busy = ~CoreDone(instr) /\ (fpu'.busy <=> ~fpu'.valid)
          BY <1>1, <1>6, ControllerFields, FpuRecord
        <5> QED BY <3>2, <5>1
      <4>2. norm.done /\ norm.state = "S_IDLE"
        <5>1. /\ Started(instr, "class") => fpu.op = "class"
              /\ Started(instr, "sgnj") => fpu.op = "sgnj"
          BY <1>1, StartedOperation DEF UnitNames
        <5> QED BY <1>1, <4>1, <5>1 DEF CoreDone, Phases
      <4>3. WordOfSum(norm.result)
        BY <2>15, <4>2 DEF SumHeld
      <4> QED BY <2>11, <4>2, <4>3
    <3> QED BY <2>15, <3>1, <3>2
  <2> QED BY <2>13, <2>14, <2>15
<1> QED BY <1>5, <1>6

SumAnswered ==
    ctrl.wb /\ CoProcessorOf(instr) = "fpu" /\ OperationOf(instr) = "addsub" =>
      (RoundingMode(instr) = 0 => WordOfSum(fpu.result))

LEMMA SumAnsweredStep ==
    ASSUME IInv, Awaited, Operands, FloatHeld, ConverterHeld, SumHeld, Clock, ~abandoned'
    PROVE  SumAnswered'
<1> SUFFICES ASSUME ctrl'.wb, CoProcessorOf(instr)' = "fpu", OperationOf(instr)' = "addsub",
                    RoundingMode(instr)' = 0
             PROVE  WordOfSum(fpu.result)'
  BY DEF SumAnswered
<1>1. ~EXECUTE
  <2> SUFFICES ASSUME EXECUTE PROVE FALSE
    OBVIOUS
  <2>1. i_reg' = i_reg /\ CoProcessorOf(instr) = "none"
    BY DEF EXECUTE, Off
  <2>2. CoProcessorOf(instr)' = "none"
    BY <2>1 DEF instr
  <2> QED BY <2>2
<1>2. ALU_WAIT
  BY <1>1 DEF Clock, ExecuteEngine, SYS_WAIT, DispatchWaits, Dispatch, DispatchTraps, TRAP_ENTER,
              TRAP_EXECUTE, Off
<1>3. i_reg' = i_reg /\ rs' = rs /\ idone
  BY <1>2, Waiting DEF ALU_WAIT, IInv
<1>4. /\ CoProcessorOf(instr)' = CoProcessorOf(instr) /\ OperationOf(instr)' = OperationOf(instr)
      /\ RoundingMode(instr)' = RoundingMode(instr) /\ Subtracts' = Subtracts
  BY <1>3 DEF instr, Subtracts
<1>5. fpu.valid
  <2>1. Valid("fpu")
    BY <1>3, <1>4, OneAnswers
  <2> QED BY <2>1 DEF Valid
<1>6. fpu.op = "addsub" /\ fpu.frm = 0
  BY <1>4, <1>5 DEF FloatHeld, ConverterHeld
<1>7. fpu'.result = norm.result
  <2>1. fpu'.result = FpuResult(instr)
    BY <1>5, FloatControl DEF IInv, OutputGate
  <2> QED BY <1>6, <2>1 DEF FpuResult
<1>8. WordOfSum(norm.result)
  BY <1>5, <1>6 DEF SumHeld
<1>9. WordOfSum(fpu.result)' <=> WordOfSum(fpu'.result)
  BY <1>3, <1>4 DEF WordOfSum, StandsForSum
<1> QED BY <1>7, <1>8, <1>9

Sums == abandoned \/ (SumHeld /\ SumAnswered)

LEMMA SumsInit == Init => Sums
<1> SUFFICES ASSUME Init PROVE SumHeld /\ SumAnswered
  BY DEF Sums
<1>1. ~fpu.busy /\ fpu.op = "class" /\ ~ctrl.wb
  BY DEF Init, FpuInit, Off
<1> QED BY <1>1 DEF SumHeld, SumAnswered

LEMMA SumsStep == IInv /\ Holds /\ Typed /\ Converts /\ Sums /\ [Clock]_vars => Sums'
<1> SUFFICES ASSUME IInv, Holds, Typed, Converts, Sums, [Clock]_vars PROVE Sums'
  OBVIOUS
<1>1. CASE Clock
  <2> SUFFICES ASSUME ~abandoned' PROVE SumHeld' /\ SumAnswered'
    BY DEF Sums
  <2>1. ~abandoned
    BY <1>1, Zenon DEF Clock, Registers
  <2>2. Awaited /\ Operands /\ FloatHeld /\ ConverterHeld /\ SumHeld
    BY <2>1 DEF IInv, Holds, Converts, Sums
  <2> QED BY <1>1, <2>2, SumHeldStep, SumAnsweredStep
<1>2. CASE UNCHANGED vars
  <2>1. /\ i_reg' = i_reg /\ rs' = rs /\ ctrl' = ctrl /\ abandoned' = abandoned /\ fpu' = fpu
        /\ norm' = norm /\ adder' = adder
    BY <1>2 DEF vars, control_vars, fpu_vars
  <2>2. instr' = instr /\ Subtracts' = Subtracts
    BY <2>1 DEF Subtracts, instr
  <2>3. Summing(norm) => Summing(norm)'
    BY <2>1, SameSum
  <2>4. AdderAligns' <=> AdderAligns
    BY <2>1 DEF AdderAligns, SumAligned
  <2>5. /\ WordOfSum(norm.result)' <=> WordOfSum(norm.result)
        /\ WordOfSum(fpu.result)' <=> WordOfSum(fpu.result)
    BY <2>1, <2>2 DEF WordOfSum, StandsForSum
  <2>6. SumHeld => SumHeld'
    BY <2>1, <2>2, <2>3, <2>4, <2>5 DEF SumHeld
  <2>7. SumAnswered => SumAnswered'
    BY <2>1, <2>2, <2>5 DEF SumAnswered
  <2> QED BY <2>1, <2>6, <2>7 DEF Sums
<1> QED BY <1>1, <1>2

LEMMA SumsSpec == Spec => []Sums
BY Invariant, Answering, TypedSpec, ConvertsSpec, SumsInit, SumsStep, PTL DEF Spec

LEMMA SumDecoded ==
    /\ \A i \in {riscv_intrinsic_fadds, riscv_intrinsic_fsubs} :
          CoProcessorOf(i) = "fpu" /\ OperationOf(i) = "addsub" /\ RoundingMode(i) = 0
    /\ Bits(riscv_intrinsic_fadds.funct7, 2, 2) = 0
    /\ Bits(riscv_intrinsic_fsubs.funct7, 2, 2) = 1
<1> USE DEF CUSTOM_INSTR_R2_TYPE, CMD_WORD_R2_TYPE
<1> DEFINE add == riscv_intrinsic_fadds
           subtract == riscv_intrinsic_fsubs
<1>1. /\ add.opcode = opcode_fop_c /\ add.funct7 = 0 /\ add.funct3 = 0
      /\ subtract.opcode = opcode_fop_c /\ subtract.funct7 = 4 /\ subtract.funct3 = 0
  BY DEF riscv_intrinsic_fadds, riscv_intrinsic_fsubs, opcode_fop_c
<1>2. /\ Bits(0, 2, 2) = 0 /\ Bits(0, 6, 2) = 0 /\ Bits(0, 6, 3) = 0 /\ Bits(0, 1, 0) = 0
      /\ Bits(4, 2, 2) = 1 /\ Bits(4, 6, 2) = 1 /\ Bits(4, 6, 3) = 0
  BY DEF Bits
<1> HIDE DEF add, subtract
<1>3. ASSUME NEW i \in {add, subtract}
      PROVE  CoProcessorOf(i) = "fpu" /\ OperationOf(i) = "addsub" /\ RoundingMode(i) = 0
  <2>1. i.opcode = opcode_fop_c /\ i.funct7 \in {0, 4} /\ i.funct3 = 0
    BY <1>1
  <2>2. CoProcessorOf(i) = "fpu"
    BY <2>1 DEF CoProcessorOf, IsAluOperation, opcode_alu_c, opcode_alui_c, opcode_fop_c
  <2>3. OperationOf(i) = "addsub"
    <3>1. Bits(i.funct7, 6, 2) \in {0, 1} /\ Bits(i.funct7, 6, 3) = 0
      BY <1>2, <2>1
    <3> QED BY <3>1 DEF OperationOf, UnitOf
  <2>4. RoundingMode(i) = 0
    BY <1>2, <2>1 DEF RoundingMode
  <2> QED BY <2>2, <2>3, <2>4
<1> QED BY <1>1, <1>2, <1>3 DEF add, subtract

\* A word that stands for the sum of the flushed operands does so for theirs.
LEMMA SumOfOperands ==
    ASSUME NEW word, NEW a \in Words, NEW b \in Words, NEW sub \in BOOLEAN,
           StandsForSum(word, OperandData(a), OperandData(b), sub)
    PROVE  LET value == subnormal_flush(Sum(subnormal_flush(a), Addend(subnormal_flush(b), sub)))
           IN  \/ RoundedLike(word, value)
               \/ /\ IF sub THEN a = b ELSE a = Negated(b)
                  /\ IsZero(value) /\ word = FloatWord(SignOf(a), 0, 0)
<1> DEFINE x == OperandData(a)
           y == OperandData(b)
           value == subnormal_flush(Sum(x, Addend(y, sub)))
<1>1. x = subnormal_flush(a) /\ y = subnormal_flush(b) /\ IsFlushed(x) /\ IsFlushed(y)
  BY FlushedOperand
<1>2. /\ ExponentOf(x) = ExponentOf(a) /\ SignOf(x) = SignOf(a) /\ ExponentOf(y) = ExponentOf(b)
  BY FlushedAlike
<1>3. \A v : ExponentOf(v) # 0 => OperandData(v) = v
  BY DEF OperandData
<1>4. ASSUME Cancels(x, y, sub) PROVE IF sub THEN a = b ELSE a = Negated(b)
  <2>1. ExponentOf(x) # 0 /\ IF sub THEN x = y ELSE x = Negated(y)
    BY <1>4 DEF Cancels
  <2>2. ExponentOf(Negated(y)) = ExponentOf(y)
    <3>1. ExponentOf(Addend(y, TRUE)) = ExponentOf(y)
      BY <1>1, AddendParts
    <3> QED BY <3>1 DEF Addend
  <2>3. ExponentOf(y) # 0
    BY <2>1, <2>2
  <2>4. x = a /\ y = b
    BY <1>2, <1>3, <2>1, <2>3
  <2> QED BY <2>1, <2>4
<1>5. RoundedLike(word, value) \/ (Cancels(x, y, sub) /\ IsZero(value) /\ word = FloatWord(SignOf(x), 0, 0))
  BY DEF StandsForSum
<1> HIDE DEF x, y
<1> QED BY <1>1, <1>2, <1>4, <1>5

LEMMA SumAnswers ==
    ASSUME Operands, Answered, SumAnswered, ControlTypes, ctrl.wb
    PROVE  /\ instr = riscv_intrinsic_fadds => SumLike(riscv_emulate_fadds(a0, a1), a0 = Negated(a1))
           /\ instr = riscv_intrinsic_fsubs => SumLike(riscv_emulate_fsubs(a0, a1), a0 = a1)
<1> SUFFICES ASSUME instr \in {riscv_intrinsic_fadds, riscv_intrinsic_fsubs}
             PROVE  /\ instr = riscv_intrinsic_fadds =>
                         SumLike(riscv_emulate_fadds(a0, a1), a0 = Negated(a1))
                    /\ instr = riscv_intrinsic_fsubs =>
                         SumLike(riscv_emulate_fsubs(a0, a1), a0 = a1)
  OBVIOUS
<1>1. rs.rs1 = a0 /\ rs.rs2 = a1 /\ a0 \in Words /\ a1 \in Words
  BY DEF Operands, a0, a1
<1>2. CoProcessorOf(instr) = "fpu" /\ OperationOf(instr) = "addsub" /\ RoundingMode(instr) = 0
  BY SumDecoded
<1>3. AluResult = fpu.result
  <2>1. /\ "fpu" \in CoProcessors /\ ctrl.copro
        /\ \A cp \in CoProcessors \ {"fpu"} : Result(cp) = 0
    BY <1>2 DEF Answered
  <2>2. Result("fpu") = fpu.result /\ fpu.result \in Words
    BY DEF Result, ControlTypes
  <2> QED BY <2>1, <2>2, OnlyResult
<1>4. StandsForSum(AluResult, OperandData(a0), OperandData(a1), Subtracts)
  BY <1>1, <1>2, <1>3 DEF SumAnswered, WordOfSum
<1> DEFINE value == subnormal_flush(Sum(subnormal_flush(a0), Addend(subnormal_flush(a1), Subtracts)))
<1>5. \/ RoundedLike(AluResult, value)
      \/ /\ IF Subtracts THEN a0 = a1 ELSE a0 = Negated(a1)
         /\ IsZero(value) /\ AluResult = FloatWord(SignOf(a0), 0, 0)
  <2>1. Subtracts \in BOOLEAN
    BY DEF Subtracts
  <2> QED BY <1>1, <1>4, <2>1, SumOfOperands
<1>6. ASSUME instr = riscv_intrinsic_fadds
      PROVE  SumLike(riscv_emulate_fadds(a0, a1), a0 = Negated(a1))
  <2>1. ~Subtracts
    BY <1>6, SumDecoded DEF Subtracts
  <2>2. value = riscv_emulate_fadds(a0, a1)
    BY <2>1 DEF riscv_emulate_fadds, Addend
  <2> HIDE DEF value
  <2>3. RoundedLike(AluResult, value) \/ (a0 = Negated(a1) /\ IsZero(value) /\ AluResult = FloatWord(SignOf(a0), 0, 0))
    BY <1>5, <2>1
  <2> QED BY <2>2, <2>3 DEF SumLike, RoundedLike
<1>7. ASSUME instr = riscv_intrinsic_fsubs
      PROVE  SumLike(riscv_emulate_fsubs(a0, a1), a0 = a1)
  <2>1. Subtracts
    BY <1>7, SumDecoded DEF Subtracts
  <2>2. value = riscv_emulate_fsubs(a0, a1)
    BY <2>1 DEF riscv_emulate_fsubs, Difference, Addend
  <2> HIDE DEF value
  <2>3. RoundedLike(AluResult, value) \/ (a0 = a1 /\ IsZero(value) /\ AluResult = FloatWord(SignOf(a0), 0, 0))
    BY <1>5, <2>1
  <2> QED BY <2>2, <2>3 DEF SumLike, RoundedLike
<1> QED BY <1>6, <1>7

\* Undisturbed, the sums and differences of floats (neorv32_cpu_cp_fpu.vhd) are
\* those of C with subnormal numbers flushed, but for the sign of an exact zero
\* and the smallest normal numbers that C rounds up to; so are the products.
THEOREM SumsAreEmulated == Spec => []SumsLikeEmulated
<1>1. Holds /\ Typed /\ Sums /\ ProductsLikeEmulated => SumsLikeEmulated
  <2> SUFFICES ASSUME Holds, Typed, Sums, ProductsLikeEmulated PROVE SumsLikeEmulated
    OBVIOUS
  <2> SUFFICES ASSUME Undisturbed
               PROVE  /\ instr = riscv_intrinsic_fadds =>
                           SumLike(riscv_emulate_fadds(a0, a1), a0 = Negated(a1))
                      /\ instr = riscv_intrinsic_fsubs =>
                           SumLike(riscv_emulate_fsubs(a0, a1), a0 = a1)
    BY DEF SumsLikeEmulated
  <2>1. ~abandoned /\ ctrl.wb
    BY DEF Undisturbed, Writes
  <2>2. Operands /\ Answered /\ SumAnswered /\ ControlTypes
    BY <2>1 DEF Holds, Typed, Sums
  <2> QED BY <2>1, <2>2, SumAnswers
<1> QED BY <1>1, Answering, TypedSpec, SumsSpec, ProductsAreEmulated, PTL

-----------------------------------------------------------------------------
(* The flags. C raises that a result is not exact where rounding loses a   *)
(* part of the number: n units of 2^e that are not a multiple of the last  *)
(* place.                                                                  *)

LEMMA DoubledRest ==
    ASSUME NEW c \in Nat, NEW d \in Nat \ {0}, c % (2 * d) = 0
    PROVE  c % d = 0
<1> DEFINE f == 2 * d
           q == c \div f
           z == 0
           u == 2 * q
<1>1. f \in Nat \ {0} /\ c % f = 0
  OBVIOUS
<1>2. f = 2 * d
  OBVIOUS
<1> HIDE DEF f
<1>3. q \in Int /\ c = f * q + (c % f)
  BY <1>1, DivMod
<1> HIDE DEF q
<1>4. c = f * q
  BY <1>1, <1>3
<1>5. c = d * u + z /\ u \in Int /\ z \in Int /\ 0 <= z /\ z < d
  BY <1>2, <1>3, <1>4
<1> HIDE DEF u, z
<1>6. c % d = z
  BY <1>5, Division
<1> QED BY <1>6 DEF z

\* It does where a lower place is not empty.
LEMMA InexactAt ==
    ASSUME NEW c \in Nat, NEW p, IsSignificand(c, p), NEW e \in Int, NEW k \in 1 .. XLEN,
           LastPlace(c, e) - e = k \/ LastPlace(c, e) - e = k + 1, c % 2 ^ k # 0
    PROVE  Inexact(c, e)
<1> DEFINE D == LastPlace(c, e) - e
           v == k + 1
           N == XLEN + MAN + 3
<1>1. c # 0
  BY LengthOfPlaces
<1>2. k \in 0 .. v /\ v \in 0 .. N /\ v - k = 1 /\ k \in Nat /\ k >= 1 /\ k \in 0 .. N
  BY ExponentSizes
<1>3. 2 ^ k \in Nat \ {0} /\ 2 ^ v \in Nat \ {0} /\ 2 ^ v = 2 * 2 ^ k
  <2>1. \A n \in 0 .. N : 2 ^ n \in Nat \ {0} /\ \A m \in 0 .. n : 2 ^ n = 2 ^ m * 2 ^ (n - m)
    BY RegisterPowers DEF N
  <2> HIDE DEF N, v
  <2>2. 2 ^ v = 2 ^ k * 2 ^ (v - k) /\ 2 ^ k \in Nat \ {0} /\ 2 ^ v \in Nat \ {0}
    BY <1>2, <2>1
  <2>3. 2 ^ (v - k) = 2
    <3> DEFINE z == v - k
    <3>1. z = 1
      BY <1>2
    <3> HIDE DEF z
    <3>2. 2 ^ z = 2
      BY <3>1
    <3> QED BY <3>2 DEF z
  <2> QED BY <2>2, <2>3
<1>4. c % 2 ^ v # 0
  <2>1. c % (2 * 2 ^ k) = 0 => c % 2 ^ k = 0
    BY <1>3, DoubledRest
  <2> QED BY <1>3, <2>1
<1>5. D > 0 /\ c % 2 ^ D # 0
  <2>1. D = k \/ D = v
    OBVIOUS
  <2> HIDE DEF D, v
  <2>2. D > 0
    BY <1>2, <2>1
  <2>3. c % 2 ^ D # 0
    BY <1>4, <2>1
  <2> QED BY <2>2, <2>3
<1> QED BY <1>1, <1>5 DEF Inexact

\* A number of which the places below p are empty is not changed by rounding there.
LEMMA NearestWhole ==
    ASSUME NEW c \in Nat, NEW p \in 0 .. XLEN, c % 2 ^ p = 0
    PROVE  NearestEven(c, p) = c \div 2 ^ p
<1> DEFINE d == 2 ^ p
           q == c \div d
<1>1. d \in Nat \ {0} /\ q \in Int
  <2>1. d \in Nat \ {0}
    BY Powers
  <2> HIDE DEF d
  <2> QED BY <2>1, DivMod
<1>2. Halves(c, p) = 2 * 0 - d
  BY DEF Halves
<1> HIDE DEF d
<1>3. ~(Halves(c, p) > 0) /\ Halves(c, p) # 0
  BY <1>1, <1>2
<1>4. NearestEven(c, p) = q + 0
  BY <1>3 DEF NearestEven, d, q
<1> HIDE DEF q
<1>5. NearestEven(c, p) = q
  BY <1>1, <1>4
<1> QED BY <1>5 DEF q, d

\* The three bits below the last place of a register whose number is whole.
LEMMA WholeRest ==
    ASSUME NEW c \in Nat, NEW t \in 0 .. XLEN, c % 2 ^ t = 0
    PROVE  Sticky(8 * c, 2 * 2 ^ t) % 8 = 0
<1> DEFINE d == 2 ^ t
           q == c \div d
           f == 2 * d
           y == 4 * q
           z == 0
<1>1. d \in Nat \ {0}
  BY Powers
<1> HIDE DEF d
<1>2. q \in Int /\ c = d * q + (c % d)
  BY <1>1, DivMod
<1>3. c % d = 0
  BY DEF d
<1> HIDE DEF q
<1>4. c = d * q /\ q \in Nat
  <2>1. c = d * q
    <3>1. d * q \in Int
      BY <1>1, <1>2
    <3> QED BY <1>2, <1>3, <3>1
  <2>2. q < 0 => d * q < 0
    <3>1. q <= -1 => d * q <= d * (-1)
      BY <1>1, <1>2
    <3> QED BY <1>1, <1>2, <3>1
  <2> QED BY <1>2, <2>1, <2>2
<1>5. 8 * c = f * y /\ f \in Nat \ {0} /\ y \in Nat
  BY <1>1, <1>4
<1>6. 2 * y = 8 * q
  BY <1>4
<1> HIDE DEF f, y
<1>7. Sticky(8 * c, f) = 8 * q
  BY <1>5, <1>6, StickyWhole
<1>8. (8 * q) % 8 = 0
  BY <1>4
<1> QED BY <1>7, <1>8 DEF f, d

LEMMA EmptyRest ==
    /\ \A s \in Nat : s % 8 = 0 => ShiftedFromSticky(s) % 8 = 0
    /\ \A odd \in BOOLEAN : RoundingStep(0, odd, 0) = 0
    /\ \A m \in Int : (8 * m) % 8 = 0
<1>1. ASSUME NEW s \in Nat, s % 8 = 0 PROVE ShiftedFromSticky(s) % 8 = 0
  <2>1. ShiftedFromSticky(s) = 2 * s + (s % 2)
    BY DEF ShiftedFromSticky
  <2> QED BY <1>1, <2>1
<1>2. ASSUME NEW odd \in BOOLEAN PROVE RoundingStep(0, odd, 0) = 0
  BY DEF RoundingStep
<1>3. \A m \in Int : (8 * m) % 8 = 0
  OBVIOUS
<1> QED BY <1>1, <1>2, <1>3

-----------------------------------------------------------------------------
(* What the normalizer loses.                                              *)

LEMMA NormalizerRounds ==
    ASSUME NormalizerTypes, ControlTypes, AdderTypes, Clock
    PROVE  norm'.rounded = NormalizerStep.rounded
<1> DEFINE r == NormalizerStep
<1>1. {"cnt_pre", "of", "uf", "rounded", "done"} \subseteq DOMAIN r
  BY NormalizerStepTyped DEF NormalizerRecord
<1>2. \E of, uf, done : norm' = [r EXCEPT !.cnt_pre = norm.cnt, !.of = of, !.uf = uf, !.done = done]
  <2>1. NormalizerClock
    BY DEF Clock, CoProcessorsClock, FpuClock
  <2> QED BY <2>1 DEF NormalizerClock
<1> HIDE DEF r
<1>3. norm'.rounded = r.rounded
  BY <1>1, <1>2
<1> QED BY <1>3 DEF r

\* It has rounded only numbers with places below their last one. When its counter
\* has passed 0 the three bits below that are empty, or such places are lost.
Losing(r, inexact) ==
    /\ r.rounded => inexact
    /\ r.uf \/ r.cnt = 2 ^ (EXP + 1) - 1 => (r.sreg % 8 # 0 => inexact)
    /\ ~r.uf /\ r.cnt = 2 ^ (EXP + 1) - 1 => r.left

\* Only the rounding sets the flag.
LEMMA RoundedKept ==
    ASSUME NormalizerTypes, norm.state \in {"S_PREPARE_SHIFT", "S_NORMALIZE_BUSY", "S_CHECK"}
    PROVE  NormalizerStep.rounded = norm.rounded
BY DEF NormalizerStep, NormalizeBusy, NormalizerTypes, NormalizerRecord

LEMMA RoundedHere ==
    ASSUME NormalizerTypes, fpu.frm = 0, norm.state = "S_ROUND"
    PROVE  LET kept == (norm.sreg \div 8) % 2 ^ (MAN + 1)
               step == RoundingStep(0, kept % 2 = 1, norm.sreg % 8)
           IN  /\ NormalizerStep.rounded = (norm.rounded \/ step # 0)
               /\ NormalizerStep.sreg = 8 * ((kept + step) % 2 ^ (MAN + 2))
               /\ NormalizerStep.cnt = norm.cnt
<1> DEFINE kept == (norm.sreg \div 8) % 2 ^ (MAN + 1)
           step == RoundingStep(0, kept % 2 = 1, norm.sreg % 8)
           rounded == norm.rounded \/ step # 0
           s == 8 * ((kept + step) % 2 ^ (MAN + 2))
           n == [norm EXCEPT !.rounded = rounded, !.state = "S_PREPARE_SHIFT", !.sreg = s]
<1>1. NormalizerStep = n
  BY DEF NormalizerStep, Rounding
<1> HIDE DEF rounded, s
<1>2. n.rounded = rounded /\ n.sreg = s /\ n.cnt = norm.cnt
  BY DEF NormalizerTypes, NormalizerRecord
<1> HIDE DEF n
<1> QED BY <1>1, <1>2 DEF rounded, s

\* An exact number with the exponents of normal numbers.
LEMMA LosingUnderway ==
    ASSUME NormalizerTypes, NEW c, NEW x, NEW p, IsExact(c, x, p), Underway(norm, c, x, p),
           fpu.frm = 0,
           norm.state \in {"S_PREPARE_SHIFT", "S_NORMALIZE_BUSY", "S_ROUND", "S_CHECK"},
           NEW r, Follows(r), r.rounded = NormalizerStep.rounded,
           NEW inexact \in BOOLEAN, Inexact(c, x - Bias - MAN) => inexact, Losing(norm, inexact)
    PROVE  Losing(r, inexact)
<1> DEFINE F == 2 ^ (EXP + 1)
           E == 2 ^ EXP
<1>1. ~r.uf /\ r.cnt # F - 1
  <2>1. Underway(r, c, x, p)
    BY UnderwayStep
  <2>2. ~r.uf /\ r.cnt \in 0 .. E /\ E \in Nat /\ E >= 2 /\ F = 2 * E
    BY <2>1, FloatPowers, RegisterWidths DEF Underway, Watched
  <2> HIDE DEF E, F
  <2> QED BY <2>2
<1>2. CASE norm.state # "S_ROUND"
  <2>1. r.rounded = norm.rounded
    BY <1>2, RoundedKept
  <2> QED BY <1>1, <2>1 DEF Losing
<1>3. CASE norm.state = "S_ROUND"
  <2> DEFINE k == norm.sreg \div 8
             kept == k % 2 ^ (MAN + 1)
             step == RoundingStep(0, kept % 2 = 1, norm.sreg % 8)
             P == 2 ^ MAN
             R == NearestEven(c, p)
  <2>1. r.rounded = (norm.rounded \/ step # 0)
    BY <1>3, RoundedHere
  <2>2. Kept(norm.sreg, c, p)
    BY <1>3 DEF Underway
  <2>3. /\ c \in Nat /\ p \in 1 .. XLEN /\ p \in 0 .. XLEN /\ IsSignificand(c, p) /\ x \in Int
        /\ c \div 2 ^ p \in P .. 2 * P - 1 /\ x + p \in 0 .. E
        /\ P \in Nat \ {0} /\ 2 ^ (MAN + 1) = 2 * P
    BY ExactTyped, FloatPowers, RegisterWidths
  <2>4. k = c \div 2 ^ p /\ k + RoundingStep(0, k % 2 = 1, norm.sreg % 8) = R
    BY <2>2 DEF Kept
  <2>5. kept = k
    <3> DEFINE d == 2 ^ (MAN + 1)
    <3>1. d \in Nat \ {0} /\ k \in 0 .. d - 1
      <4>1. k \in P .. 2 * P - 1
        BY <2>3, <2>4
      <4> HIDE DEF k, P
      <4> QED BY <2>3, <4>1
    <3> HIDE DEF d, k
    <3>2. k % d = k
      BY <3>1, SmallReduced
    <3> QED BY <3>2 DEF d
  <2>6. ASSUME step # 0 PROVE inexact
    <3>1. c % 2 ^ p # 0
      <4> SUFFICES ASSUME c % 2 ^ p = 0 PROVE FALSE
        OBVIOUS
      <4>1. R = k
        BY <2>3, <2>4, NearestWhole
      <4>2. k + step = k
        BY <2>4, <2>5, <4>1
      <4>3. step \in Int /\ k \in Int
        <5>1. step \in {0, 1}
          BY DEF RoundingStep
        <5>2. k \in P .. 2 * P - 1
          BY <2>3, <2>4
        <5> HIDE DEF P, k, step
        <5> QED BY <2>3, <5>1, <5>2
      <4> HIDE DEF k, step
      <4> QED BY <2>6, <4>2, <4>3
    <3> DEFINE e == x - Bias - MAN
               y == e + Bias + MAN + p
    <3>2. e \in Int /\ y = x + p /\ y \in Nat
      <4>1. Bias \in Nat /\ MAN \in Nat
        BY ExponentSizes
      <4> HIDE DEF E
      <4>2. E \in Nat
        BY FloatPowers DEF E
      <4> QED BY <2>3, <4>1, <4>2
    <3>3. /\ y >= 1 => LastPlace(c, e) - e = p
          /\ y <= 0 => LastPlace(c, e) - e = p + 1 - y
      BY <2>3, <3>2, LastPlaceOf
    <3> HIDE DEF e, y
    <3>4. LastPlace(c, e) - e = p \/ LastPlace(c, e) - e = p + 1
      <4>1. y = 0 => p + 1 - y = p + 1
        BY <2>3
      <4> QED BY <3>2, <3>3, <4>1
    <3>5. Inexact(c, e)
      BY <2>3, <3>1, <3>2, <3>4, InexactAt
    <3> QED BY <3>5 DEF e
  <2> HIDE DEF step
  <2> QED BY <1>1, <2>1, <2>6 DEF Losing
<1> QED BY <1>2, <1>3

\* A number below the smallest of them: where the counter passes 0 the register
\* has lost what the last place of a subnormal number loses.
LEMMA LosingAtZero ==
    ASSUME NEW c, NEW x, NEW p, IsBelow(c, x, p), SinkingAt(norm, c, x, p), norm.cnt = 0,
           ShiftedFromSticky(norm.sreg) % 8 # 0
    PROVE  Inexact(c, x - Bias - MAN)
<1> DEFINE s == norm.sreg
           e == x - Bias - MAN
           y == e + Bias + MAN + p
           D == LastPlace(c, e) - e
<1>1. c # 0
  <2>1. c = 0 => s = 0
    BY DEF SinkingAt
  <2>2. 0 % 8 = 0
    OBVIOUS
  <2> QED BY <2>1, <2>2, ZeroFromSticky
<1>2. c \in Nat /\ p # 0 /\ IsSignificand(c, p) /\ x \in Int /\ x + p < 0
  BY <1>1 DEF IsBelow
<1>3. PICK t : norm.cnt = x + t /\ t > p /\ Coming(s, c, p, t)
  BY <1>1 DEF SinkingAt
<1>4. t \in 0 .. XLEN /\ s = Sticky(8 * c, 2 * 2 ^ t) /\ p \in 0 .. XLEN /\ XLEN \in Nat
  BY <1>2, <1>3, ExponentSizes DEF Coming, IsSignificand
<1>5. t \in 1 .. XLEN /\ x = -t
  BY <1>2, <1>3, <1>4
<1>6. c % 2 ^ t # 0
  <2> SUFFICES ASSUME c % 2 ^ t = 0 PROVE FALSE
    OBVIOUS
  <2>1. s % 8 = 0
    BY <1>2, <1>4, WholeRest
  <2>2. s \in Nat
    <3>1. IsExact(c, -p, p)
      <4>1. -p \in Int /\ (-p) + p = 0 /\ 0 \in 0 .. 2 ^ EXP
        BY <1>4, FloatPowers
      <4> QED BY <1>2, <4>1 DEF IsExact
    <3> QED BY <1>3, <3>1, ComingKept
  <2> HIDE DEF s
  <2>3. ShiftedFromSticky(s) % 8 = 0
    BY <2>1, <2>2, EmptyRest
  <2> QED BY <2>3 DEF s
<1>7. e \in Int /\ y = x + p /\ y <= 0 /\ p + 1 - y = t + 1
  <2>1. Bias \in Nat /\ MAN \in Nat
    BY ExponentSizes
  <2> QED BY <1>2, <1>4, <1>5, <2>1
<1>8. D = t + 1
  <2>1. D = p + 1 - y
    BY <1>2, <1>7, LastPlaceOf
  <2> HIDE DEF D, y
  <2> QED BY <1>7, <2>1
<1> HIDE DEF e
<1>9. Inexact(c, e)
  BY <1>2, <1>5, <1>6, <1>7, <1>8, InexactAt
<1> QED BY <1>9 DEF e

LEMMA LosingSinking ==
    ASSUME NormalizerTypes, NEW c, NEW x, NEW p, IsBelow(c, x, p), Sinking(norm, c, x, p),
           fpu.frm = 0,
           norm.state \in {"S_PREPARE_SHIFT", "S_NORMALIZE_BUSY", "S_ROUND", "S_CHECK"},
           NEW r, Follows(r), r.rounded = NormalizerStep.rounded,
           NEW inexact \in BOOLEAN, Inexact(c, x - Bias - MAN) => inexact, Losing(norm, inexact)
    PROVE  Losing(r, inexact)
<1> DEFINE high(n) == n \div 2 ^ (EXP - 1)
           F == 2 ^ (EXP + 1)
           s == norm.sreg
<1>1. /\ r.state = NormalizerStep.state /\ r.cnt = NormalizerStep.cnt
      /\ r.sreg = NormalizerStep.sreg /\ r.left = NormalizerStep.left
      /\ r.uf <=> norm.uf \/ (high(norm.cnt_pre) = 0 /\ high(norm.cnt) = 3)
  BY DEF Follows
<1>2. s \in Nat
  <2> DEFINE N == 2 ^ (XLEN + MAN + 3)
  <2>1. s \in 0 .. N - 1 /\ N \in Nat
    BY RegisterWidths DEF NormalizerTypes, NormalizerRecord
  <2> HIDE DEF N, s
  <2> QED BY <2>1
<1>3. \A n \in 0 .. AllOnes : n # F - 1 /\ high(n) # 3
  <2>1. \A n \in 0 .. AllOnes : n \div 2 ^ (EXP - 1) \notin {2, 3}
    BY BelowZero
  <2>2. (F - 1) \div 2 ^ (EXP - 1) = 3
    BY BelowZero
  <2> QED BY <2>1, <2>2
<1>4. norm.rounded => inexact
  BY DEF Losing
<1>5. CASE norm.state = "S_ROUND"
  <2> DEFINE kept == (s \div 8) % 2 ^ (MAN + 1)
             rest == s % 8
             step == RoundingStep(0, kept % 2 = 1, rest)
             m == (kept + step) % 2 ^ (MAN + 2)
  <2>1. norm.uf /\ r.uf
    BY <1>1, <1>5 DEF Sinking
  <2>2. r.rounded = (norm.rounded \/ step # 0) /\ r.sreg = 8 * m
    BY <1>1, <1>5, RoundedHere
  <2>3. step # 0 => inexact
    <3>1. step # 0 => rest # 0
      BY EmptyRest
    <3>2. rest # 0 => inexact
      BY <2>1 DEF Losing
    <3> QED BY <3>1, <3>2
  <2>4. r.sreg % 8 = 0
    <3>1. m \in Int
      <4> DEFINE d == 2 ^ (MAN + 1)
                 f == 2 ^ (MAN + 2)
                 n == s \div 8
      <4>1. d \in Nat \ {0} /\ f \in Nat \ {0}
        BY FloatPowers, RegisterWidths
      <4>2. n \in Int
        BY <1>2
      <4> HIDE DEF n, d, f
      <4>3. kept \in Int
        <5>1. n % d \in Int
          BY <4>1, <4>2, DivMod
        <5> QED BY <5>1 DEF n, d
      <4>4. step \in Int
        BY DEF RoundingStep
      <4> HIDE DEF kept, step
      <4>5. (kept + step) % f \in Int
        <5> DEFINE z == kept + step
        <5>1. z \in Int
          BY <4>3, <4>4
        <5> HIDE DEF z
        <5>2. z % f \in Int
          BY <4>1, <5>1, DivMod
        <5> QED BY <5>2 DEF z
      <4> QED BY <4>5 DEF f
    <3> HIDE DEF m
    <3> QED BY <2>2, <3>1, EmptyRest
  <2> HIDE DEF step
  <2> QED BY <1>4, <2>1, <2>2, <2>3, <2>4 DEF Losing
<1>6. CASE norm.state = "S_CHECK"
  <2>1. norm.uf /\ r.uf
    BY <1>1, <1>6 DEF Sinking
  <2>2. NormalizerStep.sreg = s
    BY <1>6 DEF NormalizerStep, NormalizerTypes, NormalizerRecord
  <2>3. r.rounded = norm.rounded
    BY <1>6, RoundedKept
  <2> QED BY <1>1, <2>1, <2>2, <2>3 DEF Losing
<1>7. CASE norm.state = "S_PREPARE_SHIFT"
  <2>1. r.sreg = s /\ r.cnt = norm.cnt /\ r.rounded = norm.rounded
    <3>1. NormalizerStep.sreg = s /\ NormalizerStep.cnt = norm.cnt
      BY <1>7 DEF NormalizerStep, NormalizerTypes, NormalizerRecord
    <3> QED BY <1>1, <1>7, <3>1, RoundedKept
  <2>2. CASE norm.uf
    BY <1>1, <2>1, <2>2 DEF Losing
  <2>3. CASE ~norm.uf
    <3>1. norm.cnt \in 0 .. AllOnes
      BY <1>7, <2>3 DEF Sinking, SinkingAt
    <3>2. ~r.uf /\ r.cnt # F - 1
      BY <1>1, <1>3, <2>1, <2>3, <3>1
    <3> QED BY <1>4, <2>1, <3>2 DEF Losing
  <2> QED BY <2>2, <2>3
<1>8. CASE norm.state = "S_NORMALIZE_BUSY"
  <2>0. NormalizerStep = NormalizeBusy /\ r.rounded = norm.rounded
    BY <1>8, RoundedKept DEF NormalizerStep
  <2>1. CASE norm.uf
    <3>1. NormalizerStep.sreg = s
      BY <2>0, <2>1 DEF NormalizeBusy, NormalizerTypes, NormalizerRecord
    <3> QED BY <1>1, <2>0, <2>1, <3>1 DEF Losing
  <2>2. CASE ~norm.uf /\ norm.cnt = F - 1 /\ norm.cnt_pre = 0
    <3>1. r.uf
      BY <1>1, <2>2, BelowZero
    <3>2. norm.left /\ (s % 8 # 0 => inexact)
      BY <2>2 DEF Losing
    <3>3. NormalizerStep.sreg = s \/ NormalizerStep.sreg = ShiftedFromSticky(s)
      BY <2>0, <2>2, <3>2 DEF NormalizeBusy, NormalizerTypes, NormalizerRecord
    <3> HIDE DEF s
    <3>4. r.sreg % 8 # 0 => inexact
      BY <1>1, <1>2, <3>2, <3>3, EmptyRest
    <3> QED BY <1>4, <2>0, <3>1, <3>4 DEF Losing
  <2>3. CASE ~norm.uf /\ norm.left /\ SinkingAt(norm, c, x, p)
    <3>1. ~norm.of /\ Upper = 0 /\ norm.cnt \in 0 .. AllOnes
      BY <2>3, SinkingUpper DEF Sinking, SinkingAt
    <3> DEFINE e == (norm.cnt - 1) % F
               z == ShiftedFromSticky(s)
               n == [norm EXCEPT !.cnt = e, !.sreg = z]
    <3>2. NormalizerStep = n
      BY <2>0, <2>3, <3>1 DEF NormalizeBusy
    <3> HIDE DEF e, z
    <3>3. n.cnt = e /\ n.sreg = z /\ n.left = norm.left
      BY DEF NormalizerTypes, NormalizerRecord
    <3> HIDE DEF n
    <3>4. r.cnt = e /\ r.sreg = z /\ r.left
      BY <1>1, <2>3, <3>2, <3>3
    <3>5. ~r.uf
      BY <1>1, <1>3, <2>3, <3>1
    <3>6. CASE norm.cnt = 0
      <4>1. z % 8 # 0 => Inexact(c, x - Bias - MAN)
        BY <2>3, <3>6, LosingAtZero DEF z
      <4> QED BY <1>4, <2>0, <3>4, <3>5, <4>1 DEF Losing
    <3>7. CASE norm.cnt # 0
      <4>1. norm.cnt \in 1 .. AllOnes
        BY <3>1, <3>7, FloatPowers DEF AllOnes
      <4>2. r.cnt \in 0 .. AllOnes
        BY <3>4, <4>1, BelowZero DEF e
      <4>3. r.cnt # F - 1
        BY <1>3, <4>2
      <4> QED BY <1>4, <2>0, <3>5, <4>3 DEF Losing
    <3> QED BY <3>6, <3>7
  <2> QED BY <1>8, <2>1, <2>2, <2>3 DEF Sinking
<1> QED BY <1>5, <1>6, <1>7, <1>8

LEMMA LosingPrepared ==
    ASSUME NormalizerTypes, norm.state = "S_PREPARE_NORM", norm.cnt \in 0 .. AllOnes, ~norm.uf,
           NEW r, Follows(r), r.rounded = NormalizerStep.rounded,
           NEW inexact \in BOOLEAN, Losing(norm, inexact)
    PROVE  Losing(r, inexact)
<1> DEFINE next == IF NeedsNoShift THEN "S_FINALIZE" ELSE "S_PREPARE_SHIFT"
           s == NormalizerMantissa
           n == [norm EXCEPT !.sreg = s, !.state = next]
           F == 2 ^ (EXP + 1)
<1>1. NormalizerStep = n
  BY DEF NormalizerStep
<1> HIDE DEF s, next
<1>2. n.cnt = norm.cnt /\ n.rounded = norm.rounded
  BY DEF NormalizerTypes, NormalizerRecord
<1> HIDE DEF n
<1>3. r.cnt = norm.cnt /\ r.rounded = norm.rounded
  BY <1>1, <1>2 DEF Follows
<1>4. ~r.uf /\ r.cnt # F - 1
  <2>1. \A m \in 0 .. AllOnes : m \div 2 ^ (EXP - 1) \notin {2, 3}
    BY BelowZero
  <2>2. (F - 1) \div 2 ^ (EXP - 1) = 3
    BY BelowZero
  <2>3. norm.cnt \div 2 ^ (EXP - 1) # 3
    BY <2>1
  <2> QED BY <1>3, <2>2, <2>3 DEF Follows
<1> HIDE DEF F
<1> QED BY <1>3, <1>4 DEF Losing, F

\* A normalizer that takes an input has rounded nothing yet.
LEMMA LosingTaken ==
    ASSUME NormalizerTypes, norm.state = "S_IDLE", NEW r, Follows(r),
           r.rounded = NormalizerStep.rounded, r.cnt \in 0 .. AllOnes, NEW inexact \in BOOLEAN
    PROVE  Losing(r, inexact)
<1> DEFINE F == 2 ^ (EXP + 1)
<1>1. NormalizerStep.rounded = FALSE
  BY DEF NormalizerStep, NormalizerTypes, NormalizerRecord
<1>2. ~r.uf
  BY DEF Follows
<1>3. r.cnt # F - 1
  <2>1. \A m \in 0 .. AllOnes : m \div 2 ^ (EXP - 1) \notin {2, 3}
    BY BelowZero
  <2>2. (F - 1) \div 2 ^ (EXP - 1) = 3
    BY BelowZero
  <2> QED BY <2>1, <2>2
<1> HIDE DEF F
<1> QED BY <1>1, <1>2, <1>3 DEF Losing, F

\* The last step adds what the class and the rounding raise.
LEMMA FinalFlagsKept ==
    ASSUME NormalizerTypes, NEW r, Follows(r)
    PROVE  /\ norm.state = "S_FINALIZE" => r.flags = FinalFlags
           /\ norm.state = "S_IDLE" /\ ~NormalizerStarts => r.flags = norm.flags
<1>1. CASE norm.state = "S_FINALIZE"
  <2> DEFINE word == FinalWord
             flags == FinalFlags
             n == [norm EXCEPT !.result = word, !.flags = flags, !.state = "S_IDLE"]
  <2>1. NormalizerStep = n
    BY <1>1 DEF NormalizerStep
  <2> HIDE DEF word, flags
  <2>2. n.flags = flags
    BY DEF NormalizerTypes, NormalizerRecord
  <2> HIDE DEF n
  <2> QED BY <1>1, <2>1, <2>2 DEF Follows, flags
<1>2. CASE norm.state = "S_IDLE" /\ ~NormalizerStarts
  <2>1. NormalizerStep.flags = norm.flags
    BY <1>2 DEF NormalizerStep, NormalizerTypes, NormalizerRecord
  <2> QED BY <1>2, <2>1 DEF Follows
<1> QED BY <1>1, <1>2

-----------------------------------------------------------------------------
(* What the range flags say of the word.                                   *)

NamesWord(flags, word) ==
    /\ flags \subseteq {"of", "uf"}
    /\ "of" \in flags <=> IsInfinite(word)
    /\ "uf" \in flags <=> IsZero(word)

LEMMA NamedWords ==
    ASSUME NEW sign \in {0, 1}
    PROVE  /\ NamesWord({"uf"}, FloatWord(sign, 0, 0))
           /\ NamesWord({"of"}, FloatWord(sign, 0, Infinity))
           /\ \A m \in 1 .. Infinity - 1 : NamesWord({}, FloatWord(sign, 0, m))
<1> DEFINE H == 2 ^ (XLEN - 1)
<1>1. Infinity \in Nat /\ 0 < Infinity /\ Infinity < H /\ H \in Nat
  <2>1. 0 \in Words
    BY ZeroBits
  <2>2. Infinity \in Nat /\ 2 ^ MAN <= Infinity /\ Infinity < H /\ 2 ^ MAN \in Nat \ {0} /\ H \in Nat
    BY <2>1, FloatClasses, FloatPowers
  <2> DEFINE P == 2 ^ MAN
  <2>3. P \in Nat \ {0} /\ P <= Infinity
    BY <2>2
  <2> HIDE DEF P, H
  <2> QED BY <2>2, <2>3
<1>2. ASSUME NEW m \in 0 .. Infinity
      PROVE  /\ IsZero(FloatWord(sign, 0, m)) <=> m = 0
             /\ IsInfinite(FloatWord(sign, 0, m)) <=> m = Infinity
  <2>1. m \in Nat /\ m < H
    <3> HIDE DEF H
    <3> QED BY <1>1
  <2>2. FloatWord(sign, 0, m) \in Words /\ Magnitude(FloatWord(sign, 0, m)) = m
    BY <2>1, FloatMade
  <2> QED BY <2>2, FloatClasses
<1>3. 0 \in 0 .. Infinity /\ Infinity \in 0 .. Infinity /\ 0 # Infinity
      /\ \A m \in 1 .. Infinity - 1 : m \in 0 .. Infinity /\ m # 0 /\ m # Infinity
  BY <1>1
<1> QED BY <1>2, <1>3 DEF NamesWord

\* The normal numbers are neither zero nor infinite.
LEMMA NormalMagnitude ==
    ASSUME NEW n \in 1 .. AllOnes - 1, NEW k \in 0 .. 2 ^ MAN - 1
    PROVE  n * 2 ^ MAN + k \in 1 .. Infinity - 1
<1> DEFINE P == 2 ^ MAN
           A == AllOnes
           d == A - n
           x == n * P
           y == d * P
<1>1. P \in Nat \ {0} /\ A \in Nat /\ Infinity = A * P
  BY FloatPowers, InfinityWord
<1>2. Infinity = x + y /\ x >= P /\ y >= P /\ x \in Int /\ y \in Int
  <2>1. d \in Nat \ {0} /\ n \in Nat \ {0} /\ A = d + n
    BY <1>1
  <2> HIDE DEF d, P, A
  <2>2. (d + n) * P = d * P + n * P
    BY <1>1, <2>1
  <2> QED BY <1>1, <2>1, <2>2
<1>3. k \in Nat /\ k < P
  <2> HIDE DEF P
  <2> QED BY <1>1 DEF P
<1> HIDE DEF x, y, P
<1>4. x + k \in 1 .. Infinity - 1
  BY <1>1, <1>2, <1>3
<1> QED BY <1>4 DEF x, P

\* A number at its place.
LEMMA ExactNames ==
    ASSUME NormalizerTypes, NEW c, NEW x, NEW p, IsExact(c, x, p), Underway(norm, c, x, p),
           norm.state = "S_FINALIZE", norm.sign \in {0, 1}
    PROVE  norm.class = {} /\ NamesWord(norm.flags, FinalWord)
<1> DEFINE sign == norm.sign
           P == 2 ^ MAN
           M == 2 ^ EXP
           A == AllOnes
           n == norm.cnt
           k == NearestEven(c, p)
<1>1. sign \in {0, 1}
  OBVIOUS
<1>2. P \in Nat \ {0} /\ M \in Nat \ {0} /\ A = M - 1 /\ A \in Nat
  BY FloatPowers DEF AllOnes
<1>3. FinalWord =
        IF norm.class \intersect NaNs # {} THEN QuietNaN
        ELSE IF norm.class \intersect Infinities # {} \/ "of" \in norm.flags
             THEN FloatWord(sign, 0, Infinity)
        ELSE IF norm.class \intersect Zeros # {}
             THEN FloatWord(IF "neg_zero" \in norm.class THEN 1 ELSE 0, 0, 0)
        ELSE IF "uf" \in norm.flags \/ Upper = 0 THEN FloatWord(sign, 0, 0)
        ELSE FloatWord(sign, norm.cnt % M, Lower)
  BY DEF FinalWord
<1>4. /\ norm.class = {} /\ norm.flags = Limits(n) /\ n \in 0 .. M /\ CompleteAt(norm, c, x, p)
  BY DEF Underway, Watched
<1>5. k \in P .. 2 * P
  BY ExactTyped
<1>6. norm.sreg = 8 * k \/ norm.sreg = 8 * P
  BY <1>4 DEF CompleteAt, RoundedAt, CarriedTo
<1> HIDE DEF k, sign
<1>7. CASE n = 0
  <2>1. norm.flags = {"uf"}
    BY <1>4, <1>7 DEF Limits
  <2>2. FinalWord = FloatWord(sign, 0, 0)
    BY <1>3, <1>4, <2>1
  <2> QED BY <1>1, <1>4, <2>1, <2>2, NamedWords
<1>8. CASE n # 0 /\ n \in {A, M}
  <2>1. norm.flags = {"of"}
    BY <1>4, <1>8 DEF Limits
  <2>2. FinalWord = FloatWord(sign, 0, Infinity)
    BY <1>3, <1>4, <2>1
  <2> QED BY <1>1, <1>4, <2>1, <2>2, NamedWords
<1>9. CASE n # 0 /\ n \notin {A, M}
  <2>1. norm.flags = {} /\ n # M
    BY <1>4, <1>9 DEF Limits
  <2>2. Upper = 1
    BY <1>4, <2>1 DEF CompleteAt, Upper
  <2>3. n \in 1 .. A - 1 /\ n % M = n /\ n \in Nat
    <3>1. n \in 1 .. A - 1 /\ n \in 0 .. M - 1
      <4> HIDE DEF n, A, M
      <4> QED BY <1>2, <1>4, <1>9
    <3>2. n % M = n
      <4> HIDE DEF n, M
      <4> QED BY <1>2, <3>1, SmallReduced
    <3> HIDE DEF n, A, M
    <3> QED BY <1>2, <3>1, <3>2
  <2>4. FinalWord = FloatWord(sign, n, Lower)
    BY <1>3, <1>4, <2>1, <2>2, <2>3
  <2>5. PICK z \in P .. 2 * P : norm.sreg = 8 * z
    <3>1. P \in P .. 2 * P
      <4> HIDE DEF P
      <4> QED BY <1>2
    <3> QED BY <1>5, <1>6, <3>1
  <2>6. Lower \in 0 .. P - 1
    <3>1. z < 2 * P /\ Lower = z - P
      BY <2>2, <2>5, LowerPlaces
    <3> DEFINE l == Lower
    <3> HIDE DEF P, l
    <3>2. l \in 0 .. P - 1
      BY <1>2, <2>5, <3>1 DEF l
    <3> QED BY <3>2 DEF l
  <2> DEFINE m == n * P + Lower
  <2>7. m \in 1 .. Infinity - 1
    BY <2>3, <2>6, NormalMagnitude
  <2>8. FinalWord = FloatWord(sign, 0, m)
    <3> DEFINE H == 2 ^ (XLEN - 1)
               h == sign * H
               l == Lower
               w == n * P
    <3>1. FloatWord(sign, n, l) = h + w + l /\ FloatWord(sign, 0, m) = h + 0 * P + m
      BY DEF FloatWord
    <3>2. h \in Int /\ w \in Int /\ l \in Int /\ 0 * P = 0
      <4>1. H \in Nat
        BY FloatPowers
      <4> HIDE DEF P, n, H
      <4> QED BY <1>1, <1>2, <2>3, <2>6, <4>1
    <3>3. m = w + l
      OBVIOUS
    <3> HIDE DEF h, w, l, m, P
    <3>4. h + w + l = h + 0 * P + m
      BY <3>2, <3>3
    <3> QED BY <2>4, <3>1, <3>4 DEF l
  <2> HIDE DEF m
  <2> QED BY <1>1, <1>4, <2>1, <2>7, <2>8, NamedWords
<1> QED BY <1>7, <1>8, <1>9

LEMMA SunkNames ==
    ASSUME NEW c, NEW x, NEW p, IsBelow(c, x, p), Sinking(norm, c, x, p),
           norm.state = "S_FINALIZE", norm.sign \in {0, 1}
    PROVE  norm.class = {} /\ NamesWord(norm.flags, FinalWord)
<1>1. norm.class = {} /\ norm.flags = {"uf"}
  BY DEF Sinking
<1>2. FinalWord = FloatWord(norm.sign, 0, 0)
  BY FinalSunk
<1> QED BY <1>1, <1>2, NamedWords

LEMMA ProductNames ==
    ASSUME NormalizerTypes, ControlTypes, Multiplying(norm), norm.state = "S_FINALIZE",
           MulClass(fpu.a, fpu.b) = {}
    PROVE  norm.class = {} /\ NamesWord(norm.flags, FinalWord)
<1> DEFINE flags == MulFlags(fpu.a, fpu.b)
           E == MulExponent(fpu.a, fpu.b)
           M == 2 ^ EXP
           A == AllOnes
           sign == MulSign(fpu.a, fpu.b)
<1>1. norm.sign = sign /\ E \in Int /\ sign \in {0, 1}
  BY ProductTyped DEF Multiplying, MulSign
<1>2. CASE Ordinary
  <2>1. PICK p : ProductPlace(p) /\ Underway(norm, Multiplied, ProductOffset, p)
    BY <1>2 DEF Multiplying
  <2>2. IsExact(Multiplied, ProductOffset, p)
    BY <1>2, <2>1, ProductTyped
  <2> QED BY <1>1, <2>1, <2>2, ExactNames
<1>3. CASE ~Ordinary
  <2>1. norm.class = {} /\ norm.flags = flags
    BY <1>3 DEF Multiplying
  <2>2. /\ "of" \in flags <=> E >= M
        /\ "uf" \in flags <=> E < 0
        /\ "nv" \in flags <=> ZeroTimesInfinity(fpu.a, fpu.b)
        /\ flags \subseteq {"nv", "of", "uf"}
    BY DEF MulFlags
  <2>3. "nv" \notin flags
    <3> SUFFICES ASSUME ZeroTimesInfinity(fpu.a, fpu.b) PROVE FALSE
      BY <2>2
    <3>1. "qnan" \in MulClass(fpu.a, fpu.b)
      BY DEF MulClass
    <3> QED BY <3>1
  <2>4. (E >= M /\ ~(E < 0)) \/ (E < 0 /\ ~(E >= M))
    <3>1. ~(E \in 0 .. A)
      BY <1>3 DEF Ordinary
    <3>2. A = M - 1 /\ M \in Nat
      BY FloatPowers DEF AllOnes
    <3> HIDE DEF E, M, A
    <3> QED BY <1>1, <3>1, <3>2
  <2>5. flags = {"of"} \/ flags = {"uf"}
    <3> HIDE DEF flags, E, M
    <3> QED BY <2>2, <2>3, <2>4
  <2> HIDE DEF flags
  <2>6. CASE flags = {"of"}
    <3>1. FinalWord = FloatWord(sign, 0, Infinity)
      BY <1>1, <2>1, <2>6 DEF FinalWord
    <3> QED BY <1>1, <2>1, <2>6, <3>1, NamedWords
  <2>7. CASE flags = {"uf"}
    <3>1. FinalWord = FloatWord(sign, 0, 0)
      BY <1>1, <2>1, <2>7 DEF FinalWord
    <3> QED BY <1>1, <2>1, <2>7, <3>1, NamedWords
  <2> QED BY <2>5, <2>6, <2>7
<1> QED BY <1>2, <1>3

LEMMA SumNames ==
    ASSUME NormalizerTypes, Summing(norm), norm.state = "S_FINALIZE", SumClass = {}
    PROVE  norm.class = {} /\ NamesWord(norm.flags, FinalWord)
<1>1. norm.sign \in {0, 1}
  BY DEF NormalizerTypes, NormalizerRecord
<1>2. PICK c, x, p : Normalizes(norm, c, x, p)
  BY DEF Summing
<1> QED BY <1>1, <1>2, ExactNames, SunkNames DEF Normalizes

\* The float of a number, whatever its sign.
RoundsTo(c, e, m) == \A sign \in {0, 1} : Rounded(sign, c, e) = FloatWord(sign, 0, m)
HasMagnitude(c, e) == \E m \in 0 .. Infinity : RoundsTo(c, e, m)

LEMMA MagnitudeRounds ==
    ASSUME NEW c \in Nat, NEW p, NEW e \in Int, p # 0, IsSignificand(c, p)
    PROVE  HasMagnitude(c, e)
<1> DEFINE P == 2 ^ MAN
           R == NearestEven(c, p)
           y == e + Bias + MAN + p
<1>1. Infinity \in Nat /\ P <= Infinity /\ P \in Nat
  BY InfinityWord, FloatPowers
<1>2. R \in P .. 2 * P /\ y \in Int
  BY LengthOfPlaces, LastPlaceOf
<1>3. CASE y >= 1
  <2> DEFINE z == (y - 1) * P
             m == z + R
             k == Min({m, Infinity})
  <2>1. RoundsTo(c, e, k)
    <3>1. ASSUME NEW sign \in {0, 1} PROVE Rounded(sign, c, e) = FloatWord(sign, 0, k)
      <4>1. Rounded(sign, c, e)
              = FloatWord(sign, 0, Min({((e + Bias + MAN + p) - 1) * 2 ^ MAN + NearestEven(c, p), Infinity}))
        BY <1>3, RoundedNormal
      <4> QED BY <4>1
    <3> QED BY <3>1 DEF RoundsTo
  <2>2. m \in Nat
    <3>1. z \in Nat /\ R \in Nat
      <4> HIDE DEF y, R, P
      <4> QED BY <1>1, <1>2, <1>3
    <3> HIDE DEF z, R
    <3> QED BY <3>1
  <2> HIDE DEF m
  <2>3. k \in 0 .. Infinity
    <3>1. \A u, v \in Nat : Min({u, v}) \in {u, v} /\ Min({u, v}) <= v
      BY DEF Min
    <3> QED BY <1>1, <2>2, <3>1
  <2> HIDE DEF k
  <2> QED BY <2>1, <2>3 DEF HasMagnitude
<1>4. CASE y <= 0
  <2>1. PICK m \in 0 .. P : RoundsTo(c, e, m)
    BY <1>4, RoundedSmall DEF RoundsTo
  <2>2. m \in 0 .. Infinity
    <3> HIDE DEF P
    <3> QED BY <1>1, <2>1
  <2> QED BY <2>1, <2>2 DEF HasMagnitude
<1>5. y >= 1 \/ y <= 0
  <2> HIDE DEF y, R
  <2> QED BY <1>2
<1> HIDE DEF y
<1> QED BY <1>1, <1>3, <1>4, <1>5

-----------------------------------------------------------------------------
(* The flags of a word and the exceptions of C.                            *)

FlagsFit(flags, word, raised, finite) ==
    /\ flags \subseteq {"nv", "of", "uf", "nx"}
    /\ "FE_INVALID" \in raised => "nv" \in flags
    /\ finite => /\ "nv" \in flags <=> "FE_INVALID" \in raised
                 /\ "of" \in flags <=> "FE_OVERFLOW" \in raised
    /\ "FE_UNDERFLOW" \in raised => "uf" \in flags
    /\ "uf" \in flags => IsZero(word)
    /\ "nx" \in flags => "FE_INEXACT" \in raised

Rounds(flags, rounded) == flags \union (IF rounded THEN {"nx"} ELSE {})

\* A word that stands for a rounded number is infinite, and zero, where C raises
\* an overflow, and an underflow.
LEMMA LikeRounded ==
    ASSUME NEW sign \in {0, 1}, NEW c \in Nat, NEW p, p # 0, IsSignificand(c, p), NEW e \in Int,
           NEW word, RoundedLike(word, subnormal_flush(Rounded(sign, c, e)))
    PROVE  /\ IsInfinite(word) <=> IsInfinite(Rounded(0, c, e))
           /\ ExponentOf(Rounded(0, c, e)) = 0 => IsZero(word)
<1> DEFINE P == 2 ^ MAN
           H == 2 ^ (XLEN - 1)
           I == Infinity
<1>1. PICK m \in 0 .. I : RoundsTo(c, e, m)
  <2>1. HasMagnitude(c, e)
    BY MagnitudeRounds
  <2> QED BY <2>1 DEF HasMagnitude
<1>2. I \in Nat /\ P <= I /\ I < H /\ H \in Nat /\ P \in Nat \ {0} /\ P # I
  <2>1. 0 \in Words
    BY ZeroBits
  <2>2. I \in Nat /\ P <= I /\ I < H /\ P \in Nat \ {0} /\ H \in Nat
    BY <2>1, FloatClasses, FloatPowers
  <2>3. I = AllOnes * P /\ AllOnes \in Nat
    BY InfinityWord, FloatPowers DEF AllOnes
  <2>4. AllOnes # 1 /\ AllOnes # 0
    BY ExponentSizes
  <2>5. P # I
    <3>1. AllOnes >= 2
      BY <2>3, <2>4
    <3>2. AllOnes * P >= 2 * P
      <4> HIDE DEF P
      <4> QED BY <2>2, <2>3, <3>1
    <3> DEFINE z == AllOnes * P
    <3> HIDE DEF P, z, I
    <3> QED BY <2>2, <2>3, <3>2 DEF z
  <2> HIDE DEF P, H
  <2> QED BY <2>2, <2>5
<1>3. m \in Nat /\ m < H
  <2> HIDE DEF H
  <2> QED BY <1>1, <1>2
<1>4. ASSUME NEW s \in {0, 1}, NEW k \in Nat, k < H
      PROVE  /\ FloatWord(s, 0, k) \in Words /\ Magnitude(FloatWord(s, 0, k)) = k
             /\ SignOf(FloatWord(s, 0, k)) = s
             /\ IsZero(FloatWord(s, 0, k)) <=> k = 0
             /\ IsInfinite(FloatWord(s, 0, k)) <=> k = I
             /\ ExponentOf(FloatWord(s, 0, k)) = 0 <=> k < P
  <2>1. /\ FloatWord(s, 0, k) \in Words /\ Magnitude(FloatWord(s, 0, k)) = k
        /\ SignOf(FloatWord(s, 0, k)) = s
    BY <1>4, FloatMade
  <2> QED BY <2>1, FloatClasses
<1> DEFINE j == IF m < P THEN 0 ELSE m
           value == FloatWord(sign, 0, j)
<1>5. subnormal_flush(Rounded(sign, c, e)) = value
  BY <1>1, <1>3, FlushedWord DEF RoundsTo
<1>6. j \in Nat /\ j < H /\ 0 \in Nat /\ 0 < H
  <2> HIDE DEF P, H
  <2> QED BY <1>2, <1>3
<1>7. Magnitude(value) = j /\ SignOf(value) = sign
  BY <1>4, <1>6
<1>8. word = value \/ (j = P /\ word = FloatWord(sign, 0, 0))
  BY <1>5, <1>7, SmallestWord DEF RoundedLike
<1>9. /\ IsInfinite(Rounded(0, c, e)) <=> m = I
      /\ ExponentOf(Rounded(0, c, e)) = 0 <=> m < P
  BY <1>1, <1>3, <1>4 DEF RoundsTo
<1>10. CASE word = value
  <2>1. (IsZero(word) <=> j = 0) /\ (IsInfinite(word) <=> j = I)
    BY <1>4, <1>6, <1>10
  <2>2. (m < P => j = 0) /\ (m = I <=> j = I)
    <3> HIDE DEF P
    <3> QED BY <1>2, <1>3
  <2> HIDE DEF j, P, I
  <2> QED BY <1>9, <2>1, <2>2
<1>11. CASE j = P /\ word = FloatWord(sign, 0, 0)
  <2>1. IsZero(word) /\ ~IsInfinite(word)
    <3>1. 0 # I
      <4> HIDE DEF P
      <4> QED BY <1>2
    <3> QED BY <1>4, <1>6, <1>11, <3>1
  <2>2. m # I
    <3> HIDE DEF P
    <3> QED BY <1>2, <1>3, <1>11
  <2> HIDE DEF j, P, I
  <2> QED BY <1>9, <2>1, <2>2
<1> QED BY <1>8, <1>10, <1>11

LEMMA RoundingFits ==
    ASSUME NEW flags, NEW word, NamesWord(flags, word), NEW sign \in {0, 1},
           NEW c \in Nat, NEW p, p # 0, IsSignificand(c, p), NEW f \in Int,
           RoundedLike(word, subnormal_flush(Rounded(sign, c, f))),
           NEW n, NEW e, SameInC(c, f, n, e), NEW rounded, rounded => Inexact(n, e)
    PROVE  FlagsFit(Rounds(flags, rounded), word, RoundingRaises(n, e), TRUE)
<1> DEFINE z == Rounded(0, n, e)
           inexact == Inexact(n, e)
<1>1. Rounded(0, c, f) = z
  BY DEF SameInC
<1>2. /\ IsInfinite(word) <=> IsInfinite(z)
      /\ ExponentOf(z) = 0 => IsZero(word)
  BY <1>1, LikeRounded
<1>3. RoundingRaises(n, e) = (IF IsInfinite(z) THEN {"FE_OVERFLOW"} ELSE {})
                             \union (IF inexact /\ ExponentOf(z) = 0 THEN {"FE_UNDERFLOW"} ELSE {})
                             \union (IF inexact \/ IsInfinite(z) THEN {"FE_INEXACT"} ELSE {})
  BY DEF RoundingRaises, Inexact
<1> HIDE DEF z
<1>4. rounded => inexact
  OBVIOUS
<1> HIDE DEF inexact
<1>5. /\ "FE_INVALID" \notin RoundingRaises(n, e)
      /\ "FE_OVERFLOW" \in RoundingRaises(n, e) <=> IsInfinite(z)
      /\ "FE_UNDERFLOW" \in RoundingRaises(n, e) <=> inexact /\ ExponentOf(z) = 0
      /\ inexact => "FE_INEXACT" \in RoundingRaises(n, e)
  BY <1>3
<1>6. /\ Rounds(flags, rounded) \subseteq {"nv", "of", "uf", "nx"}
      /\ "nv" \notin Rounds(flags, rounded)
      /\ "of" \in Rounds(flags, rounded) <=> IsInfinite(word)
      /\ "uf" \in Rounds(flags, rounded) <=> IsZero(word)
      /\ "nx" \in Rounds(flags, rounded) => rounded
  BY DEF Rounds, NamesWord
<1> QED BY <1>2, <1>4, <1>5, <1>6 DEF FlagsFit

\* An exact zero raises nothing.
LEMMA NothingRaised ==
    ASSUME NEW e
    PROVE  RoundingRaises(0, e) = {} /\ ~Inexact(0, e)
<1>1. ~Inexact(0, e)
  BY DEF Inexact
<1>2. Rounded(0, 0, e) = FloatWord(0, 0, 0)
  BY DEF Rounded
<1>3. ~IsInfinite(FloatWord(0, 0, 0))
  <2>1. NamesWord({"uf"}, FloatWord(0, 0, 0))
    BY NamedWords
  <2> QED BY <2>1 DEF NamesWord
<1>4. RoundingRaises(0, e) = {}
  BY <1>2, <1>3 DEF RoundingRaises
<1> QED BY <1>1, <1>4

LEMMA ZeroFits ==
    ASSUME NEW flags, NEW word, NamesWord(flags, word), IsZero(word)
    PROVE  FlagsFit(Rounds(flags, FALSE), word, {}, TRUE)
<1>1. ~IsInfinite(word)
  BY DEF IsZero, IsInfinite
<1>2. Rounds(flags, FALSE) \subseteq {"uf"}
  BY <1>1 DEF Rounds, NamesWord
<1> QED BY <1>2 DEF FlagsFit

-----------------------------------------------------------------------------
(* The flags of a product.                                                 *)

ProductLossy ==
    MulClass(fpu.a, fpu.b) = {} /\ Inexact(Multiplied, ProductOffset - Bias - MAN)

LEMMA ProductCounts ==
    ASSUME ControlTypes
    PROVE  MulExponent(fpu.a, fpu.b) % 2 ^ EXP \in 0 .. AllOnes
<1> DEFINE M == 2 ^ EXP
           E == MulExponent(fpu.a, fpu.b)
<1>1. E \in Int /\ M \in Nat \ {0} /\ AllOnes = M - 1
  BY ProductTyped, FloatPowers DEF AllOnes
<1> HIDE DEF E, M
<1>2. E % M \in 0 .. M - 1
  BY <1>1, ReducedRange
<1> QED BY <1>1, <1>2 DEF E, M

LEMMA ProductLoses ==
    ASSUME NormalizerTypes, ControlTypes, fpu.op = "mul", fpu.frm = 0,
           norm.state \notin {"S_IDLE", "S_FINALIZE"}, Multiplying(norm),
           NEW r, Follows(r), r.rounded = NormalizerStep.rounded, Losing(norm, ProductLossy)
    PROVE  Losing(r, ProductLossy)
<1>1. ProductLossy \in BOOLEAN
  BY DEF ProductLossy
<1>2. CASE norm.state = "S_PREPARE_NORM"
  <2>1. norm.cnt \in 0 .. AllOnes /\ ~norm.uf
    BY <1>2, ProductCounts DEF Multiplying
  <2> QED BY <1>1, <1>2, <2>1, LosingPrepared
<1>3. CASE norm.state # "S_PREPARE_NORM"
  <2>1. /\ Ordinary
        /\ norm.state \in {"S_PREPARE_SHIFT", "S_NORMALIZE_BUSY", "S_ROUND", "S_CHECK"}
    BY <1>3 DEF Multiplying, NormalizerTypes, NormalizerRecord
  <2>2. PICK p : ProductPlace(p) /\ Underway(norm, Multiplied, ProductOffset, p)
    BY <1>3, <2>1 DEF Multiplying
  <2>3. IsExact(Multiplied, ProductOffset, p)
    BY <2>1, <2>2, ProductTyped
  <2>4. Inexact(Multiplied, ProductOffset - Bias - MAN) => ProductLossy
    BY <2>1 DEF ProductLossy, Ordinary
  <2> QED BY <1>1, <2>1, <2>2, <2>3, <2>4, LosingUnderway
<1> QED BY <1>2, <1>3

LEMMA ProductLostNothing ==
    ASSUME NormalizerTypes, ControlTypes, fpu.op = "mul", norm.state = "S_IDLE",
           NEW r, Follows(r), r.rounded = NormalizerStep.rounded, r.state # "S_IDLE"
    PROVE  Losing(r, ProductLossy)
<1>1. ProductLossy \in BOOLEAN
  BY DEF ProductLossy
<1>2. Multiplying(r)
  BY MultiplierTakes
<1>3. r.state = "S_PREPARE_NORM"
  <2> DEFINE idle == [norm EXCEPT !.norm_r = FALSE, !.rounded = FALSE]
             input == NormalizerInput
             n == [idle EXCEPT !.state = input.state, !.cnt = input.cnt, !.sign = input.sign,
                               !.class = input.class, !.flags = input.flags]
  <2>1. input.state = "S_PREPARE_NORM"
    BY DEF NormalizerInput
  <2>2. NormalizerStep \in {idle, n}
    BY DEF NormalizerStep
  <2> HIDE DEF input
  <2>3. idle.state = "S_IDLE" /\ n.state = input.state
    BY DEF NormalizerTypes, NormalizerRecord
  <2> HIDE DEF idle, n
  <2> QED BY <2>1, <2>2, <2>3 DEF Follows
<1>4. r.cnt \in 0 .. AllOnes
  BY <1>2, <1>3, ProductCounts DEF Multiplying
<1> QED BY <1>1, <1>4, LosingTaken

-----------------------------------------------------------------------------
(* The flags of a sum.                                                     *)

SummedInC == ExactSum(fpu.a, Addend(fpu.b, fpu.sub))
SumLossy == SumClass = {} /\ Inexact(SummedInC.n, SummedInC.e)

LEMMA SumCounts ==
    ASSUME ControlTypes
    PROVE  LargeExponent(fpu.a, fpu.b) \in 0 .. AllOnes
<1>1. fpu.a \in Words /\ fpu.b \in Words
  BY DEF ControlTypes
<1> QED BY <1>1, FloatParts DEF LargeExponent, LargeOperand

LEMMA SumLoses ==
    ASSUME NormalizerTypes, ControlTypes, fpu.op = "addsub", fpu.frm = 0,
           norm.state \notin {"S_IDLE", "S_FINALIZE"}, Summing(norm),
           NEW r, Follows(r), r.rounded = NormalizerStep.rounded, Losing(norm, SumLossy)
    PROVE  Losing(r, SumLossy)
<1>1. SumLossy \in BOOLEAN
  BY DEF SumLossy
<1>2. CASE norm.state = "S_PREPARE_NORM"
  <2>1. norm.cnt \in 0 .. AllOnes /\ ~norm.uf
    BY <1>2, SumCounts DEF Summing
  <2> QED BY <1>1, <1>2, <2>1, LosingPrepared
<1>3. CASE norm.state # "S_PREPARE_NORM"
  <2>1. /\ SumClass = {}
        /\ norm.state \in {"S_PREPARE_SHIFT", "S_NORMALIZE_BUSY", "S_ROUND", "S_CHECK"}
    BY <1>3 DEF Summing, NormalizerTypes, NormalizerRecord
  <2>2. PICK c, x, p : Normalizes(norm, c, x, p)
    BY <1>3, <2>1 DEF Summing
  <2>3. Inexact(c, x - Bias - MAN) => SumLossy
    <3>1. CASE c = 0
      BY <3>1 DEF Inexact
    <3>2. CASE c # 0
      BY <2>1, <2>2, <3>2 DEF Normalizes, GivesSum, SameInC, SumLossy, SummedInC
    <3> QED BY <3>1, <3>2
  <2>4. CASE IsExact(c, x, p) /\ Underway(norm, c, x, p)
    BY <1>1, <2>1, <2>3, <2>4, LosingUnderway
  <2>5. CASE IsBelow(c, x, p) /\ Sinking(norm, c, x, p)
    BY <1>1, <2>1, <2>3, <2>5, LosingSinking
  <2> QED BY <2>2, <2>4, <2>5 DEF Normalizes
<1> QED BY <1>2, <1>3

LEMMA SumLostNothing ==
    ASSUME NormalizerTypes, ControlTypes, fpu.op = "addsub", norm.state = "S_IDLE",
           adder.state = "DONE" => SumAligned,
           NEW r, Follows(r), r.rounded = NormalizerStep.rounded, r.state # "S_IDLE"
    PROVE  Losing(r, SumLossy)
<1>1. SumLossy \in BOOLEAN
  BY DEF SumLossy
<1>2. Summing(r)
  BY SumTakes
<1>3. r.state = "S_PREPARE_NORM"
  <2> DEFINE idle == [norm EXCEPT !.norm_r = FALSE, !.rounded = FALSE]
             input == NormalizerInput
             n == [idle EXCEPT !.state = input.state, !.cnt = input.cnt, !.sign = input.sign,
                               !.class = input.class, !.flags = input.flags]
  <2>1. input.state = "S_PREPARE_NORM"
    BY DEF NormalizerInput
  <2>2. NormalizerStep \in {idle, n}
    BY DEF NormalizerStep
  <2> HIDE DEF input
  <2>3. idle.state = "S_IDLE" /\ n.state = input.state
    BY DEF NormalizerTypes, NormalizerRecord
  <2> HIDE DEF idle, n
  <2> QED BY <2>1, <2>2, <2>3 DEF Follows
<1>4. r.cnt \in 0 .. AllOnes
  BY <1>2, <1>3, SumCounts DEF Summing
<1> QED BY <1>1, <1>4, LosingTaken

-----------------------------------------------------------------------------
(* What an operation raises in C.                                          *)

Finite(a, b) == ~IsNaN(a) /\ ~IsNaN(b) /\ ~IsInfinite(a) /\ ~IsInfinite(b)

LEMMA RaisedOf ==
    ASSUME NEW a, NEW b, NEW v, NEW n, NEW e, Finite(a, b) => ~IsNaN(v)
    PROVE  LET raised == Raises(a, b, v, n, e)
               signals == IsSignaling(a) \/ IsSignaling(b)
           IN  /\ "FE_INVALID" \in raised => signals \/ (IsNaN(v) /\ ~IsNaN(a) /\ ~IsNaN(b))
               /\ raised \in {{"FE_INVALID"}, {}} \/ (Finite(a, b) /\ raised = RoundingRaises(n, e))
               /\ Finite(a, b) => raised = RoundingRaises(n, e)
<1> DEFINE raised == Raises(a, b, v, n, e)
           rounding == RoundingRaises(n, e)
           signals == IsSignaling(a) \/ IsSignaling(b)
           made == IsNaN(v) /\ ~IsNaN(a) /\ ~IsNaN(b)
           finite == {fpclassify(a), fpclassify(b)} \intersect {"FP_NAN", "FP_INFINITE"} = {}
<1>1. raised = CASE signals -> {"FE_INVALID"}
                 [] made -> {"FE_INVALID"}
                 [] finite -> rounding
                 [] OTHER -> {}
  BY DEF Raises
<1>2. finite <=> Finite(a, b)
  BY DEF Finite, IsNaN, IsInfinite
<1>3. signals => ~Finite(a, b)
  BY DEF Finite, IsSignaling
<1>4. "FE_INVALID" \notin rounding
  BY DEF RoundingRaises
<1>5. signals \in BOOLEAN /\ made \in BOOLEAN /\ finite \in BOOLEAN
  BY DEF IsNaN, IsInfinite
<1> HIDE DEF raised, rounding, signals, finite
<1>6. CASE signals \/ made
  <2>1. raised = {"FE_INVALID"}
    <3>1. ~finite
      BY <1>2, <1>3, <1>6
    <3> HIDE DEF made
    <3> QED BY <1>1, <1>6, <3>1
  <2> QED BY <1>3, <1>6, <2>1 DEF raised, signals
<1>7. CASE ~signals /\ ~made
  <2>1. raised = IF finite THEN rounding ELSE {}
    BY <1>1, <1>7
  <2> QED BY <1>2, <1>4, <1>7, <2>1 DEF raised, signals, rounding
<1> QED BY <1>6, <1>7

LEMMA SignalingClass ==
    ASSUME NEW w \in Words, IsSignaling(w)
    PROVE  ClassOf(w) = "snan"
<1>1. IsNaN(w) /\ ~IsInfinite(w) /\ ~IsZero(w) /\ Bit(w, MAN - 1) # 1
  BY DEF IsSignaling, IsNaN, IsInfinite, IsZero
<1> QED BY <1>1 DEF ClassOf

\* No number is rounded to a word that is none.
LEMMA WordIsNumber ==
    ASSUME NEW s \in {0, 1}, NEW m \in 0 .. Infinity
    PROVE  ~IsNaN(FloatWord(s, 0, m))
<1> DEFINE H == 2 ^ (XLEN - 1)
<1>1. Infinity \in Nat /\ Infinity < H /\ H \in Nat
  <2>1. 0 \in Words
    BY ZeroBits
  <2> QED BY <2>1, FloatClasses, FloatPowers
<1>2. m \in Nat /\ m < H /\ ~(m > Infinity)
  <2> HIDE DEF H
  <2> QED BY <1>1
<1>3. FloatWord(s, 0, m) \in Words /\ Magnitude(FloatWord(s, 0, m)) = m
  BY <1>2, FloatMade
<1> QED BY <1>2, <1>3, FloatClasses

LEMMA RoundedNumber ==
    ASSUME NEW s \in {0, 1}, NEW c \in Nat, NEW p, NEW e \in Int, p # 0, IsSignificand(c, p)
    PROVE  ~IsNaN(Rounded(s, c, e))
<1>1. HasMagnitude(c, e)
  BY MagnitudeRounds
<1>2. PICK m \in 0 .. Infinity : RoundsTo(c, e, m)
  BY <1>1 DEF HasMagnitude
<1> QED BY <1>2, WordIsNumber DEF RoundsTo

\* The flush keeps what is not a number.
LEMMA FlushedNaN ==
    /\ \A v : IsNaN(v) => subnormal_flush(v) = v
    /\ \A s \in {0, 1} : ~IsNaN(FloatWord(s, 0, Infinity)) /\ ~IsNaN(FloatWord(s, 0, 0))
<1>1. Infinity \in Nat
  <2>1. 0 \in Words
    BY ZeroBits
  <2> QED BY <2>1, FloatClasses
<1>2. Infinity \in 0 .. Infinity /\ 0 \in 0 .. Infinity
  BY <1>1
<1>3. \A v : IsNaN(v) => subnormal_flush(v) = v
  BY DEF IsNaN, subnormal_flush
<1> QED BY <1>2, <1>3, WordIsNumber

\* The flags of an operation that needs no normalization.
LEMMA SpecialFits ==
    ASSUME NEW a, NEW b, NEW v, NEW n, NEW e, NEW flags, NEW class, NEW word,
           flags \subseteq {"nv", "of", "uf"},
           IsSignaling(a) \/ IsSignaling(b) => "snan" \in class,
           IsNaN(v) /\ ~IsNaN(a) /\ ~IsNaN(b) => "nv" \in flags,
           Finite(a, b) => /\ n = 0 /\ ~IsNaN(v) /\ "snan" \notin class
                           /\ "nv" \notin flags /\ "of" \notin flags,
           "uf" \in flags => IsZero(word)
    PROVE  FlagsFit(flags \union (IF "snan" \in class THEN {"nv"} ELSE {}), word,
                    Raises(a, b, v, n, e), Finite(a, b))
<1> DEFINE raised == Raises(a, b, v, n, e)
           all == flags \union (IF "snan" \in class THEN {"nv"} ELSE {})
<1>1. /\ "FE_INVALID" \in raised =>
           IsSignaling(a) \/ IsSignaling(b) \/ (IsNaN(v) /\ ~IsNaN(a) /\ ~IsNaN(b))
      /\ raised \in {{"FE_INVALID"}, {}} \/ (Finite(a, b) /\ raised = RoundingRaises(n, e))
      /\ Finite(a, b) => raised = RoundingRaises(n, e)
  BY RaisedOf
<1>2. RoundingRaises(0, e) = {}
  BY NothingRaised
<1> HIDE DEF raised
<1>3. raised \in {{"FE_INVALID"}, {}} /\ (Finite(a, b) => raised = {})
  BY <1>1, <1>2
<1>4. "FE_INVALID" \in raised => "nv" \in all
  BY <1>1
<1>5. /\ all \subseteq {"nv", "of", "uf"} /\ ("uf" \in all => IsZero(word))
      /\ Finite(a, b) => "nv" \notin all /\ "of" \notin all
  OBVIOUS
<1> HIDE DEF all
<1> QED BY <1>3, <1>4, <1>5 DEF FlagsFit, all, raised

-----------------------------------------------------------------------------
(* The flags that a product ends with.                                     *)

\* The product of C that is to be normalized.
LEMMA ProductOfNumbers ==
    ASSUME ControlTypes, IsFlushed(fpu.a), IsFlushed(fpu.b), MulClass(fpu.a, fpu.b) = {}
    PROVE  LET f == ProductOffset - Bias - MAN
               sign == MulSign(fpu.a, fpu.b)
           IN  /\ Finite(fpu.a, fpu.b) /\ f \in Int /\ sign \in {0, 1}
               /\ Significand(fpu.a) * Significand(fpu.b) = Multiplied
               /\ Scale(fpu.a) + Scale(fpu.b) = f
               /\ Product(fpu.a, fpu.b) = Rounded(sign, Multiplied, f)
<1> DEFINE a == fpu.a
           b == fpu.b
           e == Scale(a) + Scale(b)
           f == ProductOffset - Bias - MAN
           E == MulExponent(a, b)
<1>1. a \in Words /\ b \in Words /\ MulSign(a, b) \in {0, 1}
  BY DEF IsFlushed, MulSign
<1>2. /\ ~IsNaN(a) /\ ~IsNaN(b) /\ ~IsInfinite(a) /\ ~IsInfinite(b) /\ ~IsZero(a) /\ ~IsZero(b)
  BY <1>1, ClassOfProduct
<1>3. ~IsSpecial(a) /\ ~IsSpecial(b)
  BY <1>1, <1>2, KindOfClass DEF IsSpecial
<1>4. ExponentOf(a) # 0 /\ ExponentOf(b) # 0
  BY <1>3, SpecialNumbers
<1>5. Significand(a) = HiddenOne(a) /\ Significand(b) = HiddenOne(b)
  BY <1>1, <1>4, SignificandRange DEF HiddenOne
<1>6. /\ Product(a, b) = Rounded(MulSign(a, b), Multiplied, e) /\ e \in Int
      /\ e + Bias + MAN + MAN = E + (MAN - MAN)
  <2>1. MAN \in Int
    BY ExponentSizes
  <2> QED BY <2>1, MultipliedInC DEF Multiplied
<1>7. ProductOffset \in Int /\ ProductOffset + MAN = E /\ MAN \in Int /\ Bias \in Int /\ E \in Int
  BY ProductTyped, ExponentSizes
<1> HIDE DEF e, E
<1>8. e = f
  BY <1>6, <1>7
<1> QED BY <1>1, <1>2, <1>5, <1>6, <1>8 DEF Finite, Multiplied, MulMantissa, e

LEMMA ProductFits ==
    ASSUME NormalizerTypes, ControlTypes, Multiplying(norm), norm.state = "S_FINALIZE",
           Losing(norm, ProductLossy), IsFlushed(fpu.a), IsFlushed(fpu.b)
    PROVE  FlagsFit(FinalFlags, FinalWord, ProductRaises(fpu.a, fpu.b), Finite(fpu.a, fpu.b))
<1> DEFINE a == fpu.a
           b == fpu.b
           class == MulClass(a, b)
           flags == MulFlags(a, b)
           sign == MulSign(a, b)
           v == Product(a, b)
           n == Significand(a) * Significand(b)
           e == Scale(a) + Scale(b)
           E == MulExponent(a, b)
           M == 2 ^ EXP
           A == AllOnes
<1>1. a \in Words /\ b \in Words /\ sign \in {0, 1}
  BY DEF IsFlushed, MulSign
<1>2. ProductRaises(a, b) = Raises(a, b, v, n, e)
  BY DEF ProductRaises
<1>3. CASE class = {}
  <2> DEFINE f == ProductOffset - Bias - MAN
  <2>1. norm.class = {} /\ NamesWord(norm.flags, FinalWord)
    BY <1>3, ProductNames
  <2>2. /\ Finite(a, b) /\ f \in Int /\ n = Multiplied /\ e = f
        /\ v = Rounded(sign, Multiplied, f)
    BY <1>3, ProductOfNumbers
  <2>3. PICK p : ProductPlace(p)
    BY ProductTyped
  <2>4. p # 0 /\ IsSignificand(Multiplied, p) /\ Multiplied \in Nat
    BY <2>3, ProductTyped
  <2>5. RoundedLike(FinalWord, subnormal_flush(v))
    BY FinalMultiplies
  <2>6. SameInC(Multiplied, f, n, e)
    BY <2>2 DEF SameInC
  <2>7. norm.rounded => Inexact(n, e)
    BY <1>3, <2>2 DEF Losing, ProductLossy
  <2> HIDE DEF f, n, e, v, class, sign
  <2>8. FlagsFit(Rounds(norm.flags, norm.rounded), FinalWord, RoundingRaises(n, e), TRUE)
    BY <1>1, <2>1, <2>2, <2>4, <2>5, <2>6, <2>7, RoundingFits
  <2>9. FinalFlags = Rounds(norm.flags, norm.rounded)
    BY <2>1 DEF FinalFlags, Rounds
  <2>10. ~IsNaN(v)
    BY <1>1, <2>2, <2>4, RoundedNumber
  <2>11. Raises(a, b, v, n, e) = RoundingRaises(n, e)
    BY <2>2, <2>10, RaisedOf
  <2>12. Finite(a, b) = TRUE
    BY <2>2 DEF Finite, IsNaN, IsInfinite
  <2> QED BY <1>2, <2>8, <2>9, <2>11, <2>12
<1>4. CASE class # {}
  <2>1. norm.class = class /\ norm.flags = flags
    BY <1>4 DEF Multiplying, Ordinary
  <2>2. ~norm.rounded
    BY <1>4 DEF Losing, ProductLossy
  <2>3. FinalFlags = flags \union (IF "snan" \in class THEN {"nv"} ELSE {})
    BY <2>1, <2>2 DEF FinalFlags
  <2>4. /\ "nv" \in flags <=> ZeroTimesInfinity(a, b)
        /\ "of" \in flags <=> E >= M
        /\ "uf" \in flags <=> E < 0
        /\ flags \subseteq {"nv", "of", "uf"}
    BY DEF MulFlags
  <2>5. IsSignaling(a) \/ IsSignaling(b) => "snan" \in class
    <3> SUFFICES ASSUME IsSignaling(a) \/ IsSignaling(b) PROVE "snan" \in class
      OBVIOUS
    <3>1. "snan" \in {ClassOf(a), ClassOf(b)} \intersect NaNs
      BY <1>1, SignalingClass DEF NaNs
    <3>2. class = ({ClassOf(a), ClassOf(b)} \intersect {"snan"}) \union {"qnan"}
      BY <3>1 DEF MulClass
    <3> HIDE DEF class
    <3> QED BY <3>1, <3>2
  <2>6. LET value == subnormal_flush(v)
        IN  /\ class \intersect NaNs = {} /\ class \intersect Infinities # {} =>
                 value = FloatWord(sign, 0, Infinity)
            /\ class \intersect NaNs = {} /\ class \intersect Infinities = {} =>
                 /\ class \intersect Zeros # {}
                 /\ value = FloatWord(IF "neg_zero" \in class THEN 1 ELSE 0, 0, 0)
                 /\ E < M
    BY <1>4, SpecialValue
  <2>7. /\ class \intersect NaNs # {} <=>
             IsNaN(a) \/ IsNaN(b) \/ (IsZero(a) /\ IsInfinite(b)) \/ (IsInfinite(a) /\ IsZero(b))
        /\ class \intersect NaNs = {} =>
             /\ class \intersect Infinities # {} <=> IsInfinite(a) \/ IsInfinite(b)
             /\ class \intersect Zeros # {} <=> IsZero(a) \/ IsZero(b)
    BY <1>1, ClassOfProduct
  <2>8. ZeroTimesInfinity(a, b) <=> (IsZero(a) /\ IsInfinite(b)) \/ (IsInfinite(a) /\ IsZero(b))
    BY <1>1, KindOfClass DEF ZeroTimesInfinity
  <2>9. IsNaN(v) => class \intersect NaNs # {}
    <3> DEFINE z == IF "neg_zero" \in class THEN 1 ELSE 0
    <3>1. z \in {0, 1}
      OBVIOUS
    <3>2. ~IsNaN(FloatWord(z, 0, 0)) /\ ~IsNaN(FloatWord(sign, 0, Infinity))
      BY <1>1, <3>1, FlushedNaN
    <3> HIDE DEF class, v, sign
    <3> QED BY <2>6, <3>2, FlushedNaN
  <2>10. Finite(a, b) => /\ class \intersect NaNs = {} /\ class \intersect Infinities = {}
                         /\ IsZero(a) \/ IsZero(b)
    <3> HIDE DEF class, v, E, M
    <3> QED BY <1>4, <2>6, <2>7 DEF Finite
  <2>11. IsZero(a) \/ IsZero(b) => n = 0
    <3>1. ASSUME NEW w \in {a, b}, IsZero(w) PROVE Significand(w) = 0
      <4>1. ExponentOf(w) = 0 /\ MantissaOf(w) = 0
        BY <1>1, <3>1, KindOfClass, SpecialNumbers
      <4> QED BY <4>1 DEF Significand
    <3>2. Significand(a) \in Nat /\ Significand(b) \in Nat
      <4>1. MantissaOf(a) \in Nat /\ MantissaOf(b) \in Nat /\ 2 ^ MAN \in Nat
        BY <1>1, FloatParts, FloatPowers
      <4> QED BY <4>1 DEF Significand
    <3> DEFINE x == Significand(a)
               y == Significand(b)
    <3>3. (IsZero(a) \/ IsZero(b)) => x = 0 \/ y = 0
      BY <3>1
    <3> HIDE DEF x, y
    <3>4. x = 0 \/ y = 0 => x * y = 0
      BY <3>2 DEF x, y
    <3> QED BY <3>3, <3>4 DEF x, y
  <2>12. E < M => ~(E >= M)
    <3>1. E \in Int /\ M \in Int
      BY ProductTyped, FloatPowers
    <3> HIDE DEF E, M
    <3> QED BY <3>1
  <2>13. "snan" \in class => class \intersect NaNs # {}
    BY DEF NaNs
  <2>14. "uf" \in flags => IsZero(FinalWord)
    <3> SUFFICES ASSUME E < 0 PROVE IsZero(FinalWord)
      BY <2>4
    <3>1. E \in Int /\ M \in Nat /\ A \in Nat /\ Bias \in Nat /\ A = 2 * Bias + 1
      BY ProductTyped, FloatPowers, ExponentSizes
    <3>2. ASSUME NEW w \in {a, b}, IsNaN(w) \/ IsInfinite(w) PROVE FALSE
      <4>1. ExponentOf(w) = A
        BY <1>1, <3>2, KindOfClass, SpecialNumbers
      <4>2. ExponentOf(a) \in 0 .. A /\ ExponentOf(b) \in 0 .. A
        BY <1>1, FloatParts
      <4> DEFINE x == ExponentOf(a)
                 y == ExponentOf(b)
      <4>3. E = x + y - Bias /\ (x = A \/ y = A)
        BY <4>1 DEF MulExponent
      <4> HIDE DEF x, y, E, A
      <4> QED BY <3>1, <4>2, <4>3 DEF x, y
    <3>3. class \intersect NaNs = {} /\ class \intersect Infinities = {} /\ class \intersect Zeros # {}
      <4>1. ~IsNaN(a) /\ ~IsNaN(b) /\ ~IsInfinite(a) /\ ~IsInfinite(b)
        BY <3>2
      <4> HIDE DEF class, v, E, M
      <4> QED BY <2>6, <2>7, <4>1
    <3>4. "of" \notin flags
      <4>1. ~(E >= M)
        <5> HIDE DEF E, M
        <5> QED BY <3>1
      <4> QED BY <2>4, <4>1
    <3> DEFINE z == IF "neg_zero" \in class THEN 1 ELSE 0
    <3>5. FinalWord = FloatWord(z, 0, 0)
      BY <2>1, <3>3, <3>4 DEF FinalWord
    <3>6. z \in {0, 1}
      OBVIOUS
    <3> HIDE DEF z
    <3> QED BY <3>5, <3>6, ZeroWords
  <2>15. IsNaN(v) /\ ~IsNaN(a) /\ ~IsNaN(b) => "nv" \in flags
    <3> HIDE DEF class, v, flags, E, M
    <3> QED BY <2>4, <2>7, <2>8, <2>9
  <2>16. Finite(a, b) => /\ n = 0 /\ ~IsNaN(v) /\ "snan" \notin class
                         /\ "nv" \notin flags /\ "of" \notin flags
    <3>1. Finite(a, b) => ~ZeroTimesInfinity(a, b) /\ E < M
      <4> HIDE DEF class, v, flags, E, M
      <4> QED BY <2>6, <2>8, <2>10 DEF Finite
    <3> HIDE DEF class, v, flags, E, M, n
    <3> QED BY <2>4, <2>9, <2>10, <2>11, <2>12, <2>13, <3>1
  <2>17. flags \subseteq {"nv", "of", "uf"}
    BY <2>4
  <2> HIDE DEF class, v, flags, E, M, n, e
  <2>18. FlagsFit(flags \union (IF "snan" \in class THEN {"nv"} ELSE {}), FinalWord,
                  Raises(a, b, v, n, e), Finite(a, b))
    BY <2>5, <2>14, <2>15, <2>16, <2>17, SpecialFits
  <2> QED BY <1>2, <2>3, <2>18
<1> QED BY <1>3, <1>4

-----------------------------------------------------------------------------
(* The flags that a sum ends with.                                         *)

LEMMA SumFits ==
    ASSUME NormalizerTypes, Summing(norm), norm.state = "S_FINALIZE", Losing(norm, SumLossy),
           SumOperands
    PROVE  FlagsFit(FinalFlags, FinalWord, SumRaises(fpu.a, Addend(fpu.b, fpu.sub)),
                    Finite(fpu.a, fpu.b))
<1> DEFINE a == fpu.a
           b == fpu.b
           w == Addend(b, fpu.sub)
           v == Sum(a, w)
           n == ExactSum(a, w).n
           e == ExactSum(a, w).e
<1>1. /\ a \in Words /\ b \in Words /\ w \in Words /\ IsFlushed(a) /\ IsFlushed(b) /\ IsFlushed(w)
      /\ fpu.sub \in BOOLEAN
      /\ IsNaN(w) <=> IsNaN(b)
      /\ IsInfinite(w) <=> IsInfinite(b)
      /\ IsZero(w) <=> IsZero(b)
      /\ SignOf(w) \in {0, 1} /\ SignOf(a) \in {0, 1}
  BY AddendParts, FloatParts DEF IsFlushed, SumOperands
<1>2. SumRaises(a, w) = Raises(a, w, v, n, e)
  BY DEF SumRaises
<1>3. Finite(a, w) = Finite(a, b)
  BY <1>1 DEF Finite
<1>4. norm.sign = SumSign /\ norm.sign \in {0, 1}
  BY DEF Summing, NormalizerTypes, NormalizerRecord
<1>5. CASE SumClass = {}
  <2>1. norm.class = {} /\ NamesWord(norm.flags, FinalWord)
    BY <1>5, SumNames
  <2>2. PICK c, x, p : Normalizes(norm, c, x, p)
    BY <1>5 DEF Summing
  <2> DEFINE f == x - Bias - MAN
  <2>3. GivesSum(a, b, fpu.sub, c, x)
    BY <2>2 DEF Normalizes
  <2>4. /\ c # 0 => /\ RoundedLike(FinalWord, subnormal_flush(Rounded(SumSign, c, f)))
                    /\ c \in Nat /\ p # 0 /\ IsSignificand(c, p) /\ x \in Int
        /\ c = 0 => FinalWord = FloatWord(SumSign, 0, 0)
    <3>1. CASE IsExact(c, x, p) /\ Underway(norm, c, x, p)
      <4>1. c # 0 /\ c \in Nat /\ p # 0 /\ IsSignificand(c, p) /\ x \in Int
        BY <3>1, ExactTyped
      <4> QED BY <1>4, <3>1, <4>1, FinalRounded
    <3>2. CASE IsBelow(c, x, p) /\ Sinking(norm, c, x, p)
      BY <1>4, <3>2, FinalSunk DEF IsBelow
    <3> QED BY <2>2, <3>1, <3>2 DEF Normalizes
  <2>5. v = FiniteSum(a, w) /\ Finite(a, w)
    <3>1. AddClass(a, b, fpu.sub) = {}
      BY <1>5 DEF SumClass
    <3> QED BY <1>1, <3>1, SumOfNumbers, FiniteOperands DEF Finite
  <2>6. FinalFlags = Rounds(norm.flags, norm.rounded)
    BY <2>1 DEF FinalFlags, Rounds
  <2>7. norm.rounded => Inexact(n, e)
    BY <1>5 DEF Losing, SumLossy, SummedInC
  <2>8. ~IsNaN(v) /\ FlagsFit(FinalFlags, FinalWord, RoundingRaises(n, e), TRUE)
    <3>1. CASE c # 0
      <4>1. /\ v = Rounded(SumSign, c, f) /\ SameInC(c, f, n, e)
        BY <2>3, <2>5, <3>1 DEF GivesSum, SumSign
      <4>2. f \in Int
        BY <2>4, <3>1, ExponentSizes
      <4> HIDE DEF f, n, e, v
      <4>3. FlagsFit(Rounds(norm.flags, norm.rounded), FinalWord, RoundingRaises(n, e), TRUE)
        BY <1>4, <2>1, <2>4, <2>7, <3>1, <4>1, <4>2, RoundingFits
      <4>4. ~IsNaN(v)
        BY <1>4, <2>4, <3>1, <4>1, <4>2, RoundedNumber
      <4> QED BY <2>6, <4>3, <4>4
    <3>2. CASE c = 0
      <4>1. SumSize(a, b, fpu.sub) = 0
        BY <2>3, <3>2 DEF GivesSum
      <4>2. n = 0
        <5>1. AddClass(a, b, fpu.sub) = {}
          BY <1>5 DEF SumClass
        <5> QED BY <1>1, <4>1, <5>1, SumInC
      <4>3. FiniteSum(a, w) \in {0, Negated(0)}
        BY <4>2 DEF FiniteSum
      <4>4. ~IsNaN(v)
        BY <2>5, <4>3, ZeroWords, FlushedNaN
      <4>5. RoundingRaises(n, e) = {} /\ ~Inexact(n, e)
        BY <4>2, NothingRaised
      <4>6. IsZero(FinalWord)
        BY <1>4, <2>4, <3>2, ZeroWords
      <4> HIDE DEF n, e
      <4>7. FlagsFit(Rounds(norm.flags, FALSE), FinalWord, {}, TRUE)
        BY <2>1, <4>6, ZeroFits
      <4>8. Rounds(norm.flags, norm.rounded) = Rounds(norm.flags, FALSE)
        BY <2>7, <4>5 DEF Rounds
      <4> QED BY <2>6, <4>4, <4>5, <4>7, <4>8
    <3> QED BY <3>1, <3>2
  <2> HIDE DEF n, e, v, f
  <2>9. Raises(a, w, v, n, e) = RoundingRaises(n, e)
    BY <2>5, <2>8, RaisedOf
  <2>10. Finite(a, b) = TRUE
    BY <1>3, <2>5 DEF Finite, IsNaN, IsInfinite
  <2> QED BY <1>2, <2>8, <2>9, <2>10
<1>6. CASE SumClass # {}
  <2> DEFINE class == SumClass
             flags == SumFlags
             value == subnormal_flush(v)
             invalid == IsInfinite(a) /\ IsInfinite(b) /\ SignOf(a) # SignOf(w)
  <2>1. norm.class = class /\ norm.flags = flags
    BY <1>6 DEF Summing
  <2>2. ~norm.rounded
    BY <1>6 DEF Losing, SumLossy
  <2>3. FinalFlags = flags \union (IF "snan" \in class THEN {"nv"} ELSE {})
    BY <2>1, <2>2 DEF FinalFlags
  <2>4. flags = IF IsInfinite(a) /\ IsInfinite(b) THEN {"nv"} ELSE {}
    BY <1>1, KindOfClass DEF SumFlags, AddFlags
  <2>5. IsSignaling(a) \/ IsSignaling(w) => "snan" \in class
    <3> SUFFICES ASSUME IsSignaling(a) \/ IsSignaling(w) PROVE "snan" \in class
      OBVIOUS
    <3>1. "snan" \in {ClassOf(a), ClassOf(w)} \intersect NaNs
      BY <1>1, SignalingClass DEF NaNs
    <3>2. class = ({ClassOf(a), ClassOf(w)} \intersect {"snan"}) \union {"qnan"}
      <4>1. {ClassOf(a), ClassOf(w)} \intersect NaNs # {}
        BY <3>1
      <4>2. /\ {ClassOf(a), ClassOf(w)} # Infinities /\ {ClassOf(a), ClassOf(w)} # {"neg_zero"}
            /\ ~({ClassOf(a), ClassOf(w)} \subseteq Zeros)
        BY <3>1 DEF Infinities, Zeros
      <4> QED BY <4>1, <4>2 DEF SumClass, AddClass, Addend
    <3> HIDE DEF class
    <3> QED BY <3>1, <3>2
  <2>6. /\ class \intersect NaNs = {} /\ class \intersect Infinities # {} =>
             value = FloatWord(SumSign, 0, Infinity)
        /\ class \intersect NaNs = {} /\ class \intersect Infinities = {} =>
             value = FloatWord(IF "neg_zero" \in class THEN 1 ELSE 0, 0, 0)
    BY <1>1, <1>6, ClassifiedSum DEF SumClass, SumSign
  <2>7. /\ class \intersect NaNs # {} <=> IsNaN(a) \/ IsNaN(b) \/ invalid
        /\ class \intersect NaNs = {} =>
             class = {} <=> ~IsInfinite(a) /\ ~IsInfinite(b) /\ ~(IsZero(a) /\ IsZero(b))
    BY <1>1, ClassOfSum DEF SumClass
  <2>8. IsNaN(v) => class \intersect NaNs # {}
    <3> DEFINE z == IF "neg_zero" \in class THEN 1 ELSE 0
    <3>1. z \in {0, 1}
      OBVIOUS
    <3>2. ~IsNaN(FloatWord(z, 0, 0)) /\ ~IsNaN(FloatWord(SumSign, 0, Infinity))
      BY <1>4, <3>1, FlushedNaN
    <3> HIDE DEF v
    <3> QED BY <2>6, <3>2, FlushedNaN
  <2>9. "snan" \in class => class \intersect NaNs # {}
    BY DEF NaNs
  <2> HIDE DEF class, flags, value, n, e, v
  <2>10. IsNaN(v) /\ ~IsNaN(a) /\ ~IsNaN(w) => "nv" \in flags
    BY <1>1, <2>4, <2>7, <2>8
  <2>11. Finite(a, w) => class \intersect NaNs = {} /\ IsZero(a) /\ IsZero(w)
    BY <1>1, <1>6, <2>7 DEF Finite, class
  <2>12. Finite(a, w) => /\ n = 0 /\ ~IsNaN(v) /\ "snan" \notin class
                         /\ "nv" \notin flags /\ "of" \notin flags
    <3>1. Finite(a, w) => n = 0
      BY <1>1, <2>11, SumOfZeros DEF n
    <3>2. Finite(a, w) => flags = {}
      BY <2>4 DEF Finite
    <3> QED BY <2>8, <2>9, <2>11, <3>1, <3>2
  <2>13. flags \subseteq {"nv", "of", "uf"} /\ "uf" \notin flags
    BY <2>4
  <2>14. FlagsFit(flags \union (IF "snan" \in class THEN {"nv"} ELSE {}), FinalWord,
                  Raises(a, w, v, n, e), Finite(a, w))
    BY <2>5, <2>10, <2>12, <2>13, SpecialFits
  <2> QED BY <1>2, <1>3, <2>3, <2>14
<1> QED BY <1>5, <1>6

-----------------------------------------------------------------------------
(* The flags in the ALU.                                                   *)

\* One period of the normalizer with a product, and with a sum.
LEMMA ProductFlagsStep ==
    ASSUME NormalizerTypes, ControlTypes, fpu.op = "mul", fpu.frm = 0,
           IsFlushed(fpu.a), IsFlushed(fpu.b),
           norm.state # "S_IDLE" => Multiplying(norm) /\ Losing(norm, ProductLossy),
           NEW r, Follows(r), r.rounded = NormalizerStep.rounded
    PROVE  /\ r.state # "S_IDLE" => Losing(r, ProductLossy)
           /\ norm.state = "S_FINALIZE" =>
                FlagsFit(r.flags, r.result, ProductRaises(fpu.a, fpu.b), Finite(fpu.a, fpu.b))
<1>1. CASE norm.state = "S_IDLE"
  BY <1>1, ProductLostNothing
<1>2. CASE norm.state = "S_FINALIZE"
  <2>1. r.result = FinalWord /\ r.state = "S_IDLE" /\ r.flags = FinalFlags
    BY <1>2, MultiplierSteps, FinalFlagsKept
  <2> QED BY <1>2, <2>1, ProductFits
<1>3. CASE norm.state \notin {"S_IDLE", "S_FINALIZE"}
  BY <1>3, ProductLoses
<1> QED BY <1>1, <1>2, <1>3

LEMMA SumFlagsStep ==
    ASSUME NormalizerTypes, ControlTypes, fpu.op = "addsub", fpu.frm = 0, SumOperands,
           adder.state = "DONE" \/ norm.state = "S_PREPARE_NORM" => SumAligned,
           norm.state # "S_IDLE" => Summing(norm) /\ Losing(norm, SumLossy),
           NEW r, Follows(r), r.rounded = NormalizerStep.rounded
    PROVE  /\ r.state # "S_IDLE" => Losing(r, SumLossy)
           /\ norm.state = "S_FINALIZE" =>
                FlagsFit(r.flags, r.result, SumRaises(fpu.a, Addend(fpu.b, fpu.sub)),
                         Finite(fpu.a, fpu.b))
<1>1. CASE norm.state = "S_IDLE"
  BY <1>1, SumLostNothing
<1>2. CASE norm.state = "S_FINALIZE"
  <2>1. r.result = FinalWord /\ r.state = "S_IDLE" /\ r.flags = FinalFlags
    BY <1>2, SumSteps, FinalFlagsKept
  <2> QED BY <1>2, <2>1, SumFits
<1>3. CASE norm.state \notin {"S_IDLE", "S_FINALIZE"}
  BY <1>3, SumLoses
<1> QED BY <1>1, <1>2, <1>3

\* What C raises for the operands of the instruction, and flags and a word that
\* the hardware gives for them.
OperandsRaise(op) ==
    LET a == OperandData(rs.rs1)
        b == OperandData(rs.rs2)
    IN  IF op = "mul" THEN ProductRaises(a, b) ELSE SumRaises(a, Addend(b, Subtracts))
OperandsFinite == Finite(OperandData(rs.rs1), OperandData(rs.rs2))
FitsOperands(op, flags, word) == FlagsFit(flags, word, OperandsRaise(op), OperandsFinite)

Lossy == IF fpu.op = "mul" THEN ProductLossy ELSE SumLossy

FlagsHeld ==
    fpu.op \in {"addsub", "mul"} /\ fpu.frm = 0 =>
      /\ norm.state # "S_IDLE" => Losing(norm, Lossy)
      /\ norm.done \/ fpu.valid => FitsOperands(fpu.op, norm.flags, norm.result)

LEMMA FlagsHeldStep ==
    ASSUME IInv, Awaited, Operands, Typed, FloatHeld, ProductHeld, SumHeld, FlagsHeld, Clock,
           ~abandoned'
    PROVE  FlagsHeld'
<1>1. /\ ControlTypes /\ AdderTypes /\ NormalizerTypes /\ Phases /\ Controlled /\ Shapes
      /\ FpuInvariant
  BY DEF Typed, IInv
<1>2. /\ norm'.done = (norm.state = "S_FINALIZE")
      /\ norm.state = "S_IDLE" /\ ~NormalizerStarts => norm'.state = "S_IDLE"
  BY <1>1, NormalizerStates
<1>3. CASE ~fpu.busy
  <2>1. norm.state = "S_IDLE" /\ ~NormalizerStarts
    <3>1. fpu.after \in 0 .. 4
      BY <1>1 DEF ControlTypes
    <3> QED BY <1>1, <1>3, <3>1 DEF Phases, NormalizerStarts
  <2>2. norm'.state = "S_IDLE" /\ ~norm'.done /\ ~fpu'.valid
    BY <1>1, <1>2, <1>3, <2>1, FpuRecord
  <2> QED BY <2>2 DEF FlagsHeld
<1>4. CASE fpu.busy
  <2>1. rs' = rs /\ Subtracts' = Subtracts /\ fpu.sub = Subtracts /\ fpu'.sub = Subtracts
    <3>1. state = "ALU_WAIT"
      BY <1>4 DEF Awaited, Working
    <3>2. instr' = instr /\ rs' = rs
      BY <1>1, <3>1, Waiting DEF instr
    <3> QED BY <1>1, <1>4, <3>2, SumTaken DEF SumHeld, Subtracts
  <2>2. fpu'.op = fpu.op /\ fpu'.frm = fpu.frm /\ fpu'.a = fpu.a /\ fpu'.b = fpu.b
    BY <1>1, <1>4, ControllerFields
  <2>3. Follows(norm') /\ norm'.rounded = NormalizerStep.rounded
    BY <1>1, NormalizerFollows, NormalizerRounds
  <2>4. fpu.a = OperandData(rs.rs1) /\ fpu.b = OperandData(rs.rs2)
    BY <1>4 DEF FloatHeld
  <2>5. IsFlushed(fpu.a) /\ IsFlushed(fpu.b) /\ SumOperands
    <3>1. rs.rs1 \in Words /\ rs.rs2 \in Words
      BY DEF Operands
    <3>2. fpu.sub \in BOOLEAN
      BY <2>1 DEF Subtracts
    <3> QED BY <2>4, <3>1, <3>2, FlushedOperand DEF SumOperands
  <2> SUFFICES ASSUME fpu.op \in {"addsub", "mul"}, fpu.frm = 0
               PROVE  /\ norm'.state # "S_IDLE" => Losing(norm, Lossy)'
                      /\ norm'.done \/ fpu'.valid =>
                           FitsOperands(fpu.op, norm.flags, norm.result)'
    BY <2>2 DEF FlagsHeld
  <2>6. /\ Losing(norm, Lossy)' <=> Losing(norm', Lossy)
        /\ FitsOperands(fpu.op, norm.flags, norm.result)' <=>
             FitsOperands(fpu.op, norm'.flags, norm'.result)
    <3>1. ProductLossy' = ProductLossy /\ SumLossy' = SumLossy
      BY <2>1, <2>2 DEF ProductLossy, SumLossy, SumClass, SummedInC, Multiplied, ProductOffset
    <3>2. Lossy' = Lossy
      BY <2>2, <3>1 DEF Lossy
    <3>3. OperandsRaise(fpu.op)' = OperandsRaise(fpu.op) /\ OperandsFinite' = OperandsFinite
      BY <2>1, <2>2 DEF OperandsRaise, OperandsFinite
    <3> QED BY <3>2, <3>3 DEF Losing, FitsOperands, FlagsFit
  <2>7. norm.state # "S_IDLE" => Losing(norm, Lossy)
    BY DEF FlagsHeld
  <2>8. /\ norm'.state # "S_IDLE" => Losing(norm', Lossy)
        /\ norm.state = "S_FINALIZE" => FitsOperands(fpu.op, norm'.flags, norm'.result)
    <3>1. CASE fpu.op = "mul"
      <4>1. Lossy = ProductLossy /\ OperandsRaise(fpu.op) = ProductRaises(fpu.a, fpu.b)
        BY <2>4, <3>1 DEF Lossy, OperandsRaise
      <4>2. norm.state # "S_IDLE" => Multiplying(norm) /\ Losing(norm, ProductLossy)
        BY <2>7, <3>1, <4>1 DEF ProductHeld
      <4>3. /\ norm'.state # "S_IDLE" => Losing(norm', ProductLossy)
            /\ norm.state = "S_FINALIZE" =>
                 FlagsFit(norm'.flags, norm'.result, ProductRaises(fpu.a, fpu.b), Finite(fpu.a, fpu.b))
        BY <1>1, <2>3, <2>5, <3>1, <4>2, ProductFlagsStep
      <4> QED BY <2>4, <4>1, <4>3 DEF FitsOperands, OperandsFinite
    <3>2. CASE fpu.op = "addsub"
      <4>1. /\ Lossy = SumLossy
            /\ OperandsRaise(fpu.op) = SumRaises(fpu.a, Addend(fpu.b, fpu.sub))
        BY <2>1, <2>4, <3>2 DEF Lossy, OperandsRaise
      <4>2. /\ norm.state # "S_IDLE" => Summing(norm) /\ Losing(norm, SumLossy)
            /\ adder.state = "DONE" \/ norm.state = "S_PREPARE_NORM" => SumAligned
        BY <2>7, <3>2, <4>1 DEF SumHeld, AdderAligns
      <4>3. /\ norm'.state # "S_IDLE" => Losing(norm', SumLossy)
            /\ norm.state = "S_FINALIZE" =>
                 FlagsFit(norm'.flags, norm'.result, SumRaises(fpu.a, Addend(fpu.b, fpu.sub)),
                          Finite(fpu.a, fpu.b))
        BY <1>1, <2>3, <2>5, <3>2, <4>2, SumFlagsStep
      <4> QED BY <2>4, <4>1, <4>3 DEF FitsOperands, OperandsFinite
    <3> QED BY <3>1, <3>2
  <2>9. ASSUME fpu'.valid, norm.state # "S_FINALIZE"
        PROVE  FitsOperands(fpu.op, norm'.flags, norm'.result)
    <3>1. CoreDone(instr)
      <4>1. fpu'.busy = ~CoreDone(instr) /\ (fpu'.busy <=> ~fpu'.valid)
        BY <1>1, <1>4, ControllerFields, FpuRecord
      <4> QED BY <2>9, <4>1
    <3>2. norm.done /\ norm.state = "S_IDLE"
      <4>1. /\ Started(instr, "class") => fpu.op = "class"
            /\ Started(instr, "sgnj") => fpu.op = "sgnj"
        BY <1>1, StartedOperation DEF UnitNames
      <4> QED BY <1>1, <3>1, <4>1 DEF CoreDone, Phases
    <3>3. ~NormalizerStarts
      BY <1>1, <3>2 DEF Phases, NormalizerStarts
    <3>4. norm'.flags = norm.flags
      BY <1>1, <2>3, <3>2, <3>3, FinalFlagsKept
    <3>5. norm'.result = norm.result
      <4>1. fpu.op = "mul" => norm'.result = norm.result
        BY <1>1, <2>3, <3>2, MultiplierTakes
      <4>2. fpu.op = "addsub" => norm'.result = norm.result
        BY <1>1, <2>3, <3>2, SumTakes DEF SumHeld, AdderAligns
      <4> QED BY <4>1, <4>2
    <3> QED BY <3>2, <3>4, <3>5 DEF FlagsHeld
  <2> QED BY <1>2, <2>6, <2>8, <2>9
<1> QED BY <1>3, <1>4

FlagsAnswered ==
    ctrl.wb /\ CoProcessorOf(instr) = "fpu" /\ OperationOf(instr) \in {"addsub", "mul"} =>
      (RoundingMode(instr) = 0 => FitsOperands(OperationOf(instr), fpu.flags, fpu.result))

LEMMA FlagsAnsweredStep ==
    ASSUME IInv, Awaited, Operands, ControlTypes, FloatHeld, ConverterHeld, FlagsHeld, Clock,
           ~abandoned'
    PROVE  FlagsAnswered'
<1> SUFFICES ASSUME ctrl'.wb, CoProcessorOf(instr)' = "fpu",
                    OperationOf(instr)' \in {"addsub", "mul"}, RoundingMode(instr)' = 0
             PROVE  FitsOperands(OperationOf(instr), fpu.flags, fpu.result)'
  BY DEF FlagsAnswered
<1>1. ~EXECUTE
  <2> SUFFICES ASSUME EXECUTE PROVE FALSE
    OBVIOUS
  <2>1. i_reg' = i_reg /\ CoProcessorOf(instr) = "none"
    BY DEF EXECUTE, Off
  <2>2. CoProcessorOf(instr)' = "none"
    BY <2>1 DEF instr
  <2> QED BY <2>2
<1>2. ALU_WAIT
  BY <1>1 DEF Clock, ExecuteEngine, SYS_WAIT, DispatchWaits, Dispatch, DispatchTraps, TRAP_ENTER,
              TRAP_EXECUTE, Off
<1>3. i_reg' = i_reg /\ rs' = rs /\ idone
  BY <1>2, Waiting DEF ALU_WAIT, IInv
<1>4. /\ CoProcessorOf(instr)' = CoProcessorOf(instr) /\ OperationOf(instr)' = OperationOf(instr)
      /\ RoundingMode(instr)' = RoundingMode(instr) /\ Subtracts' = Subtracts
  BY <1>3 DEF instr, Subtracts
<1>5. fpu.valid
  <2>1. Valid("fpu")
    BY <1>3, <1>4, OneAnswers
  <2> QED BY <2>1 DEF Valid
<1>6. fpu.op = OperationOf(instr) /\ fpu.op \in {"addsub", "mul"} /\ fpu.frm = 0
  BY <1>4, <1>5 DEF FloatHeld, ConverterHeld
<1>7. fpu'.result = norm.result /\ fpu'.flags = norm.flags
  <2>1. fpu'.result = FpuResult(instr)
    BY <1>5, FloatControl DEF IInv, OutputGate
  <2>2. fpu'.flags = FpuFlags
    BY <1>5, ControllerFields
  <2> QED BY <1>6, <2>1, <2>2 DEF FpuResult, FpuFlags
<1>8. FitsOperands(fpu.op, norm.flags, norm.result)
  BY <1>5, <1>6 DEF FlagsHeld
<1>9. OperandsRaise(OperationOf(instr))' = OperandsRaise(fpu.op) /\ OperandsFinite' = OperandsFinite
  BY <1>3, <1>4, <1>6 DEF OperandsRaise, OperandsFinite
<1> QED BY <1>7, <1>8, <1>9 DEF FitsOperands, FlagsFit

Flags == abandoned \/ (FlagsHeld /\ FlagsAnswered)

LEMMA FlagsInit == Init => Flags
BY DEF Init, FpuInit, Off, Flags, FlagsHeld, FlagsAnswered

LEMMA FlagsStep ==
    IInv /\ Holds /\ Typed /\ Converts /\ Products /\ Sums /\ Flags /\ [Clock]_vars => Flags'
<1> SUFFICES ASSUME IInv, Holds, Typed, Converts, Products, Sums, Flags, [Clock]_vars PROVE Flags'
  OBVIOUS
<1>1. CASE Clock
  <2> SUFFICES ASSUME ~abandoned' PROVE FlagsHeld' /\ FlagsAnswered'
    BY DEF Flags
  <2>1. ~abandoned
    BY <1>1, Zenon DEF Clock, Registers
  <2>2. /\ Awaited /\ Operands /\ FloatHeld /\ ConverterHeld /\ ProductHeld /\ SumHeld /\ FlagsHeld
        /\ ControlTypes
    BY <2>1 DEF IInv, Holds, Typed, Converts, Products, Sums, Flags
  <2> QED BY <1>1, <2>2, FlagsHeldStep, FlagsAnsweredStep
<1>2. CASE UNCHANGED vars
  <2>1. /\ i_reg' = i_reg /\ rs' = rs /\ ctrl' = ctrl /\ abandoned' = abandoned /\ fpu' = fpu
        /\ norm' = norm /\ adder' = adder
    BY <1>2 DEF vars, control_vars, fpu_vars
  <2>2. instr' = instr /\ Subtracts' = Subtracts
    BY <2>1 DEF Subtracts, instr
  <2>3. \A op : OperandsRaise(op)' = OperandsRaise(op) /\ OperandsFinite' = OperandsFinite
    BY <2>1, <2>2 DEF OperandsRaise, OperandsFinite
  <2>4. Lossy' = Lossy
    BY <2>1 DEF Lossy, ProductLossy, SumLossy, SumClass, SummedInC, Multiplied, ProductOffset
  <2>5. FlagsHeld' <=> FlagsHeld
    BY <2>1, <2>3, <2>4 DEF FlagsHeld, FitsOperands, FlagsFit, Losing
  <2>6. FlagsAnswered' <=> FlagsAnswered
    BY <2>1, <2>2, <2>3 DEF FlagsAnswered, FitsOperands, FlagsFit
  <2> QED BY <2>1, <2>5, <2>6 DEF Flags
<1> QED BY <1>1, <1>2

LEMMA FlagsSpec == Spec => []Flags
BY Invariant, Answering, TypedSpec, ConvertsSpec, ProductsSpec, SumsSpec, FlagsInit, FlagsStep, PTL
   DEF Spec

LEMMA FlagsAnswer ==
    ASSUME Operands, Answered, FlagsAnswered, ControlTypes, Undisturbed,
           instr \in {riscv_intrinsic_fadds, riscv_intrinsic_fsubs, riscv_intrinsic_fmuls}
    PROVE  LET a == subnormal_flush(a0)
               b == subnormal_flush(a1)
           IN  FlagsFit(fpu.flags, AluResult, Emulated(a, b), Finite(a, b))
<1> DEFINE a == subnormal_flush(a0)
           b == subnormal_flush(a1)
<1>1. rs.rs1 = a0 /\ rs.rs2 = a1 /\ a0 \in Words /\ a1 \in Words /\ ctrl.wb
  BY DEF Operands, a0, a1, Undisturbed, Writes
<1>2. OperandData(rs.rs1) = a /\ OperandData(rs.rs2) = b
  BY <1>1, FlushedOperand
<1>3. /\ CoProcessorOf(instr) = "fpu" /\ RoundingMode(instr) = 0
      /\ OperationOf(instr) = IF instr = riscv_intrinsic_fmuls THEN "mul" ELSE "addsub"
  BY SumDecoded, ProductDecoded
<1>4. AluResult = fpu.result
  <2>1. /\ "fpu" \in CoProcessors /\ ctrl.copro
        /\ \A cp \in CoProcessors \ {"fpu"} : Result(cp) = 0
    BY <1>1, <1>3 DEF Answered
  <2>2. Result("fpu") = fpu.result /\ fpu.result \in Words
    BY DEF Result, ControlTypes
  <2> QED BY <2>1, <2>2, OnlyResult
<1>5. FitsOperands(OperationOf(instr), fpu.flags, fpu.result)
  BY <1>1, <1>3 DEF FlagsAnswered
<1> HIDE DEF a, b
<1>6. OperandsRaise(OperationOf(instr)) = Emulated(a, b)
  <2>1. CASE instr = riscv_intrinsic_fmuls
    BY <1>2, <1>3, <2>1, SumDecoded, ProductDecoded DEF OperandsRaise, Emulated
  <2>2. CASE instr = riscv_intrinsic_fadds
    <3>1. ~Subtracts
      BY <2>2, SumDecoded DEF Subtracts
    <3> QED BY <1>2, <2>2, <3>1, SumDecoded, ProductDecoded DEF OperandsRaise, Emulated, Addend
  <2>3. CASE instr = riscv_intrinsic_fsubs
    <3>1. Subtracts
      BY <2>3, SumDecoded DEF Subtracts
    <3> QED BY <1>2, <2>3, <3>1, SumDecoded, ProductDecoded DEF OperandsRaise, Emulated, Addend
  <2> QED BY <2>1, <2>2, <2>3
<1> QED BY <1>2, <1>4, <1>5, <1>6 DEF FitsOperands, OperandsFinite, a, b

\* The flags of C by their names in the register fflags.
LEMMA SoftwareFlags ==
    ASSUME NEW raised
    PROVE  LET sw == get_sw_exceptions(raised).res
           IN  /\ "nv" \in sw <=> "FE_INVALID" \in raised
               /\ "of" \in sw <=> "FE_OVERFLOW" \in raised
               /\ "uf" \in sw <=> "FE_UNDERFLOW" \in raised
               /\ "nx" \in sw <=> "FE_INEXACT" \in raised
BY DEF get_sw_exceptions, FP_EXC

\* Undisturbed, the flags of sums and products (neorv32_cpu_cp_fpu.vhd) are those
\* that C raises where the hardware can tell: every invalid operation and every
\* underflow, exactly the overflows of finite operands, an underflow only with
\* the result 0, and as inexact only what is; never a division by zero.
THEOREM FlagsAreEmulated == Spec => []FloatFlags
<1>1. Holds /\ Typed /\ Flags => FloatFlags
  <2> SUFFICES ASSUME Holds, Typed, Flags, Undisturbed,
                      instr \in {riscv_intrinsic_fadds, riscv_intrinsic_fsubs, riscv_intrinsic_fmuls}
               PROVE  FloatFlags
    BY DEF FloatFlags
  <2> DEFINE a == subnormal_flush(a0)
             b == subnormal_flush(a1)
             raised == Emulated(a, b)
             hw == get_hw_exceptions(fpu.flags).res
             sw == get_sw_exceptions(raised).res
             finite == ~IsNaN(a) /\ ~IsNaN(b) /\ ~IsInfinite(a) /\ ~IsInfinite(b)
  <2>1. Operands /\ Answered /\ FlagsAnswered /\ ControlTypes
    BY DEF Holds, Typed, Flags, Undisturbed
  <2>2. FlagsFit(fpu.flags, AluResult, raised, Finite(a, b))
    BY <2>1, FlagsAnswer
  <2>3. hw = fpu.flags /\ (finite <=> Finite(a, b))
    BY DEF get_hw_exceptions, Finite
  <2>4. /\ "nv" \in sw <=> "FE_INVALID" \in raised
        /\ "of" \in sw <=> "FE_OVERFLOW" \in raised
        /\ "uf" \in sw <=> "FE_UNDERFLOW" \in raised
        /\ "nx" \in sw <=> "FE_INEXACT" \in raised
    BY SoftwareFlags
  <2> HIDE DEF hw, sw, raised, finite
  <2>5. /\ "nv" \in sw => "nv" \in hw
        /\ finite => hw \intersect {"nv", "of"} = sw \intersect {"nv", "of"}
        /\ "uf" \in sw => "uf" \in hw
        /\ "uf" \in hw => IsZero(AluResult)
        /\ "nx" \in hw => "nx" \in sw
        /\ "dz" \notin hw
    BY <2>2, <2>3, <2>4 DEF FlagsFit
  <2> QED BY <2>5 DEF FloatFlags, hw, sw, raised, finite
<1> QED BY <1>1, Answering, TypedSpec, FlagsSpec, PTL
=============================================================================
