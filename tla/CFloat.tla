-------------------------------- MODULE CFloat --------------------------------
(***************************************************************************)
(* The float arithmetic of C that the emulation functions of the floating  *)
(* point test are written with: IEEE 754 with subnormal numbers, rounded   *)
(* to the nearest number, ties to even. A finite number is an integer      *)
(* significand in units of a power of two.                                 *)
(***************************************************************************)
EXTENDS FloatWords

\* The exponent of the last place of the subnormal numbers.
Smallest == 1 - Bias - MAN

Significand(word) ==
    IF ExponentOf(word) = 0 THEN MantissaOf(word) ELSE 2 ^ MAN + MantissaOf(word)
Scale(word) == (IF ExponentOf(word) = 0 THEN 1 ELSE ExponentOf(word)) - Bias - MAN

Length(n) == CHOOSE k \in 0 .. XLEN + MAN + 3 : 2 ^ k > n /\ (k = 0 \/ 2 ^ (k - 1) <= n)

\* n / 2^d to the nearest integer, ties to even or away from zero; no power
\* is evaluated that is far above n.
Halves(n, d) == 2 * (n % 2 ^ d) - 2 ^ d
NearestEven(n, d) ==
    n \div 2 ^ d + IF Halves(n, d) > 0 \/ (Halves(n, d) = 0 /\ (n \div 2 ^ d) % 2 = 1)
                   THEN 1 ELSE 0
NearestAway(n, d) == n \div 2 ^ d + IF Halves(n, d) >= 0 THEN 1 ELSE 0

\* The exponent of the last place of the float of n units of 2^e.
LastPlace(n, e) == Max({e + Length(n) - (MAN + 1), Smallest})

\* The float of n units of 2^e. A significand that rounding carries to 2^(MAN+1)
\* is the first of the next exponent, which adding it to the exponent's field is.
Rounded(sign, n, e) ==
    LET last == LastPlace(n, e)
        significand == CASE last - e > Length(n) -> 0
                         [] last - e \in 1 .. Length(n) -> NearestEven(n, last - e)
                         [] OTHER -> n * 2 ^ (e - last)
        magnitude == (last - Smallest) * 2 ^ MAN + significand
    IN  IF n = 0 THEN FloatWord(sign, 0, 0)
        ELSE FloatWord(sign, 0, Min({magnitude, Infinity}))

\* The exceptions of fenv.h that this rounding raises.
RoundingRaises(n, e) ==
    LET lost == LastPlace(n, e) - e
        inexact == n # 0 /\ lost > 0 /\ (lost > Length(n) \/ n % 2 ^ lost # 0)
        overflow == IsInfinite(Rounded(0, n, e))
        tiny == ExponentOf(Rounded(0, n, e)) = 0
    IN  (IF overflow THEN {"FE_OVERFLOW"} ELSE {})
        \union (IF inexact /\ tiny THEN {"FE_UNDERFLOW"} ELSE {})
        \union (IF inexact \/ overflow THEN {"FE_INEXACT"} ELSE {})

\* Beyond MAN + 3 places the smaller term only decides that a sum is not exact:
\* with the distance cut there it is still less than half of a last place.
SignedSignificand(word) == IF SignOf(word) = 1 THEN -Significand(word) ELSE Significand(word)
ExactSum(a, b) ==
    LET large == IF Scale(a) >= Scale(b) THEN a ELSE b
        small == IF Scale(a) >= Scale(b) THEN b ELSE a
        distance == Min({Scale(large) - Scale(small), MAN + 3})
        sum == SignedSignificand(large) * 2 ^ distance + SignedSignificand(small)
    IN  [sign |-> IF sum < 0 THEN 1 ELSE 0, n |-> IF sum < 0 THEN -sum ELSE sum,
         e |-> Scale(large) - distance]
FiniteSum(a, b) ==
    LET sum == ExactSum(a, b)
    IN  CASE sum.n = 0 -> IF SignOf(a) = 1 /\ SignOf(b) = 1 THEN Negated(0) ELSE 0
          [] OTHER -> Rounded(sum.sign, sum.n, sum.e)

Sum(a, b) ==
    CASE IsNaN(a) \/ IsNaN(b) -> QuietNaN
      [] IsInfinite(a) /\ IsInfinite(b) /\ a # b -> QuietNaN
      [] IsInfinite(a) /\ ~IsNaN(b) /\ (IsInfinite(b) => a = b) -> a
      [] IsInfinite(b) /\ ~IsNaN(a) /\ ~IsInfinite(a) -> b
      [] OTHER -> FiniteSum(a, b)

Difference(a, b) == Sum(a, Negated(b))

Product(a, b) ==
    LET sign == IF SignOf(a) = SignOf(b) THEN 0 ELSE 1
    IN  CASE IsNaN(a) \/ IsNaN(b) -> QuietNaN
          [] {fpclassify(a), fpclassify(b)} = {"FP_INFINITE", "FP_ZERO"} -> QuietNaN
          [] {"FP_INFINITE"} \subseteq {fpclassify(a), fpclassify(b)}
             /\ {fpclassify(a), fpclassify(b)} \intersect {"FP_NAN", "FP_ZERO"} = {}
                -> FloatWord(sign, 0, Infinity)
          [] OTHER -> Rounded(sign, Significand(a) * Significand(b), Scale(a) + Scale(b))

\* The exceptions that an operation raises: a signaling NaN is an invalid operand.
IsSignaling(word) == IsNaN(word) /\ Bit(word, MAN - 1) = 0
Raises(a, b, result, n, e) ==
    CASE IsSignaling(a) \/ IsSignaling(b) -> {"FE_INVALID"}
      [] IsNaN(result) /\ ~IsNaN(a) /\ ~IsNaN(b) -> {"FE_INVALID"}
      [] {fpclassify(a), fpclassify(b)} \intersect {"FP_NAN", "FP_INFINITE"} = {} -> RoundingRaises(n, e)
      [] OTHER -> {}
SumRaises(a, b) == Raises(a, b, Sum(a, b), ExactSum(a, b).n, ExactSum(a, b).e)
ProductRaises(a, b) ==
    Raises(a, b, Product(a, b), Significand(a) * Significand(b), Scale(a) + Scale(b))

\* isless of two numbers that are not NaN: -0 and +0 are the same.
Order(word) == IF SignOf(word) = 1 THEN -Magnitude(word) ELSE Magnitude(word)
isless(a, b) == Order(a) < Order(b)

\* (float)n of an integer n, and the integer that roundf(a) of a finite float a is.
FloatOf(n) == Rounded(IF n < 0 THEN 1 ELSE 0, IF n < 0 THEN -n ELSE n, 0)
NearestInteger(a) ==
    LET n == CASE Scale(a) >= 0 -> Significand(a) * 2 ^ Scale(a)
               [] Scale(a) \in -(MAN + 1) .. -1 -> NearestAway(Significand(a), -Scale(a))
               [] OTHER -> 0
    IN  IF SignOf(a) = 1 THEN -n ELSE n
=============================================================================
