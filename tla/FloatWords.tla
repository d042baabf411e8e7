------------------------------ MODULE FloatWords ------------------------------
(***************************************************************************)
(* Floating point numbers of one sign bit, EXP bits of exponent and MAN    *)
(* bits of mantissa in a word: 8 and 23 in the source, of which 6 and 9    *)
(* keep the proportions that matter. There are numbers above the largest   *)
(* integer of a word, and a word has more bits than a mantissa and a bit   *)
(* for each of the ten classes of numbers.                                 *)
(***************************************************************************)
EXTENDS BitWords

CONSTANTS EXP, MAN

ASSUME FloatSizes == /\ EXP \in Nat /\ MAN \in Nat
                     /\ EXP >= 2 /\ MAN >= 3
                     /\ XLEN = 1 + EXP + MAN
                     /\ XLEN >= 10
                     /\ 2 ^ (EXP - 1) > XLEN

\* Powers of two are what they are, up to the width of the normalizer's register.
ASSUME RegisterPowers ==
    \A n \in 0 .. XLEN + MAN + 3 :
       2 ^ n \in Nat \ {0} /\ \A m \in 0 .. n : 2 ^ n = 2 ^ m * 2 ^ (n - m)

Bias == 2 ^ (EXP - 1) - 1
AllOnes == 2 ^ EXP - 1

SignOf(word) == Bit(word, XLEN - 1)
ExponentOf(word) == (word \div 2 ^ MAN) % 2 ^ EXP
MantissaOf(word) == Low(word, MAN)
FloatWord(sign, exponent, mantissa) ==
    sign * 2 ^ (XLEN - 1) + exponent * 2 ^ MAN + mantissa

Magnitude(word) == Low(word, XLEN - 1)
Infinity == FloatWord(0, AllOnes, 0)
QuietNaN == FloatWord(0, AllOnes, 2 ^ (MAN - 1))
Negated(word) == FloatWord(1 - SignOf(word), 0, Magnitude(word))

\* fpclassify of C.
fpclassify(word) ==
    CASE ExponentOf(word) = 0 /\ MantissaOf(word) = 0 -> "FP_ZERO"
      [] ExponentOf(word) = 0 /\ MantissaOf(word) # 0 -> "FP_SUBNORMAL"
      [] ExponentOf(word) = AllOnes /\ MantissaOf(word) = 0 -> "FP_INFINITE"
      [] ExponentOf(word) = AllOnes /\ MantissaOf(word) # 0 -> "FP_NAN"
      [] OTHER -> "FP_NORMAL"

IsNaN(word) == fpclassify(word) = "FP_NAN"
IsInfinite(word) == fpclassify(word) = "FP_INFINITE"
IsZero(word) == fpclassify(word) = "FP_ZERO"
=============================================================================
