---------------------------- MODULE FpuOperations ----------------------------
(***************************************************************************)
(* The functions of the floating point unit of NEORV32 that have no state: *)
(* decoding, classes, comparison, selection and the signs, classes and     *)
(* flags that the adder and the multiplier give to the normalizer.         *)
(***************************************************************************)
EXTENDS FloatWords, CpuDecode

\* The unit an instruction starts. One that the FPU does not implement starts
\* none; the operation it stands for is then that of the classifier.
UnitOf(i) ==
    CASE Bits(i.funct7, 6, 2) = \b11100 -> "class"
      [] Bits(i.funct7, 6, 2) = \b10100 -> "comp"
      [] Bits(i.funct7, 6, 2) = \b11010 -> "i2f"
      [] Bits(i.funct7, 6, 2) = \b11000 -> "f2i"
      [] Bits(i.funct7, 6, 2) = \b00100 -> "sgnj"
      [] Bits(i.funct7, 6, 2) = \b00101 -> "minmax"
      [] Bits(i.funct7, 6, 3) = \b0000  -> "addsub"
      [] Bits(i.funct7, 6, 2) = \b00010 -> "mul"
      [] OTHER -> "none"
OperationOf(i) == IF UnitOf(i) = "none" THEN "class" ELSE UnitOf(i)

\* The operands lose the mantissa of a subnormal number.
OperandData(word) ==
    IF ExponentOf(word) = 0 THEN FloatWord(SignOf(word), 0, 0) ELSE word

\* number_classifier: the position of the class in the result of FCLASS.
ClassNames == <<"neg_inf", "neg_norm", "neg_denorm", "neg_zero", "pos_zero",
                "pos_denorm", "pos_norm", "pos_inf", "snan", "qnan">>

ClassOf(word) ==
    LET negative == SignOf(word) = 1
    IN  CASE IsInfinite(word) -> IF negative THEN "neg_inf" ELSE "pos_inf"
          [] IsZero(word) -> IF negative THEN "neg_zero" ELSE "pos_zero"
          [] IsNaN(word) -> IF Bit(word, MAN - 1) = 1 THEN "qnan" ELSE "snan"
          [] OTHER -> IF negative THEN "neg_norm" ELSE "pos_norm"

ClassResult(a) == 2 ^ ((CHOOSE k \in 1 .. 10 : ClassNames[k] = ClassOf(a)) - 1)

Infinities == {"pos_inf", "neg_inf"}
Zeros == {"pos_zero", "neg_zero"}
NaNs == {"snan", "qnan"}

\* float_comparator: equal and less are the comparison of the words by the ALU.
SameOutOfOrder(a, b) ==
    \/ ClassOf(a) \in Infinities /\ ClassOf(a) = ClassOf(b)
    \/ ClassOf(a) \in Zeros /\ ClassOf(b) \in Zeros

ComparedEqual(a, b, equal) == SameOutOfOrder(a, b) \/ equal

\* Mutant: the order of two negative numbers is that of their words.
ComparedLessOfWords(a, b, less) ==
    /\ ~SameOutOfOrder(a, b)
    /\ CASE SignOf(a) = 1 /\ SignOf(b) = 0 -> TRUE
         [] SignOf(a) = 0 /\ SignOf(b) = 1 -> FALSE
         [] OTHER -> less

ComparedLess(a, b, less) ==
    /\ ~SameOutOfOrder(a, b)
    /\ CASE SignOf(a) = 1 /\ SignOf(b) = 0 -> TRUE
         [] SignOf(a) = 0 /\ SignOf(b) = 1 -> FALSE
         [] SignOf(a) = 0 /\ SignOf(b) = 0 -> less
         [] SignOf(a) = 1 /\ SignOf(b) = 1 -> ~less

\* float_comparison
Comparison(funct3, a, b, equal, less) ==
    LET holds == CASE Bits(funct3, 1, 0) = \b00 ->
                        ComparedLess(a, b, less) \/ ComparedEqual(a, b, equal)
                   [] Bits(funct3, 1, 0) = \b01 -> ComparedLess(a, b, less)
                   [] Bits(funct3, 1, 0) = \b10 -> ComparedEqual(a, b, equal)
                   [] OTHER -> FALSE
    IN  IF holds /\ {ClassOf(a), ClassOf(b)} \intersect NaNs = {} THEN 1 ELSE 0

\* min_max_select
MinMax(funct3, a, b, less) ==
    LET maximum == Bits(funct3, 0, 0) = 1
        second == CASE ClassOf(a) = "neg_zero" /\ ClassOf(b) = "pos_zero" -> maximum
                    [] ClassOf(a) = "pos_zero" /\ ClassOf(b) = "neg_zero" -> ~maximum
                    [] OTHER -> ComparedLess(a, b, less) = maximum
    IN  CASE ClassOf(a) \in NaNs /\ ClassOf(b) \in NaNs -> QuietNaN
          [] ClassOf(a) \notin NaNs /\ ClassOf(b) \in NaNs -> a
          [] ClassOf(a) \in NaNs /\ ClassOf(b) \notin NaNs -> b
          [] OTHER -> IF second THEN b ELSE a

\* sign_injector
SignInjected(funct3, a, b) ==
    LET sign == CASE Bits(funct3, 1, 0) = \b01 -> 1 - SignOf(b)
                  [] Bits(funct3, 1, 0) = \b10 -> IF SignOf(a) = SignOf(b) THEN 0 ELSE 1
                  [] OTHER -> SignOf(b)
    IN  FloatWord(sign, 0, Magnitude(a))

-----------------------------------------------------------------------------
(* The multiplier.                                                         *)

HiddenOne(word) == 2 ^ MAN + MantissaOf(word)
MulMantissa(a, b) == HiddenOne(a) * HiddenOne(b)
MulSign(a, b) == IF SignOf(a) = SignOf(b) THEN 0 ELSE 1

\* The exponent has two bits more than the field: below 0 and beyond the field.
MulExponent(a, b) == ExponentOf(a) + ExponentOf(b) - Bias
ZeroTimesInfinity(a, b) ==
    \/ ClassOf(a) \in Zeros /\ ClassOf(b) \in Infinities
    \/ ClassOf(a) \in Infinities /\ ClassOf(b) \in Zeros

MulFlags(a, b) ==
    {flag \in {"nv", "of", "uf"} :
        CASE flag = "nv" -> ZeroTimesInfinity(a, b)
          [] flag = "of" -> MulExponent(a, b) >= 2 ^ EXP
          [] flag = "uf" -> MulExponent(a, b) < 0}

Signed3(sign, positive, negative) == IF sign = 1 THEN negative ELSE positive

MulClass(a, b) ==
    LET classes == {ClassOf(a), ClassOf(b)}
        sign == MulSign(a, b)
    IN  CASE classes \intersect NaNs # {} -> (classes \intersect {"snan"}) \union {"qnan"}
          [] ZeroTimesInfinity(a, b) -> {"qnan"}
          [] classes \intersect NaNs = {} /\ ~ZeroTimesInfinity(a, b) ->
                {Signed3(sign, "pos_inf", "neg_inf") : c \in classes \intersect Infinities}
                \union {Signed3(sign, "pos_zero", "neg_zero") : c \in classes \intersect Zeros}

-----------------------------------------------------------------------------
(* The adder. subtract is bit 7 of the instruction's funct12.              *)

AddFlags(a, b) ==
    IF ClassOf(a) \in Infinities /\ ClassOf(b) \in Infinities THEN {"nv"} ELSE {}

\* The two tables of classes are one: a difference is the sum of the opposite.
AddClass(a, b, subtract) ==
    LET addend == IF subtract THEN Negated(b) ELSE b
        classes == {ClassOf(a), ClassOf(addend)}
    IN  CASE classes \intersect NaNs # {} -> (classes \intersect {"snan"}) \union {"qnan"}
          [] classes = Infinities -> {"qnan"}
          [] classes \intersect NaNs = {} /\ classes # Infinities /\ classes \intersect Infinities # {} ->
                classes \intersect Infinities
          [] classes = {"neg_zero"} -> {"neg_zero"}
          [] classes \subseteq Zeros /\ classes # {"neg_zero"} -> {"pos_zero"}
          [] OTHER -> {}

FirstIsSmall(a, b) == ExponentOf(a) < ExponentOf(b)
SmallOperand(a, b) == IF FirstIsSmall(a, b) THEN a ELSE b
LargeOperand(a, b) == IF FirstIsSmall(a, b) THEN b ELSE a

\* Whether the mantissas, the smaller one aligned, are added.
Adds(a, b, subtract) == (SignOf(a) = SignOf(b)) # subtract

\* man_comp: the aligned mantissa is the smaller one indeed. It is a number with
\* the three bits guard, round and sticky below its last place.
AddSign(a, b, subtract, aligned) ==
    LET keeps == \/ Adds(a, b, subtract)
                 \/ IF ExponentOf(a) = ExponentOf(b)
                    THEN aligned \div 8 <= HiddenOne(LargeOperand(a, b))
                    ELSE ~FirstIsSmall(a, b)
    IN  IF keeps THEN SignOf(a) ELSE 1 - SignOf(a)

AddMantissa(a, b, subtract, aligned) ==
    LET large == 8 * HiddenOne(LargeOperand(a, b))
    IN  CASE Adds(a, b, subtract) -> large + aligned
          [] ~Adds(a, b, subtract) -> Max({aligned - large, large - aligned})

-----------------------------------------------------------------------------
(* Shifts and rounding of such numbers.                                    *)

\* What is shifted out stays in the sticky bit; it comes back from there.
ShiftedToSticky(n) == 2 * (n \div 4) + (IF n % 4 = 0 THEN 0 ELSE 1)
ShiftedFromSticky(n) == 2 * n + (n % 2)

\* Mutant: ties go up.
RoundingStepUp(frm, odd, rest) ==
    CASE frm = 0 -> IF rest >= 4 THEN 1 ELSE 0
      [] frm = 1 -> 0
      [] frm = 2 -> IF rest # 0 THEN -1 ELSE 0
      [] frm = 3 -> IF rest # 0 THEN 1 ELSE 0

\* What the rounding mode adds to a number with an odd or even last place. The
\* third mode takes one away, the fourth adds one.
RoundingStep(frm, odd, rest) ==
    CASE frm = 0 -> IF rest > 4 \/ (rest = 4 /\ odd) THEN 1 ELSE 0
      [] frm = 1 -> 0
      [] frm = 2 -> IF rest # 0 THEN -1 ELSE 0
      [] frm = 3 -> IF rest # 0 THEN 1 ELSE 0
=============================================================================
