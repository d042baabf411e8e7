------------------------------- MODULE CpFpu -------------------------------
(***************************************************************************)
(* Co-processor 3, the floating point unit: its controller, the adder that *)
(* aligns one place in a period, the multiplier, the normalizer that also  *)
(* rounds and converts integers, and the converter to integers. A step is  *)
(* a rising edge, with all units on the same one. The instruction i is the *)
(* one in the instruction register at that edge, which is not always the   *)
(* one that started the operation.                                         *)
(***************************************************************************)
EXTENDS FpuOperations

VARIABLES
    fpu,     \* controller and operands; after: periods since the start, up to 4
    adder,   \* state, aligned (the smaller mantissa), exp
    norm,    \* the normalizer: ctrl, sreg (its shift register with g, r and s)
    f2i      \* the converter to integers

fpu_vars == <<fpu, adder, norm, f2i>>

FpuInit ==
    /\ fpu = [busy |-> FALSE, after |-> 4, valid |-> FALSE, op |-> "class", equal |-> FALSE,
              less |-> FALSE, frm |-> 0, a |-> 0, b |-> 0, sub |-> FALSE, neg |-> FALSE,
              abs |-> 0, result |-> 0, flags |-> {}]
    /\ adder = [state |-> "IDLE", aligned |-> 0, exp |-> 0]
    /\ norm = [state |-> "S_IDLE", norm_r |-> FALSE, cnt |-> 0, cnt_pre |-> 0, of |-> FALSE,
               uf |-> FALSE, rounded |-> FALSE, sign |-> 0, class |-> {}, flags |-> {},
               sreg |-> 0, left |-> FALSE, result |-> 0, done |-> FALSE]
    /\ f2i = [state |-> "S_IDLE", unsign |-> FALSE, cnt |-> 0, rounded |-> FALSE,
              over |-> FALSE, under |-> FALSE, int |-> 0, mant |-> 0, s |-> FALSE,
              result_tmp |-> 0, result |-> 0, done |-> FALSE]

Started(i, unit) == fpu.after = 0 /\ UnitOf(i) = unit

\* Mutant: the adder ends its operation, not the normalizer after it.
CoreDoneOfAdder(i) ==
    \/ Started(i, "class") \/ Started(i, "sgnj")
    \/ fpu.after = 1 /\ fpu.op \in {"comp", "minmax"}
    \/ adder.state = "DONE" \/ norm.done \/ f2i.done

\* fu_core_done
CoreDone(i) ==
    \/ Started(i, "class") \/ Started(i, "sgnj")
    \/ fpu.after = 1 /\ fpu.op \in {"comp", "minmax"}
    \/ norm.done \/ f2i.done

-----------------------------------------------------------------------------
(* The adder: from the comparison of the exponents to the sum.             *)

AnyZero == {ClassOf(fpu.a), ClassOf(fpu.b)} \intersect Zeros # {}
Aligned == adder.exp % 2 ^ EXP = ExponentOf(LargeOperand(fpu.a, fpu.b))

AdderClock(i) ==
    adder' =
      CASE Started(i, "addsub") -> [adder EXCEPT !.state = "COMPARE"]
        [] adder.state = "COMPARE" ->
             [state   |-> "ALIGN",
              aligned |-> IF AnyZero THEN 0 ELSE 8 * HiddenOne(SmallOperand(fpu.a, fpu.b)),
              exp     |-> ExponentOf(SmallOperand(fpu.a, fpu.b))]
        [] adder.state = "ALIGN" /\ ~Aligned ->
             [adder EXCEPT !.aligned = ShiftedToSticky(@), !.exp = @ + 1]
        [] adder.state = "ALIGN" /\ Aligned -> [adder EXCEPT !.state = "SORT"]
        [] adder.state = "SORT" -> [adder EXCEPT !.state = "ADD"]
        [] adder.state = "ADD" -> [adder EXCEPT !.state = "DONE"]
        [] OTHER -> [adder EXCEPT !.state = "IDLE"]

-----------------------------------------------------------------------------
(* The normalizer. sub, neg and abs are what the instruction and the       *)
(* operand registers were one period before.                               *)

NormalizerStarts ==
    \/ fpu.op = "addsub" /\ adder.state = "DONE"
    \/ fpu.op = "mul" /\ fpu.after = 3
    \/ fpu.op = "i2f" /\ fpu.after = 1

NormalizerInput ==
    CASE fpu.op = "addsub" ->
           [state |-> "S_PREPARE_NORM", cnt |-> adder.exp,
            sign  |-> AddSign(fpu.a, fpu.b, fpu.sub, adder.aligned),
            class |-> AddClass(fpu.a, fpu.b, fpu.sub), flags |-> AddFlags(fpu.a, fpu.b)]
      [] fpu.op = "mul" ->
           [state |-> "S_PREPARE_NORM", cnt |-> MulExponent(fpu.a, fpu.b) % 2 ^ EXP,
            sign  |-> MulSign(fpu.a, fpu.b), class |-> MulClass(fpu.a, fpu.b),
            flags |-> MulFlags(fpu.a, fpu.b)]
      [] OTHER ->
           [state |-> "S_PREPARE_I2F", cnt |-> Bias, sign |-> IF fpu.neg THEN 1 ELSE 0,
            class |-> {}, flags |-> {}]

\* The product keeps two bits below its last place, the others become one.
NormalizerMantissa ==
    CASE fpu.op = "addsub" -> AddMantissa(fpu.a, fpu.b, fpu.sub, adder.aligned)
      [] OTHER -> LET product == MulMantissa(fpu.a, fpu.b)
                  IN  2 * (product \div 2 ^ (MAN - 2))
                      + (IF product % 2 ^ (MAN - 2) = 0 THEN 0 ELSE 1)

Upper == norm.sreg \div 2 ^ (MAN + 3)
Lower == (norm.sreg \div 8) % 2 ^ MAN
NeedsNoShift == norm.class # {} \/ norm.flags \intersect {"uf", "of", "nv"} # {}

NormalizeBusy ==
    CASE Upper = 1 \/ norm.uf \/ norm.of ->
           [norm EXCEPT !.norm_r = TRUE, !.state = IF norm.norm_r THEN "S_CHECK" ELSE "S_ROUND"]
      [] Upper # 1 /\ ~norm.uf /\ ~norm.of /\ ~norm.left ->
           [norm EXCEPT !.cnt = (@ + 1) % 2 ^ (EXP + 1), !.sreg = ShiftedToSticky(@)]
      [] Upper # 1 /\ ~norm.uf /\ ~norm.of /\ norm.left ->
           [norm EXCEPT !.cnt = (@ - 1) % 2 ^ (EXP + 1), !.sreg = ShiftedFromSticky(@)]

Rounding ==
    LET kept == (norm.sreg \div 8) % 2 ^ (MAN + 1)
        step == RoundingStep(fpu.frm, kept % 2 = 1, norm.sreg % 8)
    IN  [norm EXCEPT !.rounded = @ \/ step # 0, !.state = "S_PREPARE_SHIFT",
                     !.sreg = 8 * ((kept + step) % 2 ^ (MAN + 2))]

RangeFlags ==
    CASE norm.uf -> {"uf"}
      [] ~norm.uf /\ norm.of -> {"of"}
      [] ~norm.uf /\ ~norm.of /\ norm.cnt % 2 ^ EXP = 0 -> {"uf"}
      [] ~norm.uf /\ ~norm.of /\ norm.cnt % 2 ^ EXP = AllOnes -> {"of"}
      [] OTHER -> {}

\* The order of the checks: each holds where none before it does.
FinalWord ==
    LET signed(word) == FloatWord(norm.sign, 0, word)
    IN  IF norm.class \intersect NaNs # {} THEN QuietNaN
        ELSE IF norm.class \intersect Infinities # {} \/ "of" \in norm.flags THEN signed(Infinity)
        ELSE IF norm.class \intersect Zeros # {}
             THEN FloatWord(IF "neg_zero" \in norm.class THEN 1 ELSE 0, 0, 0)
        ELSE IF "uf" \in norm.flags \/ Upper = 0 THEN signed(0)
        ELSE FloatWord(norm.sign, norm.cnt % 2 ^ EXP, Lower)

\* Mutant: a signaling NaN raises no flag.
FinalFlagsQuiet == norm.flags \union (IF norm.rounded THEN {"nx"} ELSE {})

FinalFlags ==
    norm.flags \union (IF "snan" \in norm.class THEN {"nv"} ELSE {})
               \union (IF norm.rounded THEN {"nx"} ELSE {})

NormalizerStep ==
    CASE norm.state = "S_IDLE" ->
           LET idle == [norm EXCEPT !.norm_r = FALSE, !.rounded = FALSE]
               input == NormalizerInput
           IN  IF NormalizerStarts
               THEN [idle EXCEPT !.state = input.state, !.cnt = input.cnt, !.sign = input.sign,
                                 !.class = input.class, !.flags = input.flags]
               ELSE idle
      [] norm.state = "S_PREPARE_I2F" ->
           [norm EXCEPT !.sreg = fpu.abs * 2 ^ (MAN + 3), !.left = FALSE, !.state = "S_CHECK_I2F"]
      [] norm.state = "S_CHECK_I2F" ->
           IF Upper = 0 THEN [norm EXCEPT !.class = @ \union {"pos_zero"}, !.state = "S_FINALIZE"]
           ELSE [norm EXCEPT !.state = "S_NORMALIZE_BUSY"]
      [] norm.state = "S_PREPARE_NORM" ->
           [norm EXCEPT !.sreg = NormalizerMantissa,
                        !.state = IF NeedsNoShift THEN "S_FINALIZE" ELSE "S_PREPARE_SHIFT"]
      [] norm.state = "S_PREPARE_SHIFT" ->
           [norm EXCEPT !.left = (Upper = 0), !.state = "S_NORMALIZE_BUSY"]
      [] norm.state = "S_NORMALIZE_BUSY" -> NormalizeBusy
      [] norm.state = "S_ROUND" -> Rounding
      [] norm.state = "S_CHECK" ->
           [norm EXCEPT !.flags = @ \union RangeFlags, !.state = "S_FINALIZE"]
      [] norm.state = "S_FINALIZE" ->
           [norm EXCEPT !.result = FinalWord, !.flags = FinalFlags, !.state = "S_IDLE"]

\* The exponent passes a limit when its two highest bits step from 01 to 10 or
\* from 00 to 11; that is seen one period after the step.
NormalizerClock ==
    LET high(n) == n \div 2 ^ (EXP - 1)
        idle == norm.state = "S_IDLE"
    IN  norm' = [NormalizerStep EXCEPT
                   !.cnt_pre = norm.cnt,
                   !.of = ~idle /\ (@ \/ (high(norm.cnt_pre) = 1 /\ high(norm.cnt) = 2)),
                   !.uf = ~idle /\ (@ \/ (high(norm.cnt_pre) = 0 /\ high(norm.cnt) = 3)),
                   !.done = (norm.state = "S_FINALIZE")]

-----------------------------------------------------------------------------
(* The converter to integers.                                              *)

\* Mutant: everything below 1 is too small.
F2iPrepareBelowOne ==
    LET shifts == [f2i EXCEPT !.state = IF ClassOf(fpu.a) \in Infinities \union Zeros \union NaNs
                                        THEN "S_FINALIZE" ELSE "S_NORMALIZE_BUSY"]
    IN  IF f2i.cnt < Bias THEN [shifts EXCEPT !.int = 0, !.under = TRUE, !.cnt = 0]
        ELSE [shifts EXCEPT !.int = 1, !.cnt = @ - Bias]

F2iPrepare ==
    LET shifts == [f2i EXCEPT !.state = IF ClassOf(fpu.a) \in Infinities \union Zeros \union NaNs
                                        THEN "S_FINALIZE" ELSE "S_NORMALIZE_BUSY"]
    IN  CASE f2i.cnt < Bias - 1 -> [shifts EXCEPT !.int = 0, !.under = TRUE, !.cnt = 0]
          [] f2i.cnt = Bias - 1 ->
               [shifts EXCEPT !.int = 0, !.mant = 2 ^ (MAN - 1) + @ \div 2, !.cnt = 0]
          [] f2i.cnt > Bias - 1 -> [shifts EXCEPT !.int = 1, !.cnt = @ - Bias]

\* The sticky bit takes all of the mantissa but its first two bits in every
\* period, also those that are still to be shifted into the integer.
F2iBusy ==
    LET sticky == [f2i EXCEPT !.s = @ \/ f2i.mant % 2 ^ (MAN - 2) # 0]
        highest == Bit(f2i.int, XLEN - 1) = 1
    IN  IF f2i.cnt % 2 ^ (EXP - 1) = 0
        THEN [sticky EXCEPT !.over = @ \/ (~f2i.unsign /\ highest), !.state = "S_ROUND"]
        ELSE [sticky EXCEPT !.cnt = @ - 1, !.over = @ \/ highest,
                            !.int = ShiftLeft(@, 1) + Bit(f2i.mant, MAN - 1),
                            !.mant = Low(2 * @, MAN)]

F2iRound ==
    LET rest == 2 * (f2i.mant \div 2 ^ (MAN - 2)) + (IF f2i.s THEN 1 ELSE 0)
        step == RoundingStep(fpu.frm, f2i.int % 2 = 1, rest)
        sum == (f2i.int + step) % 2 ^ (XLEN + 1)
    IN  [f2i EXCEPT !.rounded = @ \/ step # 0, !.over = @ \/ sum >= 2 ^ XLEN,
                    !.result_tmp = sum % 2 ^ XLEN, !.state = "S_FINALIZE"]

Saturated ==
    LET class == ClassOf(fpu.a)
        negative == SignOf(fpu.a) = 1
        above == class \in NaNs \union {"pos_inf"} \/ (~negative /\ f2i.over)
        nothing == class \in Zeros \/ f2i.under
        below == class = "neg_inf" \/ (negative /\ f2i.over)
    IN  IF above THEN IF f2i.unsign THEN 2 ^ XLEN - 1 ELSE 2 ^ (XLEN - 1) - 1
        ELSE IF nothing \/ (f2i.unsign /\ negative) THEN 0
        ELSE IF ~f2i.unsign /\ below THEN 2 ^ (XLEN - 1)
        ELSE IF negative THEN (-f2i.result_tmp) % 2 ^ XLEN ELSE f2i.result_tmp

F2iStep(i) ==
    CASE f2i.state = "S_IDLE" ->
           LET idle == [f2i EXCEPT !.rounded = FALSE, !.over = FALSE, !.under = FALSE,
                                   !.s = FALSE, !.unsign = (Bits(i.rs2, 0, 0) = 1)]
           IN  IF Started(i, "f2i")
               THEN [idle EXCEPT !.state = "S_PREPARE_F2I", !.cnt = ExponentOf(fpu.a),
                                 !.mant = MantissaOf(fpu.a)]
               ELSE idle
      [] f2i.state = "S_PREPARE_F2I" -> F2iPrepare
      [] f2i.state = "S_NORMALIZE_BUSY" -> F2iBusy
      [] f2i.state = "S_ROUND" -> F2iRound
      [] f2i.state = "S_FINALIZE" -> [f2i EXCEPT !.result = Saturated, !.state = "S_IDLE"]

F2iClock(i) == f2i' = [F2iStep(i) EXCEPT !.done = (f2i.state = "S_FINALIZE")]

F2iFlags ==
    (IF ClassOf(fpu.a) \in NaNs THEN {"nv"} ELSE {})
    \union (IF f2i.over \/ ClassOf(fpu.a) \in Infinities THEN {"of"} ELSE {})
    \union (IF f2i.under THEN {"uf"} ELSE {}) \union (IF f2i.rounded THEN {"nx"} ELSE {})

-----------------------------------------------------------------------------
(* The controller and the output gate.                                     *)

\* With funct3 = 111 the mode is that of the register frm, here 0.
RoundingMode(i) == IF i.funct3 = \b111 THEN 0 ELSE Bits(i.funct3, 1, 0)

FpuResult(i) ==
    CASE fpu.op = "class" -> ClassResult(fpu.a)
      [] fpu.op = "comp" -> Comparison(i.funct3, fpu.a, fpu.b, fpu.equal, fpu.less)
      [] fpu.op = "f2i" -> f2i.result
      [] fpu.op = "sgnj" -> SignInjected(i.funct3, fpu.a, fpu.b)
      [] fpu.op = "minmax" -> MinMax(i.funct3, fpu.a, fpu.b, fpu.less)
      [] OTHER -> norm.result

FpuFlags ==
    CASE fpu.op = "f2i" -> F2iFlags
      [] fpu.op \in {"addsub", "mul", "i2f"} -> norm.flags
      [] OTHER -> {}

ControlEngine(start, i, equal, less, rs1, rs2) ==
    LET idle == [fpu EXCEPT !.valid = FALSE, !.op = OperationOf(i), !.equal = equal,
                            !.less = less, !.frm = RoundingMode(i)]
        next == [fpu EXCEPT !.valid = CoreDone(i), !.busy = ~CoreDone(i), !.after = Min({@ + 1, 4})]
    IN  CASE ~fpu.busy /\ ~start -> [idle EXCEPT !.after = 4]
          [] ~fpu.busy /\ start ->
               [idle EXCEPT !.busy = TRUE, !.after = 0, !.a = OperandData(rs1),
                            !.b = OperandData(rs2)]
          [] fpu.busy -> next

\* The registers of the converter from integers are written in every period.
Negates(i, rs1) == Bits(i.rs2, 0, 0) = 0 /\ Bit(rs1, XLEN - 1) = 1

\* Mutant: the result is gated when the unit is idle, not when it is not valid.
OutputGateWhileBusy(i) == IF fpu.valid \/ fpu.busy THEN FpuResult(i) ELSE 0

\* output_gate
OutputGate(i) == IF fpu.valid THEN FpuResult(i) ELSE 0

FpuClock(start, i, equal, less, rs1, rs2) ==
    /\ fpu' = [ControlEngine(start, i, equal, less, rs1, rs2) EXCEPT
                 !.result = OutputGate(i),
                 !.flags  = IF fpu.valid THEN FpuFlags ELSE {},
                 !.neg    = Negates(i, rs1),
                 !.abs    = IF Negates(i, rs1) THEN (-rs1) % 2 ^ XLEN ELSE rs1,
                 !.sub    = (Bits(i.funct7, 2, 2) = 1)]
    /\ AdderClock(i)
    /\ NormalizerClock
    /\ F2iClock(i)
=============================================================================
