-------------------------- MODULE NeoAluIntrinsics --------------------------
(***************************************************************************)
(* What the instructions of the ALU promise: the co-processors keep to the *)
(* interface of the arbiter, and every intrinsic writes what the function  *)
(* that emulates it returns.                                               *)
(***************************************************************************)
EXTENDS NeoAlu, BitmanipIntrinsics, ZfinxIntrinsics

\* The values that the intrinsic i_reg is given, and that of its result.
a0 == i_reg.rs1
a1 == i_reg.rs2
Undisturbed == Writes /\ ~abandoned
Gives(intrinsic, value) == Undisturbed /\ instr = intrinsic => AluResult = value

-----------------------------------------------------------------------------

\* The control unit is in one of its states and the registers hold words.
TypeOK ==
    /\ state \in {"SYS_WAIT", "DISPATCH", "TRAP_ENTER", "TRAP_EXECUTE", "EXECUTE", "ALU_WAIT"}
    /\ ctrl \in [copro : BOOLEAN, cp : CoProcessors, wb : BOOLEAN]
    /\ {cmd_ff, exc, env, abandoned} \subseteq BOOLEAN
    /\ fflags \subseteq {"nv", "of", "uf", "nx"}
    /\ rs \in [rs1 : Words, rs2 : Words]
    /\ shifter.sreg \in Words /\ shifter.cnt \in Positions /\ shifter.result \in Words
    /\ bitmanip.state \in {"S_IDLE", "S_START_SHIFT", "S_BUSY_SHIFT"}
    /\ bitmanip.cmd \subseteq Operations /\ bitmanip.result \in Words
    /\ bitshift.sreg \in Words /\ bitshift.cnt \in 0 .. 2 * XLEN - 1
    /\ fpu.result \in Words /\ fpu.a \in Words /\ fpu.b \in Words /\ fpu.abs \in Words
    /\ adder.exp \in 0 .. AllOnes /\ adder.aligned \in 0 .. 2 ^ (MAN + 4) - 1
    /\ norm.cnt \in 0 .. 2 ^ (EXP + 1) - 1 /\ norm.sreg \in 0 .. 2 ^ (XLEN + MAN + 3) - 1
    /\ norm.result \in Words
    /\ f2i.int \in Words /\ f2i.mant \in 0 .. 2 ^ MAN - 1 /\ f2i.result \in Words

\* A co-processor answers only the instruction that waits for it, as long as no
\* trapped instruction has left one of them running.
AnswersAreAwaited ==
    \A cp \in CoProcessors :
       Valid(cp) => abandoned \/ (state = "ALU_WAIT" /\ CoProcessorOf(instr) = cp)

\* With interrupts off an illegal instruction writes no register: its exception
\* outlasts the wait for the co-processor that was started for it.
IllegalIsMasked == ~program.mie /\ Writes => IsLegal(instr)

\* The adder, the multiplier and the converter from integers share one
\* normalizer, and all units one signal that ends the operation (fu_core_done):
\* at most one unit is at work, for the operation that keeps the FPU busy, also
\* when trapped instructions and interrupts have come between.
OneUnitAtATime ==
    /\ adder.state # "IDLE" => fpu.busy /\ fpu.op = "addsub" /\ norm.state = "S_IDLE"
    /\ norm.state # "S_IDLE" => fpu.busy /\ fpu.op \in {"addsub", "mul", "i2f"}
    /\ f2i.state # "S_IDLE" => fpu.busy /\ fpu.op = "f2i"

\* "prevent commits if illegal instruction" (ctrl_output), at any time.
NothingIllegalIsWritten == Writes => IsLegal(instr)

\* Every operation ends, but for those that find the FPU with a trapped one
\* that none of its units carries out.
Hung == fpu.busy /\ fpu.op = "class" /\ fpu.after > 0
EveryOperationEnds == state = "ALU_WAIT" ~> state = "DISPATCH" \/ Hung

-----------------------------------------------------------------------------
(* The interface of the arbiter, by each co-processor.                     *)

Shifter == INSTANCE CoProcessor
    WITH start <- Start("shifter"), valid <- Valid("shifter"), result <- Result("shifter"),
         owes <- shifter.busy
ShifterKeepsContract == Shifter!Spec

Bitmanip == INSTANCE CoProcessor
    WITH start <- Start("bitmanip"), valid <- Valid("bitmanip"), result <- Result("bitmanip"),
         owes <- (bitmanip.state # "S_IDLE" \/ bitmanip.valid)
BitmanipKeepsContract == Bitmanip!Spec

Fpu == INSTANCE CoProcessor
    WITH start <- Start("fpu"), valid <- Valid("fpu"), result <- Result("fpu"),
         owes <- (fpu.busy \/ fpu.valid)
FpuKeepsContract == Fpu!Spec

-----------------------------------------------------------------------------

\* Every intrinsic for bit manipulation gives what its emulation returns; the
\* emulations of clz and ctz do not end for 0, the hardware gives XLEN.
BitmanipLikeEmulated ==
    /\ Gives(riscv_intrinsic_clz, IF a0 = 0 THEN XLEN ELSE riscv_emulate_clz(a0))
    /\ Gives(riscv_intrinsic_ctz, IF a0 = 0 THEN XLEN ELSE riscv_emulate_ctz(a0))
    /\ Gives(riscv_intrinsic_cpop, riscv_emulate_cpop(a0))
    /\ Gives(riscv_intrinsic_sextb, riscv_emulate_sextb(a0))
    /\ Gives(riscv_intrinsic_sexth, riscv_emulate_sexth(a0))
    /\ Gives(riscv_intrinsic_zexth, riscv_emulate_zexth(a0))
    /\ Gives(riscv_intrinsic_min, riscv_emulate_min(a0, a1))
    /\ Gives(riscv_intrinsic_minu, riscv_emulate_minu(a0, a1))
    /\ Gives(riscv_intrinsic_max, riscv_emulate_max(a0, a1))
    /\ Gives(riscv_intrinsic_maxu, riscv_emulate_maxu(a0, a1))
    /\ Gives(riscv_intrinsic_andn, riscv_emulate_andn(a0, a1))
    /\ Gives(riscv_intrinsic_orn, riscv_emulate_orn(a0, a1))
    /\ Gives(riscv_intrinsic_xnor, riscv_emulate_xnor(a0, a1))
    /\ Gives(riscv_intrinsic_rol, riscv_emulate_rol(a0, a1))
    /\ Gives(riscv_intrinsic_ror, riscv_emulate_ror(a0, a1))
    /\ Gives(riscv_intrinsic_rori20, riscv_emulate_ror(a0, 20))
    /\ Gives(riscv_intrinsic_orcb, riscv_emulate_orcb(a0))
    /\ Gives(riscv_intrinsic_rev8, riscv_emulate_rev8(a0))
    /\ Gives(riscv_intrinsic_sh1add, riscv_emulate_sh1add(a0, a1))
    /\ Gives(riscv_intrinsic_sh2add, riscv_emulate_sh2add(a0, a1))
    /\ Gives(riscv_intrinsic_sh3add, riscv_emulate_sh3add(a0, a1))

\* The shifts and the operations of the ALU itself are those of C, with the
\* operand or the immediate as the second.
SecondOperand == IF instr.opcode = opcode_alu_c THEN a1 ELSE Immediate
BaseResult ==
    LET b == SecondOperand
        n == b % XLEN
    IN  CASE instr.funct3 = 0 -> (Signed(a0) + (IF instr.opcode = opcode_alu_c /\ instr.funct7 # 0
                                                THEN -Signed(b) ELSE Signed(b))) % 2 ^ XLEN
          [] instr.funct3 = 1 -> ShiftLeft(a0, n)
          [] instr.funct3 = 2 -> IF Signed(a0) < Signed(b) THEN 1 ELSE 0
          [] instr.funct3 = 3 -> IF a0 < b THEN 1 ELSE 0
          [] instr.funct3 = 4 -> Xor(a0, b)
          [] instr.funct3 = 5 -> IF instr.funct7 = 0 THEN a0 \div 2 ^ n
                                 ELSE (Signed(a0) \div 2 ^ n) % 2 ^ XLEN
          [] instr.funct3 = 6 -> Or(a0, b)
          [] instr.funct3 = 7 -> And(a0, b)

BaseOperations ==
    Undisturbed /\ IsAluOperation(instr) /\ IsLegal(instr) /\ ~IsBitmanip(instr)
       => AluResult = BaseResult

-----------------------------------------------------------------------------

\* Of the exact difference of two equal numbers the sign is that of the first;
\* a result that C rounds up to the smallest normal number may become 0.
SmallestNormal == FloatWord(0, 1, 0)
SumLike(value, cancels) ==
    \/ AluResult = value
    \/ cancels /\ IsZero(value) /\ AluResult = FloatWord(SignOf(a0), 0, 0)
    \/ Magnitude(value) = SmallestNormal /\ AluResult = FloatWord(SignOf(value), 0, 0)

\* Products are the emulated ones: the multiplier and the normalizer round the
\* exact product once, also where its exponent leaves the range.
ProductsLikeEmulated ==
    Undisturbed /\ instr = riscv_intrinsic_fmuls => SumLike(riscv_emulate_fmuls(a0, a1), FALSE)

\* Sums, differences and products are the emulated ones.
SumsLikeEmulated ==
    /\ Undisturbed =>
         /\ instr = riscv_intrinsic_fadds => SumLike(riscv_emulate_fadds(a0, a1), a0 = Negated(a1))
         /\ instr = riscv_intrinsic_fsubs => SumLike(riscv_emulate_fsubs(a0, a1), a0 = a1)
    /\ ProductsLikeEmulated

\* Comparisons, minimum, maximum, signs and classes are the emulated ones, but
\* for FLT of two equal negative numbers.
ComparisonsLikeEmulated ==
    /\ Gives(riscv_intrinsic_fmins, riscv_emulate_fmins(a0, a1))
    /\ Gives(riscv_intrinsic_fmaxs, riscv_emulate_fmaxs(a0, a1))
    /\ Gives(riscv_intrinsic_feqs, riscv_emulate_feqs(a0, a1))
    /\ ~(a0 = a1 /\ SignOf(a0) = 1) =>
          Gives(riscv_intrinsic_flts, riscv_emulate_flts(a0, a1))
    /\ Gives(riscv_intrinsic_fles, riscv_emulate_fles(a0, a1))
    /\ Gives(riscv_intrinsic_fsgnjs, riscv_emulate_fsgnjs(a0, a1))
    /\ Gives(riscv_intrinsic_fsgnjns, riscv_emulate_fsgnjns(a0, a1))
    /\ Gives(riscv_intrinsic_fsgnjxs, riscv_emulate_fsgnjxs(a0, a1))
    /\ Gives(riscv_intrinsic_fclasss, riscv_emulate_fclasss(a0))

\* The numbers of which C defines the conversion to an integer of low .. high,
\* and what the others and the NaNs become.
Convertible(low, high) ==
    ExponentOf(a0) < Bias + XLEN /\ NearestInteger(subnormal_flush(a0)) \in low .. high
Limit(low, high) == IF SignOf(a0) = 1 /\ ~IsNaN(a0) THEN low ELSE high

\* Half way between two integers, and the number that follows one half, the
\* hardware may give the other neighbour.
IsBetween(a) ==
    \/ Scale(a) \in -(MAN + 1) .. -1 /\ Significand(a) % 2 ^ (-Scale(a)) = 2 ^ (-Scale(a) - 1)
    \/ Magnitude(a) = FloatWord(0, Bias - 1, 1)

\* Conversions are the emulated ones where those are defined, and the nearest
\* limit of the integer type elsewhere.
ConversionsLikeEmulated ==
    LET low  == -(2 ^ (XLEN - 1))
        high == 2 ^ (XLEN - 1) - 1
    IN  /\ ~IsBetween(a0) =>
             /\ Gives(riscv_intrinsic_fcvt_wus,
                      IF Convertible(0, 2 ^ XLEN - 1) THEN riscv_emulate_fcvt_wus(a0)
                      ELSE Limit(0, 2 ^ XLEN - 1))
             /\ Gives(riscv_intrinsic_fcvt_ws,
                      IF Convertible(low, high) THEN riscv_emulate_fcvt_ws(a0)
                      ELSE Limit(low, high) % 2 ^ XLEN)
        /\ Gives(riscv_intrinsic_fcvt_swu, riscv_emulate_fcvt_swu(a0))
        /\ Gives(riscv_intrinsic_fcvt_sw, riscv_emulate_fcvt_sw(a0))

\* The flags of the hardware after a sum or a product, from clear ones, and those
\* of the emulation.
Emulated(a, b) ==
    CASE instr = riscv_intrinsic_fadds -> SumRaises(a, b)
      [] instr = riscv_intrinsic_fsubs -> SumRaises(a, Negated(b))
      [] instr = riscv_intrinsic_fmuls -> ProductRaises(a, b)

\* The flags of sums and products are those of the emulation where the hardware
\* can tell: it flags every invalid operation and every underflow, exactly
\* the overflows of finite operands, an underflow only with the result 0, and as
\* inexact only what is. That it misses the results rounded down, flags exact
\* zeros as underflows and infinite operands as overflows is no disagreement here.
FloatFlags ==
    LET a == subnormal_flush(a0)
        b == subnormal_flush(a1)
        hw == get_hw_exceptions(fpu.flags).res
        sw == get_sw_exceptions(Emulated(a, b)).res
        finite == ~IsNaN(a) /\ ~IsNaN(b) /\ ~IsInfinite(a) /\ ~IsInfinite(b)
    IN  Undisturbed /\ instr \in {riscv_intrinsic_fadds, riscv_intrinsic_fsubs, riscv_intrinsic_fmuls} =>
          /\ "nv" \in sw => "nv" \in hw
          /\ finite => hw \intersect {"nv", "of"} = sw \intersect {"nv", "of"}
          /\ "uf" \in sw => "uf" \in hw
          /\ "uf" \in hw => IsZero(AluResult)
          /\ "nx" \in hw => "nx" \in sw
          /\ "dz" \notin hw
=============================================================================
