-------------------------- MODULE ZfinxIntrinsics --------------------------
(***************************************************************************)
(* neorv32_zfinx_extension_intrinsics.h: the instruction that each         *)
(* intrinsic of the floating point extension puts in the program (operands *)
(* in a0, a1 and a2, result in a0), and the function of C that emulates    *)
(* it. A float is its binary word, as in the union float_conv_t.           *)
(***************************************************************************)
EXTENDS CFloat, RiscvInstr

-----------------------------------------------------------------------------
(* The intrinsics.                                                         *)

riscv_intrinsic_fadds    == CUSTOM_INSTR_R2_TYPE(\b0000000, "a1", "a0", \b000, "a0", \b1010011)
riscv_intrinsic_fsubs    == CUSTOM_INSTR_R2_TYPE(\b0000100, "a1", "a0", \b000, "a0", \b1010011)
riscv_intrinsic_fmuls    == CUSTOM_INSTR_R2_TYPE(\b0001000, "a1", "a0", \b000, "a0", \b1010011)
riscv_intrinsic_fmins    == CUSTOM_INSTR_R2_TYPE(\b0010100, "a1", "a0", \b000, "a0", \b1010011)
riscv_intrinsic_fmaxs    == CUSTOM_INSTR_R2_TYPE(\b0010100, "a1", "a0", \b001, "a0", \b1010011)
riscv_intrinsic_fcvt_wus == CUSTOM_INSTR_R2_TYPE(\b1100000, "x1", "a0", \b000, "a0", \b1010011)
riscv_intrinsic_fcvt_ws  == CUSTOM_INSTR_R2_TYPE(\b1100000, "x0", "a0", \b000, "a0", \b1010011)
riscv_intrinsic_fcvt_swu == CUSTOM_INSTR_R2_TYPE(\b1101000, "x1", "a0", \b000, "a0", \b1010011)
riscv_intrinsic_fcvt_sw  == CUSTOM_INSTR_R2_TYPE(\b1101000, "x0", "a0", \b000, "a0", \b1010011)
riscv_intrinsic_feqs     == CUSTOM_INSTR_R2_TYPE(\b1010000, "a1", "a0", \b010, "a0", \b1010011)
riscv_intrinsic_flts     == CUSTOM_INSTR_R2_TYPE(\b1010000, "a1", "a0", \b001, "a0", \b1010011)
riscv_intrinsic_fles     == CUSTOM_INSTR_R2_TYPE(\b1010000, "a1", "a0", \b000, "a0", \b1010011)
riscv_intrinsic_fsgnjs   == CUSTOM_INSTR_R2_TYPE(\b0010000, "a1", "a0", \b000, "a0", \b1010011)
riscv_intrinsic_fsgnjns  == CUSTOM_INSTR_R2_TYPE(\b0010000, "a1", "a0", \b001, "a0", \b1010011)
riscv_intrinsic_fsgnjxs  == CUSTOM_INSTR_R2_TYPE(\b0010000, "a1", "a0", \b010, "a0", \b1010011)
riscv_intrinsic_fclasss  == CUSTOM_INSTR_R2_TYPE(\b1110000, "x0", "a0", \b001, "a0", \b1010011)
riscv_intrinsic_fdivs    == CUSTOM_INSTR_R2_TYPE(\b0001100, "a1", "a0", \b000, "a0", \b1010011)
riscv_intrinsic_fsqrts   == CUSTOM_INSTR_R2_TYPE(\b0101100, "a1", "a0", \b000, "a0", \b1010011)
riscv_intrinsic_fmadds   == CUSTOM_INSTR_R3_TYPE("a2", "a1", "a0", \b000, "a0", \b1000011)
riscv_intrinsic_fmsubs   == CUSTOM_INSTR_R3_TYPE("a2", "a1", "a0", \b000, "a0", \b1000111)
riscv_intrinsic_fnmsubs  == CUSTOM_INSTR_R3_TYPE("a2", "a1", "a0", \b000, "a0", \b1001011)
riscv_intrinsic_fnmadds  == CUSTOM_INSTR_R3_TYPE("a2", "a1", "a0", \b000, "a0", \b1001111)

-----------------------------------------------------------------------------
(* The exception flags: a status word is the set of its flags.             *)

\* What the register fflags holds, which is then cleared.
get_hw_exceptions(fflags) == [res |-> fflags, fflags |-> {}]

\* The exceptions raised in the C runtime, which are then cleared.
FP_EXC == [nv |-> "FE_INVALID", dz |-> "FE_DIVBYZERO", of |-> "FE_OVERFLOW",
           uf |-> "FE_UNDERFLOW", nx |-> "FE_INEXACT"]
get_sw_exceptions(fpeRaised) ==
    [res |-> {flag \in DOMAIN FP_EXC : FP_EXC[flag] \in fpeRaised}, fpeRaised |-> {}]

-----------------------------------------------------------------------------
(* The emulation functions. Their integer results and operands are words.  *)

subnormal_flush(tmp) ==
    IF fpclassify(tmp) = "FP_SUBNORMAL" THEN FloatWord(SignOf(tmp), 0, 0) ELSE tmp

riscv_emulate_fadds(rs1, rs2) ==
    subnormal_flush(Sum(subnormal_flush(rs1), subnormal_flush(rs2)))

riscv_emulate_fsubs(rs1, rs2) ==
    subnormal_flush(Difference(subnormal_flush(rs1), subnormal_flush(rs2)))

riscv_emulate_fmuls(rs1, rs2) ==
    subnormal_flush(Product(subnormal_flush(rs1), subnormal_flush(rs2)))

\* The number if one operand is not one, a NaN if both are not.
NotANumber(a, b) == IF IsNaN(a) /\ IsNaN(b) THEN QuietNaN ELSE IF IsNaN(a) THEN b ELSE a
OppositeZeros(a, b) == {a, b} = {0, Negated(0)}

riscv_emulate_fmins(rs1, rs2) ==
    LET opa == subnormal_flush(rs1)
        opb == subnormal_flush(rs2)
    IN  CASE IsNaN(opa) \/ IsNaN(opb) -> NotANumber(opa, opb)
          [] OppositeZeros(opa, opb) -> Negated(0)
          [] OTHER -> IF isless(opa, opb) THEN opa ELSE opb

riscv_emulate_fmaxs(rs1, rs2) ==
    LET opa == subnormal_flush(rs1)
        opb == subnormal_flush(rs2)
    IN  CASE IsNaN(opa) \/ IsNaN(opb) -> NotANumber(opa, opb)
          [] OppositeZeros(opa, opb) -> 0
          [] OTHER -> IF isless(opa, opb) THEN opb ELSE opa

\* The conversion of C is defined when the rounded number is one of the type.
riscv_emulate_fcvt_wus(rs1) == NearestInteger(subnormal_flush(rs1)) % 2 ^ XLEN
riscv_emulate_fcvt_ws(rs1)  == NearestInteger(subnormal_flush(rs1)) % 2 ^ XLEN
riscv_emulate_fcvt_swu(rs1) == FloatOf(rs1)
riscv_emulate_fcvt_sw(rs1)  == FloatOf(Signed(rs1))

Comparable(a, b) == ~IsNaN(a) /\ ~IsNaN(b)

riscv_emulate_feqs(rs1, rs2) ==
    LET opa == subnormal_flush(rs1)
        opb == subnormal_flush(rs2)
    IN  IF Comparable(opa, opb) /\ ~isless(opa, opb) /\ ~isless(opb, opa) THEN 1 ELSE 0

riscv_emulate_flts(rs1, rs2) ==
    LET opa == subnormal_flush(rs1)
        opb == subnormal_flush(rs2)
    IN  IF Comparable(opa, opb) /\ isless(opa, opb) THEN 1 ELSE 0

riscv_emulate_fles(rs1, rs2) ==
    LET opa == subnormal_flush(rs1)
        opb == subnormal_flush(rs2)
    IN  IF Comparable(opa, opb) /\ ~isless(opb, opa) THEN 1 ELSE 0

riscv_emulate_fsgnjs(rs1, rs2) ==
    LET opa == subnormal_flush(rs1)
    IN  IF SignOf(opa) = SignOf(rs2) THEN opa ELSE Negated(opa)

riscv_emulate_fsgnjns(rs1, rs2) ==
    LET opa == subnormal_flush(rs1)
    IN  IF SignOf(opa) = SignOf(rs2) THEN Negated(opa) ELSE opa

\* A different sign makes opa negative, the same sign makes it positive.
riscv_emulate_fsgnjxs(rs1, rs2) ==
    LET opa == subnormal_flush(rs1)
    IN  FloatWord(IF SignOf(opa) = SignOf(rs2) THEN 0 ELSE 1, 0, Magnitude(opa))

riscv_emulate_fclasss(rs1) ==
    LET opa == subnormal_flush(rs1)
        tmp == fpclassify(opa)
        sgn == SignOf(opa) = 1
    IN  CASE tmp = "FP_INFINITE"  -> IF sgn THEN 2 ^ 0 ELSE 2 ^ 7
          [] tmp = "FP_NORMAL"    -> IF sgn THEN 2 ^ 1 ELSE 2 ^ 6
          [] tmp = "FP_SUBNORMAL" -> IF sgn THEN 2 ^ 2 ELSE 2 ^ 5
          [] tmp = "FP_ZERO"      -> IF sgn THEN 2 ^ 3 ELSE 2 ^ 4
          [] tmp = "FP_NAN"       -> IF Bit(opa, MAN - 1) = 1 THEN 2 ^ 9 ELSE 2 ^ 8
=============================================================================
