------------------------- MODULE BitmanipIntrinsics -------------------------
(***************************************************************************)
(* neorv32_b_extension_intrinsics.h: the instruction that each intrinsic   *)
(* of the bit manipulation extension puts in the program (its operands are *)
(* in a0 and a1, its result comes back in a0), and the function of C that  *)
(* emulates it.                                                            *)
(***************************************************************************)
EXTENDS BitWords, RiscvInstr

-----------------------------------------------------------------------------
(* The intrinsics of Zbb and Zba.                                          *)

riscv_intrinsic_clz    == CUSTOM_INSTR_R1_TYPE(\b0110000, \b00000, "a0", \b001, "a0", \b0010011)
riscv_intrinsic_ctz    == CUSTOM_INSTR_R1_TYPE(\b0110000, \b00001, "a0", \b001, "a0", \b0010011)
riscv_intrinsic_cpop   == CUSTOM_INSTR_R1_TYPE(\b0110000, \b00010, "a0", \b001, "a0", \b0010011)
riscv_intrinsic_sextb  == CUSTOM_INSTR_R1_TYPE(\b0110000, \b00100, "a0", \b001, "a0", \b0010011)
riscv_intrinsic_sexth  == CUSTOM_INSTR_R1_TYPE(\b0110000, \b00101, "a0", \b001, "a0", \b0010011)
riscv_intrinsic_zexth  == CUSTOM_INSTR_R1_TYPE(\b0000100, \b00000, "a0", \b100, "a0", \b0110011)
riscv_intrinsic_min    == CUSTOM_INSTR_R2_TYPE(\b0000101, "a1", "a0", \b100, "a0", \b0110011)
riscv_intrinsic_minu   == CUSTOM_INSTR_R2_TYPE(\b0000101, "a1", "a0", \b101, "a0", \b0110011)
riscv_intrinsic_max    == CUSTOM_INSTR_R2_TYPE(\b0000101, "a1", "a0", \b110, "a0", \b0110011)
riscv_intrinsic_maxu   == CUSTOM_INSTR_R2_TYPE(\b0000101, "a1", "a0", \b111, "a0", \b0110011)
riscv_intrinsic_andn   == CUSTOM_INSTR_R2_TYPE(\b0100000, "a1", "a0", \b111, "a0", \b0110011)
riscv_intrinsic_orn    == CUSTOM_INSTR_R2_TYPE(\b0100000, "a1", "a0", \b110, "a0", \b0110011)
riscv_intrinsic_xnor   == CUSTOM_INSTR_R2_TYPE(\b0100000, "a1", "a0", \b100, "a0", \b0110011)
riscv_intrinsic_rol    == CUSTOM_INSTR_R2_TYPE(\b0110000, "a1", "a0", \b001, "a0", \b0110011)
riscv_intrinsic_ror    == CUSTOM_INSTR_R2_TYPE(\b0110000, "a1", "a0", \b101, "a0", \b0110011)
riscv_intrinsic_rori20 == CUSTOM_INSTR_R1_TYPE(\b0110000, \b10100, "a0", \b101, "a0", \b0010011)
riscv_intrinsic_orcb   == CUSTOM_INSTR_R1_TYPE(\b0010100, \b00111, "a0", \b101, "a0", \b0010011)
riscv_intrinsic_rev8   == CUSTOM_INSTR_R1_TYPE(\b0110100, \b11000, "a0", \b101, "a0", \b0010011)
riscv_intrinsic_sh1add == CUSTOM_INSTR_R2_TYPE(\b0010000, "a1", "a0", \b010, "a0", \b0110011)
riscv_intrinsic_sh2add == CUSTOM_INSTR_R2_TYPE(\b0010000, "a1", "a0", \b100, "a0", \b0110011)
riscv_intrinsic_sh3add == CUSTOM_INSTR_R2_TYPE(\b0010000, "a1", "a0", \b110, "a0", \b0110011)

-----------------------------------------------------------------------------
(* The emulation functions.                                                *)

\* The number of shifts after which the loop sees a 1: rs1 # 0, as the loop
\* has no other end.
riscv_emulate_clz(rs1) ==
    Min({cnt \in Positions : Bit(ShiftLeft(rs1, cnt), XLEN - 1) = 1})

riscv_emulate_ctz(rs1) ==
    Min({cnt \in Positions : Bit(ShiftRight(rs1, cnt), 0) = 1})

riscv_emulate_cpop(rs1) == Cardinality({i \in Positions : Bit(ShiftRight(rs1, i), 0) = 1})

riscv_emulate_sextb(rs1) ==
    LET tmp == Low(rs1, BYTE)
    IN  IF Bit(tmp, BYTE - 1) = 1 THEN tmp + 2 ^ XLEN - 2 ^ BYTE ELSE tmp

riscv_emulate_sexth(rs1) ==
    LET tmp == Low(rs1, 2 * BYTE)
    IN  IF Bit(tmp, 2 * BYTE - 1) = 1 THEN tmp + 2 ^ XLEN - 2 ^ (2 * BYTE) ELSE tmp

riscv_emulate_zexth(rs1) == Low(rs1, 2 * BYTE)

riscv_emulate_min(rs1, rs2)  == IF Signed(rs1) < Signed(rs2) THEN rs1 ELSE rs2
riscv_emulate_minu(rs1, rs2) == IF rs1 < rs2 THEN rs1 ELSE rs2
riscv_emulate_max(rs1, rs2)  == IF Signed(rs1) < Signed(rs2) THEN rs2 ELSE rs1
riscv_emulate_maxu(rs1, rs2) == IF rs1 < rs2 THEN rs2 ELSE rs1

riscv_emulate_andn(rs1, rs2) == And(rs1, Not(rs2))
riscv_emulate_orn(rs1, rs2)  == Or(rs1, Not(rs2))
riscv_emulate_xnor(rs1, rs2) == Xor(rs1, Not(rs2))

\* With shamt = 0 the second shift is by the whole width, which C does not
\* define; whether it gives 0 or rs1 the OR of the two is rs1.
riscv_emulate_rol(rs1, rs2) ==
    LET shamt == rs2 % XLEN
    IN  Or(ShiftLeft(rs1, shamt), ShiftRight(rs1, XLEN - shamt))

riscv_emulate_ror(rs1, rs2) ==
    LET shamt == rs2 % XLEN
    IN  Or(ShiftRight(rs1, shamt), ShiftLeft(rs1, XLEN - shamt))

\* 0xff where byte k is.
ByteMask(k) == WordOf(k * BYTE .. (k + 1) * BYTE - 1)

riscv_emulate_rev8(rs1) ==
    LET tmp_a == ShiftLeft(And(rs1, ByteMask(0)), 3 * BYTE)
        tmp_b == ShiftLeft(And(rs1, ByteMask(1)), BYTE)
        tmp_c == ShiftRight(And(rs1, ByteMask(2)), BYTE)
        tmp_d == ShiftRight(And(rs1, ByteMask(3)), 3 * BYTE)
    IN  Or(Or(tmp_a, tmp_b), Or(tmp_c, tmp_d))

riscv_emulate_orcb(rs1) ==
    LET tmp(k) == IF And(rs1, ByteMask(k)) # 0 THEN ByteMask(k) ELSE 0
    IN  Or(Or(tmp(0), tmp(1)), Or(tmp(2), tmp(3)))

riscv_emulate_sh1add(rs1, rs2) == (rs2 + ShiftLeft(rs1, 1)) % 2 ^ XLEN
riscv_emulate_sh2add(rs1, rs2) == (rs2 + ShiftLeft(rs1, 2)) % 2 ^ XLEN
riscv_emulate_sh3add(rs1, rs2) == (rs2 + ShiftLeft(rs1, 3)) % 2 ^ XLEN
=============================================================================
