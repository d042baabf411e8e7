----------------------------- MODULE RiscvInstr -----------------------------
(***************************************************************************)
(* The macros of neorv32_intrinsics.h that build an instruction word from  *)
(* its fields. An instruction is the record of its fields: where a field   *)
(* is in the word is not modelled.                                         *)
(***************************************************************************)
EXTENDS Naturals

XNames == <<"x0", "x1", "x2", "x3", "x4", "x5", "x6", "x7", "x8", "x9", "x10",
            "x11", "x12", "x13", "x14", "x15", "x16", "x17", "x18", "x19", "x20",
            "x21", "x22", "x23", "x24", "x25", "x26", "x27", "x28", "x29", "x30", "x31">>

CallingNames == <<"zero", "ra", "sp", "gp", "tp", "t0", "t1", "t2", "s0", "s1",
                  "a0", "a1", "a2", "a3", "a4", "a5", "a6", "a7", "s2", "s3", "s4", "s5",
                  "s6", "s7", "s8", "s9", "s10", "s11", "t3", "t4", "t5", "t6">>

\* The number of a register, by either of its names.
REG_ADDR(x) == CHOOSE n \in 0 .. 31 : x \in {XNames[n + 1], CallingNames[n + 1]}

\* The fields of an instruction word.
Instructions ==
    [funct7 : 0 .. 2 ^ 7 - 1, rs2 : 0 .. 2 ^ 5 - 1, rs1 : 0 .. 2 ^ 5 - 1, funct3 : 0 .. 2 ^ 3 - 1,
     rd : 0 .. 2 ^ 5 - 1, opcode : 0 .. 2 ^ 7 - 1]

\* The macro masks funct3 with five bits; every caller gives it three.
CMD_WORD_R2_TYPE(funct7, rs2, rs1, funct3, rd, opcode) ==
    [funct7 |-> funct7 % 2 ^ 7, rs2 |-> rs2 % 2 ^ 5, rs1 |-> rs1 % 2 ^ 5,
     funct3 |-> funct3, rd |-> rd % 2 ^ 5, opcode |-> opcode % 2 ^ 7]

\* rs3 stands in the high five bits of funct7, the low two are 0.
CMD_WORD_R3_TYPE(rs3, rs2, rs1, funct3, rd, opcode) ==
    CMD_WORD_R2_TYPE(4 * (rs3 % 2 ^ 5), rs2, rs1, funct3, rd, opcode)

\* imm12 stands where funct7 and rs2 are.
CMD_WORD_I_TYPE(imm12, rs1_f5, funct3, rd, opcode) ==
    CMD_WORD_R2_TYPE(imm12 \div 2 ^ 5, imm12, rs1_f5, funct3, rd, opcode)

CUSTOM_INSTR_R3_TYPE(rs3, rs2, rs1, funct3, rd, opcode) ==
    CMD_WORD_R3_TYPE(REG_ADDR(rs3), REG_ADDR(rs2), REG_ADDR(rs1), funct3,
                     REG_ADDR(rd), opcode)

CUSTOM_INSTR_R2_TYPE(funct7, rs2, rs1, funct3, rd, opcode) ==
    CMD_WORD_R2_TYPE(funct7, REG_ADDR(rs2), REG_ADDR(rs1), funct3, REG_ADDR(rd), opcode)

CUSTOM_INSTR_R1_TYPE(funct7, funct5, rs1, funct3, rd, opcode) ==
    CMD_WORD_R2_TYPE(funct7, funct5, REG_ADDR(rs1), funct3, REG_ADDR(rd), opcode)

CUSTOM_INSTR_I_TYPE(imm12, rs1, funct3, rd, opcode) ==
    CMD_WORD_I_TYPE(imm12, REG_ADDR(rs1), funct3, REG_ADDR(rd), opcode)
=============================================================================
