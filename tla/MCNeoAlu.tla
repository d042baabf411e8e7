------------------------------ MODULE MCNeoAlu ------------------------------
(***************************************************************************)
(* The ALU of NEORV32 with words of 16 bits, bytes of 4, and floats of 6   *)
(* bits of exponent and 9 of mantissa: every intrinsic alone with operands *)
(* at the limits, and short programs with instructions that are trapped.   *)
(***************************************************************************)
EXTENDS NeoAluIntrinsics

Entry(i, a, b) == [instr |-> i, rs1 |-> a, rs2 |-> b]
Program(fast, mie, code) == [fast |-> fast, mie |-> mie, code |-> code]

MCInteger == {0, 1, 128, 255, 1408, 32767, 32768, 43690, 65535}

MCBitmanip ==
    {riscv_intrinsic_clz, riscv_intrinsic_ctz, riscv_intrinsic_cpop, riscv_intrinsic_sextb,
     riscv_intrinsic_sexth, riscv_intrinsic_zexth, riscv_intrinsic_min, riscv_intrinsic_minu,
     riscv_intrinsic_max, riscv_intrinsic_maxu, riscv_intrinsic_andn, riscv_intrinsic_orn,
     riscv_intrinsic_xnor, riscv_intrinsic_rol, riscv_intrinsic_ror, riscv_intrinsic_rori20,
     riscv_intrinsic_orcb, riscv_intrinsic_rev8, riscv_intrinsic_sh1add, riscv_intrinsic_sh2add,
     riscv_intrinsic_sh3add}

Base(funct7, funct3) == CUSTOM_INSTR_R2_TYPE(funct7, "a1", "a0", funct3, "a0", opcode_alu_c)
BaseImm(imm, funct3) == CUSTOM_INSTR_I_TYPE(imm, "a0", funct3, "a0", opcode_alui_c)

MCBase ==
    {Base(0, funct3) : funct3 \in 0 .. 7} \union {Base(32, 0), Base(32, 5)}
    \union {BaseImm(2047, 0), BaseImm(4095, 2), BaseImm(4095, 3), BaseImm(2730, 4),
            BaseImm(7, 1), BaseImm(5, 5), BaseImm(1029, 5), BaseImm(0, 5)}

F(exponent, mantissa) == FloatWord(0, exponent, mantissa)
MCPositive ==
    {0, 3, F(1, 0), F(1, 511), F(22, 1), F(30, 511), F(31, 0), F(31, 1), F(31, 257), F(32, 511),
     F(40, 85), F(45, 511), F(62, 511), Infinity, F(63, 1), QuietNaN}
MCFloat == UNION {{x, Negated(x)} : x \in MCPositive}
MCCompared == UNION {{x, Negated(x)} : x \in {0, 3, F(1, 0), F(31, 1), F(31, 257), Infinity, F(63, 1), QuietNaN}}

MCSums == {riscv_intrinsic_fadds, riscv_intrinsic_fsubs, riscv_intrinsic_fmuls}
MCComparisons ==
    {riscv_intrinsic_fmins, riscv_intrinsic_fmaxs, riscv_intrinsic_feqs, riscv_intrinsic_flts,
     riscv_intrinsic_fles, riscv_intrinsic_fsgnjs, riscv_intrinsic_fsgnjns,
     riscv_intrinsic_fsgnjxs, riscv_intrinsic_fclasss}

MCToInteger == {riscv_intrinsic_fcvt_wus, riscv_intrinsic_fcvt_ws}
MCToFloat == {riscv_intrinsic_fcvt_swu, riscv_intrinsic_fcvt_sw}
MCRounded ==
    MCPositive \union {F(e, m) : e \in {29, 30, 31, 32, 33, 39, 44, 45, 46, 47}, m \in {0, 1, 255, 256, 257, 384, 511}}

MCAlone ==
    {Program(fast, FALSE, <<Entry(i, a, b)>>) :
        fast \in BOOLEAN, i \in MCBitmanip \union MCBase, a \in MCInteger, b \in {0, 7, 32769, 65535}}
    \union {Program(TRUE, FALSE, <<Entry(i, a, b)>>) : i \in MCSums, a \in MCFloat, b \in MCFloat}
    \union {Program(TRUE, FALSE, <<Entry(i, a, b)>>) : i \in MCComparisons, a \in MCCompared, b \in MCCompared}
    \union {Program(TRUE, FALSE, <<Entry(i, a, 0)>>) :
               i \in MCToInteger, a \in UNION {{x, Negated(x)} : x \in MCRounded}}
    \union {Program(TRUE, FALSE, <<Entry(i, a, 0)>>) :
               i \in MCToFloat, a \in MCInteger \union {2047, 2049, 2051, 65504, 65519, 32799}}

\* An operation that no unit carries out, one of another precision, shifts and
\* a sum with a wrong funct7, and a fused operation.
DoubleSum == CUSTOM_INSTR_R2_TYPE(1, "a1", "a0", 0, "a0", opcode_fop_c)
MCTrapped ==
    {riscv_intrinsic_fdivs, riscv_intrinsic_fmadds, DoubleSum, Base(1, 0), Base(1, 5)}
MCUnsupported ==
    MCTrapped \union {riscv_intrinsic_fsqrts, riscv_intrinsic_fmsubs, riscv_intrinsic_fnmsubs, riscv_intrinsic_fnmadds}
MCFollowing ==
    {riscv_intrinsic_fadds, riscv_intrinsic_fmuls, riscv_intrinsic_fles, riscv_intrinsic_clz,
     riscv_intrinsic_andn, Base(0, 5), Base(0, 0)}

MCSequences ==
    {Program(fast, mie, <<Entry(i, F(33, 3), F(31, 5)), Entry(j, F(35, 7), 5), Entry(k, 9, F(30, 1))>>) :
        fast \in BOOLEAN, mie \in BOOLEAN, i \in MCTrapped \union MCFollowing,
        j \in MCFollowing, k \in {riscv_intrinsic_fadds, Base(0, 5)}}

MCPrograms == MCAlone \union MCSequences
MCInterrupted == {Program(TRUE, TRUE, <<Entry(i, F(33, 3), 5), Entry(Base(0, 0), 1, 1)>>) : i \in MCUnsupported}
=============================================================================
