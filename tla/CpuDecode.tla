------------------------------ MODULE CpuDecode ------------------------------
(***************************************************************************)
(* How the control unit of NEORV32 decodes the instructions of its ALU: to *)
(* which co-processor one goes, and whether it is legal. The two decisions *)
(* are taken apart from each other. Of the generics of the processor the   *)
(* extensions B and Zfinx are set, M and E are not.                        *)
(***************************************************************************)
EXTENDS RiscvInstr

opcode_alu_c  == \b0110011
opcode_alui_c == \b0010011
opcode_fop_c  == \b1010011

CoProcessors == {"shifter", "muldiv", "bitmanip", "fpu"}

\* Bits high downto low of a field.
Bits(field, high, low) == (field \div 2 ^ low) % 2 ^ (high - low + 1)

is_bitmanip_imm(i) ==
    \/ i.funct7 = \b0110000 /\ i.funct3 = \b001
       /\ i.rs2 \in {\b00000, \b00001, \b00010, \b00100, \b00101}
    \/ i.funct7 = \b0110000 /\ i.funct3 = \b101
    \/ i.funct7 = \b0010100 /\ i.funct3 = \b101 /\ i.rs2 = \b00111
    \/ i.funct7 = \b0110100 /\ i.funct3 = \b101 /\ i.rs2 = \b11000

is_bitmanip_reg(i) ==
    \/ i.funct7 = \b0110000 /\ Bits(i.funct3, 1, 0) = \b01
    \/ i.funct7 = \b0000101 /\ Bits(i.funct3, 2, 2) = 1
    \/ i.funct7 = \b0000100 /\ i.funct3 = \b100
    \/ i.funct7 = \b0100000 /\ i.funct3 \in {\b111, \b110, \b100}
    \/ i.funct7 = \b0010000 /\ i.funct3 \in {\b010, \b100, \b110}

is_float_op(i) ==
    \/ Bits(i.funct7, 6, 3) = \b0000
    \/ Bits(i.funct7, 6, 2) = \b00010
    \/ Bits(i.funct7, 6, 2) = \b11100 /\ i.funct3 = \b001
    \/ Bits(i.funct7, 6, 2) = \b00100 /\ Bits(i.funct3, 2, 2) = 0
    \/ Bits(i.funct7, 6, 2) = \b00101 /\ Bits(i.funct3, 2, 1) = 0
    \/ Bits(i.funct7, 6, 2) = \b10100 /\ Bits(i.funct3, 2, 2) = 0
    \/ Bits(i.funct7, 6, 2) = \b11010 /\ Bits(i.rs2, 4, 1) = 0
    \/ Bits(i.funct7, 6, 2) = \b11000 /\ Bits(i.rs2, 4, 1) = 0

IsAluOperation(i) == i.opcode \in {opcode_alu_c, opcode_alui_c}

IsBitmanip(i) == \/ i.opcode = opcode_alu_c  /\ is_bitmanip_reg(i)
                 \/ i.opcode = opcode_alui_c /\ is_bitmanip_imm(i)

IsShiftFunct3(i) == i.funct3 \in {\b001, \b101}

\* Where EXECUTE sends an instruction: everything that shifts goes to the
\* shifter and every floating point opcode to the FPU, legal or not.
CoProcessorOf(i) ==
    CASE IsAluOperation(i) /\ IsBitmanip(i) -> "bitmanip"
      [] IsAluOperation(i) /\ ~IsBitmanip(i) /\ IsShiftFunct3(i) -> "shifter"
      [] i.opcode = opcode_fop_c -> "fpu"
      [] OTHER -> "none"

\* The bits of funct7 that a shift to the right, an addition and a subtraction
\* leave 0.
IsBaseFunct7(i) == i.funct7 \in {0, \b0100000}

IsLegal(i) ==
    \/ /\ i.opcode = opcode_alu_c
       /\ \/ i.funct3 \in {\b000, \b101} /\ IsBaseFunct7(i)
          \/ i.funct3 \notin {\b000, \b101} /\ i.funct7 = 0
          \/ is_bitmanip_reg(i)
    \/ /\ i.opcode = opcode_alui_c
       /\ \/ ~IsShiftFunct3(i)
          \/ i.funct3 = \b001 /\ i.funct7 = 0
          \/ i.funct3 = \b101 /\ IsBaseFunct7(i)
          \/ is_bitmanip_imm(i)
    \/ /\ i.opcode = opcode_fop_c
       /\ Bits(i.funct7, 1, 0) = 0
       /\ is_float_op(i)
=============================================================================
