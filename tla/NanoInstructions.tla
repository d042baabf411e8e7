-------------------------- MODULE NanoInstructions --------------------------
(***************************************************************************)
(* The instructions of the NanoBlaze processor and what each one computes, *)
(* without any timing: the decoded fields (instructionDecoder), the        *)
(* selection of the second operand (aluBOpSelector, aluAndRegs) and the    *)
(* tables of the controller that say which operations write a register,    *)
(* the flags, the scratchpad or a port. The ALU is a parameter: how the    *)
(* processor sequences its instructions does not depend on what it adds.   *)
(***************************************************************************)
EXTENDS Naturals

CONSTANTS Register,            \* the register addresses
          Word,                \* the contents of a register
          ZeroWord,            \* the word with all bits at '0'
          SpadAddress,         \* the addresses of the scratchpad
          SpadDirect(_),       \* the scratchpad address an immediate word names
          SpadIndexed(_),      \* the scratchpad address a register value names
          AluResult(_, _, _, _), \* aluOut of an instruction, cIn, opA and opB
          AluCarry(_, _, _, _)   \* its cOut

ASSUME WordAssumption == ZeroWord \in Word
ASSUME SpadAssumption ==
    \A w \in Word : SpadDirect(w) \in SpadAddress /\ SpadIndexed(w) \in SpadAddress

AluOps == {"And", "Or", "Xor", "Add", "AddCy", "Sub", "SubCy", "ShRot"}

\* regWriteTable, flagsEnableTable and the operations with a branch condition.
RegWriteOps == AluOps \union {"Load", "Input", "Fetch"}

FlagOps == AluOps \union {"Test", "Comp"}
BranchOps == {"Ret", "Call", "Jump"}
Ops == RegWriteOps \union FlagOps \union BranchOps \union {"Output", "Store"}

\* The test of a branch; the last four look at one flag.
Conditions == {"Aw", "Z", "NZ", "C", "NC"}

\* The direction of a shift and the bit it shifts in.
Shifts == [right : BOOLEAN, bit : {"cIn", "high", "low", "0", "1"}]

\* two is twoRegInstr: the second operand, or the address of a port or of the
\* scratchpad, is register b and not the immediate word k.
InstructionsOver(Address) ==
    [op : Ops, two : BOOLEAN, a : Register, b : Register, k : Word,
     shift : Shifts, cond : Conditions, address : Address]

IsBranch(i) == i.op \in BranchOps

\* checkBranchCondition.
Holds(cond, carry, zero) ==
    CASE cond = "Aw" -> TRUE
      [] cond = "Z"  -> zero
      [] cond = "NZ" -> ~zero
      [] cond = "C"  -> carry
      [] cond = "NC" -> ~carry

\* The address on the scratchpad and the one on the ports. They come from the
\* high bits of the instruction's word or from the low bits of register b.
SpadAddressOf(i, regs) ==
    IF i.two THEN SpadIndexed(regs[i.b]) ELSE SpadDirect(i.k)

PortAddressOf(i, regs) == IF i.two THEN regs[i.b] ELSE i.k

\* The second operand of the operations that take neither the scratchpad nor a
\* port: every operation that changes the flags is one of them.
RegisterOrImmediate(i, regs) == IF i.two THEN regs[i.b] ELSE i.k

\* selectDataSource, with the selection signals of the controller.
OpB(i, regs, spad, portIn) ==
    CASE i.op = "Fetch" -> spad[SpadAddressOf(i, regs)]
      [] i.op = "Input" -> portIn
      [] OTHER          -> RegisterOrImmediate(i, regs)

-----------------------------------------------------------------------------
(* What an instruction leaves in the registers, the flags and the          *)
(* scratchpad when it is executed.                                         *)

RegistersAfter(i, regs, carry, spad, portIn) ==
    IF i.op \in RegWriteOps
    THEN [regs EXCEPT ![i.a] =
            AluResult(i, carry, regs[i.a], OpB(i, regs, spad, portIn))]
    ELSE regs

CarryAfter(i, regs, carry) ==
    IF i.op \in FlagOps
    THEN AluCarry(i, carry, regs[i.a], RegisterOrImmediate(i, regs)) ELSE carry

ZeroAfter(i, regs, carry, zero) ==
    IF i.op \in FlagOps
    THEN AluResult(i, carry, regs[i.a], RegisterOrImmediate(i, regs)) = ZeroWord ELSE zero

ScratchpadAfter(i, regs, spad) ==
    IF i.op = "Store" THEN [spad EXCEPT ![SpadAddressOf(i, regs)] = regs[i.a]]
    ELSE spad

\* The access to a port: the strobe that is '1', the address and the word.
NoAccess == [strobe |-> "none"]

PortAccess(i, regs, portIn) ==
    CASE i.op = "Input"  ->
           [strobe |-> "readStrobe", address |-> PortAddressOf(i, regs), word |-> portIn]
      [] i.op = "Output" ->
           [strobe |-> "writeStrobe", address |-> PortAddressOf(i, regs), word |-> regs[i.a]]
      [] OTHER -> NoAccess
=============================================================================
