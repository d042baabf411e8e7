----------------------------- MODULE MCNanoBlaze -----------------------------
(***************************************************************************)
(* NanoBlaze with one register and one scratchpad word of one bit, four    *)
(* instruction addresses, a stack of two return addresses, and every       *)
(* program of four instructions out of a list.                             *)
(***************************************************************************)
EXTENDS NanoBlazeCalls

Alu == INSTANCE NanoAlu WITH w <- 1

MCWord == {0, 1}
MCRegister == {0}
MCSpadAddress == {0}
MCSpad(word) == 0

MCAluResult(i, cIn, a, b) == Alu!aluOut(i, cIn, a, b)
MCAluCarry(i, cIn, a, b) == Alu!cOut(i, cIn, a, b)

Instr(op, two, k, cond, address) ==
    [op |-> op, two |-> two, a |-> 0, b |-> 0, k |-> k,
     shift |-> [right |-> FALSE, bit |-> "cIn"], cond |-> cond, address |-> address]

Operation(op, k) == Instr(op, FALSE, k, "Aw", 0)
Branch(op, cond, address) == Instr(op, FALSE, 0, cond, address)

MCInstructions ==
    {Operation("Load", 1), Operation("Input", 0), Operation("Output", 0),
     Operation("Add", 1), Operation("Comp", 1), Operation("Store", 0),
     Operation("Fetch", 0),
     Branch("Jump", "Aw", 0), Branch("Jump", "NC", 2),
     Branch("Call", "Aw", 2), Branch("Call", "Z", 3),
     Branch("Ret", "Aw", 0), Branch("Ret", "C", 0)}

MCPrograms == [0 .. 3 -> MCInstructions]
MCPowerUpScratchpads == [{0} -> {0}]
MCPowerUpStacks == [0 .. 1 -> {0}]
=============================================================================
