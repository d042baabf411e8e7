------------------------------- MODULE NanoIsa -------------------------------
(***************************************************************************)
(* What a NanoBlaze program does, one instruction at a time: the machine   *)
(* the assembler programmer of this processor really has. It knows nothing *)
(* of the clock, of the registered output of the ROM or of the discarded   *)
(* instruction. Where the circuit differs from the usual picture of such a *)
(* processor the machine says so:                                          *)
(*  - the instruction that follows a taken branch still updates the flags  *)
(*    and the scratchpad (BranchSlot);                                     *)
(*  - a conditional CALL or RETURN that is not taken still moves the stack *)
(*    pointer, and the address a RETURN jumps to is the top of the stack   *)
(*    before the previous instruction, unless that one was a taken branch; *)
(*  - the first instruction is executed twice, if it is no branch.         *)
(***************************************************************************)
EXTENDS NanoInstructions

CONSTANTS addressBitNb,      \* bits of an instruction address
          stackPointerBitNb  \* bits of the stack pointer

VARIABLES rom,            \* the program
          pc,             \* the address of the instruction to execute
          repeat,         \* it is the first one, and will be executed again
          registers, carry, zero, scratchpad,
          stack, sp,      \* the return addresses and the number of the next one
          returnAddress,  \* where a RETURN would jump to
          io              \* the access to a port of the last instruction

vars == <<rom, pc, repeat, registers, carry, zero, scratchpad,
          stack, sp, returnAddress, io>>

AddressRange == 2 ^ addressBitNb
StackRange == 2 ^ stackPointerBitNb

Address == 0 .. AddressRange - 1
StackAddress == 0 .. StackRange - 1

NextAddress(address) == IF address = AddressRange - 1 THEN 0 ELSE address + 1
Pushed(pointer) == IF pointer = StackRange - 1 THEN 0 ELSE pointer + 1
Popped(pointer) == IF pointer = 0 THEN StackRange - 1 ELSE pointer - 1

Top(array, pointer) == array[Popped(pointer)]

Init ==
    /\ rom \in [Address -> InstructionsOver(Address)]
    /\ pc = 0
    /\ repeat = ~IsBranch(rom[0])
    /\ registers = [r \in Register |-> ZeroWord]
    /\ carry = FALSE /\ zero = FALSE
    /\ scratchpad \in [SpadAddress -> Word]
    /\ stack \in [StackAddress -> Address]
    /\ sp = 0
    /\ returnAddress = Top(stack, sp)
    /\ io = NoAccess

\* What CALL and RETURN do to the stack, taken or not.
StackStep(i) ==
    CASE i.op = "Call" -> /\ stack' = [stack EXCEPT ![sp] = NextAddress(pc)]
                          /\ sp' = Pushed(sp)
      [] i.op = "Ret"  -> sp' = Popped(sp) /\ UNCHANGED stack
      [] OTHER         -> UNCHANGED <<stack, sp>>

\* An instruction that does not branch.
Execute(portIn) ==
    LET i == rom[pc]
    IN  /\ ~(IsBranch(i) /\ Holds(i.cond, carry, zero))
        /\ registers' = RegistersAfter(i, registers, carry, scratchpad, portIn)
        /\ carry' = CarryAfter(i, registers, carry)
        /\ zero' = ZeroAfter(i, registers, carry, zero)
        /\ scratchpad' = ScratchpadAfter(i, registers, scratchpad)
        /\ StackStep(i)
        /\ returnAddress' = Top(stack, sp)
        /\ pc' = IF repeat THEN pc ELSE NextAddress(pc)
        /\ io' = PortAccess(i, registers, portIn)

\* A branch that is taken, with what the instruction behind it leaves in the
\* flags and in the scratchpad.
BranchSlot ==
    LET i == rom[pc]
        slot == rom[NextAddress(pc)]
    IN  /\ IsBranch(i) /\ Holds(i.cond, carry, zero)
        /\ pc' = IF i.op = "Ret" THEN returnAddress ELSE i.address
        /\ StackStep(i)
        /\ returnAddress' = Top(stack', sp')
        /\ carry' = CarryAfter(slot, registers, carry)
        /\ zero' = ZeroAfter(slot, registers, carry, zero)
        /\ scratchpad' = ScratchpadAfter(slot, registers, scratchpad)
        /\ io' = NoAccess
        /\ UNCHANGED registers

Next ==
    /\ UNCHANGED rom
    /\ repeat' = FALSE
    /\ (\E portIn \in Word : Execute(portIn)) \/ BranchSlot

Spec == Init /\ [][Next]_vars
=============================================================================
