------------------------------ MODULE NanoBlaze ------------------------------
(***************************************************************************)
(* The NanoBlaze processor with its program ROM, clock edge by clock edge  *)
(* (entity nanoProcessor: program counter, branch stack, instruction       *)
(* decoder, controller, registers and ALU, scratchpad). The output of the  *)
(* ROM is registered: the instruction executed in a clock period is the    *)
(* one at the program counter of the period before. The input en is '1',   *)
(* as in every circuit and test bench of the repository. A step is one     *)
(* rising edge; the initial state is the one after a reset of a few        *)
(* periods, in which the clock runs and the ROM is read.                   *)
(***************************************************************************)
EXTENDS NanoInstructions

CONSTANTS addressBitNb,      \* the generic programCounterBitNb
          stackPointerBitNb, \* the generic stackPointerBitNb
          Programs,          \* the contents the ROM may have
          PowerUpScratchpads,\* what the scratchpad may hold before a reset,
          PowerUpStacks      \* and the branch stack: no reset clears them

AddressRange == 2 ^ addressBitNb
StackRange == 2 ^ stackPointerBitNb

Address == 0 .. AddressRange - 1
StackAddress == 0 .. StackRange - 1

ASSUME WidthAssumption ==
    /\ addressBitNb \in Nat /\ AddressRange \in Nat /\ AddressRange >= 2
    /\ stackPointerBitNb \in Nat /\ StackRange \in Nat /\ StackRange >= 1
ASSUME ProgramsAssumption ==
    \A program \in Programs : program \in [Address -> InstructionsOver(Address)]
ASSUME PowerUpAssumption ==
    /\ \A spad \in PowerUpScratchpads : spad \in [SpadAddress -> Word]
    /\ \A array \in PowerUpStacks : array \in [StackAddress -> Address]
ASSUME AluAssumption ==
    \A program \in Programs : \A address \in Address :
        \A cIn \in BOOLEAN : \A opA, opB \in Word :
            /\ AluResult(program[address], cIn, opA, opB) \in Word
            /\ AluCarry(program[address], cIn, opA, opB) \in BOOLEAN

VARIABLES rom,                   \* memoryArray of the program ROM
          pCounter,              \* the program counter
          fetched,               \* the address of the word at the ROM's output
          en1, discardOpCode,    \* of the controller
          carrySaved, zeroSaved, \* its flags
          registers,             \* registerArray of the register file
          scratchpad,            \* memoryArray of the scratchpad
          writePointer, progCounterArray, storedProgCounter, \* branch stack
          io                     \* the access to a port in the last period

vars == <<rom, pCounter, fetched, en1, discardOpCode, carrySaved, zeroSaved,
          registers, scratchpad, writePointer, progCounterArray,
          storedProgCounter, io>>

instruction == rom[fetched]

\* Mutant: the program counter is an integer that does not wrap.
NextAddressWithoutWrap(address) == address + 1

\* + 1 on the program counter and on the write pointer, and - 1: they wrap.
NextAddress(address) == IF address = AddressRange - 1 THEN 0 ELSE address + 1
Pushed(pointer) == IF pointer = StackRange - 1 THEN 0 ELSE pointer + 1
readPointer == IF writePointer = 0 THEN StackRange - 1 ELSE writePointer - 1

-----------------------------------------------------------------------------
(* The signals of the controller.                                          *)

\* Mutant: a discarded branch is taken.
branchEnableWhileDiscarded ==
    /\ IsBranch(instruction)
    /\ Holds(instruction.cond, carrySaved, zeroSaved)

branchEnable ==
    /\ ~discardOpCode
    /\ IsBranch(instruction)
    /\ Holds(instruction.cond, carrySaved, zeroSaved)

\* Mutant: the instruction behind a branch is executed like any other.
regWriteEnEverywhere == en1

\* enInt and not discardOpCode: the registers and the ports listen to it.
regWriteEn == en1 /\ ~discardOpCode

flagsEn == en1 /\ ~branchEnable

\* Mutant: a discarded RETURN moves the stack pointer.
prevPCWhileDiscarded == en1 /\ instruction.op = "Ret"

\* pcStackControlTable: the condition of the branch is not looked at.
storePC == ~discardOpCode /\ en1 /\ instruction.op = "Call"
prevPC  == ~discardOpCode /\ en1 /\ instruction.op = "Ret"

\* Mutant: a branch that is discarded holds the program counter.
incPCInstructionOnly ==
    IF IsBranch(instruction) THEN ~branchEnable /\ ~discardOpCode ELSE en1

\* progCounterControlTable: a branch is not gated by the enable signal.
incPC == IF IsBranch(instruction) THEN ~branchEnable ELSE en1

\* updateProgramCounter, with the loads enabled by enInt and branchEnable.
NextProgramCounter ==
    CASE incPC -> NextAddress(pCounter)
      [] ~incPC /\ en1 /\ instruction.op = "Ret" -> storedProgCounter
      [] ~incPC /\ en1 /\ instruction.op # "Ret" -> instruction.address
      [] ~incPC /\ ~en1 -> pCounter

-----------------------------------------------------------------------------
\* While the reset is '1' the clock writes nothing but the scratchpad, which
\* has no enable: a STORE at address 0 puts the cleared register there.
Init ==
    /\ rom \in Programs
    /\ pCounter = 0
    /\ fetched = 0
    /\ en1 = FALSE
    /\ discardOpCode = FALSE
    /\ carrySaved = FALSE /\ zeroSaved = FALSE
    /\ registers = [r \in Register |-> ZeroWord]
    /\ \E spad \in PowerUpScratchpads :
           scratchpad = ScratchpadAfter(instruction, registers, spad)
    /\ writePointer = 0
    /\ progCounterArray \in PowerUpStacks
    /\ storedProgCounter = progCounterArray[readPointer]
    /\ io = NoAccess

\* Mutant: the stack keeps the address of the CALL.
UpdateStackWithCall ==
    /\ writePointer' = CASE storePC            -> Pushed(writePointer)
                         [] ~storePC /\ prevPC -> readPointer
                         [] OTHER              -> writePointer
    /\ progCounterArray' =
         IF storePC THEN [progCounterArray EXCEPT ![writePointer] = fetched]
         ELSE progCounterArray
    /\ storedProgCounter' = progCounterArray[readPointer]

\* updateStackPointer and updateStack.
UpdateStack ==
    /\ writePointer' = CASE storePC            -> Pushed(writePointer)
                         [] ~storePC /\ prevPC -> readPointer
                         [] OTHER              -> writePointer
    /\ progCounterArray' =
         IF storePC THEN [progCounterArray EXCEPT ![writePointer] = pCounter]
         ELSE progCounterArray
    /\ storedProgCounter' = progCounterArray[readPointer]

\* saveCarries, with the table flagsEnableTable.
SaveFlags ==
    IF flagsEn
    THEN /\ carrySaved' = CarryAfter(instruction, registers, carrySaved)
         /\ zeroSaved' = ZeroAfter(instruction, registers, carrySaved, zeroSaved)
    ELSE UNCHANGED <<carrySaved, zeroSaved>>

\* The register file and the ports, with regWriteTable and the two strobes.
Access(portIn) ==
    IF regWriteEn
    THEN /\ registers' = RegistersAfter(instruction, registers, carrySaved,
                                        scratchpad, portIn)
         /\ io' = PortAccess(instruction, registers, portIn)
    ELSE io' = NoAccess /\ UNCHANGED registers

\* One rising edge with portIn on the data bus.
Cycle(portIn) ==
    /\ en1' = TRUE
    /\ discardOpCode' = branchEnable
    /\ pCounter' = NextProgramCounter
    /\ fetched' = pCounter
    /\ UpdateStack
    /\ SaveFlags
    /\ Access(portIn)
    /\ scratchpad' = ScratchpadAfter(instruction, registers, scratchpad)
    /\ UNCHANGED rom

Next == \E portIn \in Word : Cycle(portIn)

Spec == Init /\ [][Next]_vars
-----------------------------------------------------------------------------
(* The state of the sequential machine. In the period that discards the    *)
(* instruction behind a branch, that machine has already left the branch:  *)
(* it stands at the target, and what the discarded instruction still does  *)
(* to the flags and to the scratchpad is done.                             *)

Top == progCounterArray[readPointer]

IsaPc == IF discardOpCode THEN pCounter ELSE fetched

IsaRepeat == ~discardOpCode /\ pCounter = fetched /\ ~IsBranch(instruction)

IsaCarry ==
    IF discardOpCode THEN CarryAfter(instruction, registers, carrySaved)
    ELSE carrySaved

IsaZero ==
    IF discardOpCode THEN ZeroAfter(instruction, registers, carrySaved, zeroSaved)
    ELSE zeroSaved

IsaScratchpad ==
    IF discardOpCode THEN ScratchpadAfter(instruction, registers, scratchpad)
    ELSE scratchpad

IsaReturnAddress == IF discardOpCode THEN Top ELSE storedProgCounter

Machine == INSTANCE NanoIsa
    WITH pc <- IsaPc, repeat <- IsaRepeat, carry <- IsaCarry, zero <- IsaZero,
         scratchpad <- IsaScratchpad, stack <- progCounterArray,
         sp <- writePointer, returnAddress <- IsaReturnAddress
-----------------------------------------------------------------------------
TypeOK ==
    /\ rom \in Programs
    /\ pCounter \in Address /\ fetched \in Address
    /\ en1 \in BOOLEAN /\ discardOpCode \in BOOLEAN
    /\ carrySaved \in BOOLEAN /\ zeroSaved \in BOOLEAN
    /\ registers \in [Register -> Word]
    /\ scratchpad \in [SpadAddress -> Word]
    /\ writePointer \in StackAddress
    /\ progCounterArray \in [StackAddress -> Address]
    /\ storedProgCounter \in Address

\* The word at the ROM's output is always one behind the program counter, but in
\* the period that is discarded and before the first branch decision after the
\* reset; in the period in which nothing is enabled yet, nothing has been stored
\* that the first instruction would not store again (controller lines 50 to 59
\* and 186 to 214). It is the invariant under which ImplementsIsa holds.
Pipeline ==
    /\ en1 /\ ~discardOpCode =>
         \/ pCounter = NextAddress(fetched)
         \/ pCounter = fetched /\ ~IsBranch(instruction)
    /\ discardOpCode => io = NoAccess
    /\ ~en1 =>
         /\ pCounter = 0 /\ fetched = 0 /\ ~discardOpCode /\ io = NoAccess
         /\ storedProgCounter = Top
         /\ scratchpad = ScratchpadAfter(instruction, registers, scratchpad)

\* The processor executes its program one instruction after the other: for
\* every program, the pipeline of program counter, ROM register, flags and
\* branch stack shows the steps of the sequential machine, and each executed
\* instruction reads what the one before wrote (controller lines 91 to 229).
ImplementsIsa == Machine!Spec

\* A branch never jumps into a branch that is still discarded: the period after
\* a taken branch always fetches from its target, and no two periods in a row
\* are lost, even when the instruction behind a branch is another branch
\* (lines 172 to 214).
OneSlotPerBranch ==
    [][discardOpCode => ~discardOpCode' /\ fetched' = pCounter
                        /\ pCounter' = NextAddress(fetched')]_vars

\* "If a branch condition is met, the next operation has to be discarded"
\* (comment, line 202): the discarded instruction changes nothing.
DiscardedHasNoEffect ==
    [][discardOpCode =>
         UNCHANGED <<registers, carrySaved, zeroSaved, scratchpad,
                     writePointer, progCounterArray>>]_vars

\* "don't enable very first instruction twice" (comment, line 59): an enabled
\* instruction that does not branch gives way to the next one.
EachInstructionOnce ==
    [][regWriteEn /\ ~IsBranch(instruction) => fetched' # fetched]_vars
=============================================================================
