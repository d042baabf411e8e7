-------------------------- MODULE NanoBlaze_proofs --------------------------
(***************************************************************************)
(* Proofs about NanoBlaze, for every width of the addresses and of the     *)
(* stack pointer, every set of registers and words, every ALU and every    *)
(* program. TypeOK and Pipeline are inductive together; under them every   *)
(* clock edge is a step of the sequential machine NanoIsa or leaves that   *)
(* machine where it is. The last part is about the subroutines of          *)
(* NanoBlazeCalls.                                                         *)
(***************************************************************************)
EXTENDS NanoBlazeCalls, TLAPS

-----------------------------------------------------------------------------
(* Types.                                                                  *)

LEMMA Counters ==
    /\ \A address \in Address : NextAddress(address) \in Address
    /\ \A address \in Address : NextAddress(address) # address
    /\ \A pointer \in StackAddress : Pushed(pointer) \in StackAddress
    /\ 0 \in Address /\ 0 \in StackAddress
    /\ writePointer \in StackAddress => readPointer \in StackAddress
BY WidthAssumption DEF Address, StackAddress, NextAddress, Pushed, readPointer

LEMMA InstructionType ==
    ASSUME TypeOK
    PROVE  /\ instruction \in InstructionsOver(Address)
           /\ instruction.op \in Ops /\ instruction.two \in BOOLEAN
           /\ instruction.a \in Register /\ instruction.b \in Register
           /\ instruction.k \in Word /\ instruction.address \in Address
<1>1. instruction \in InstructionsOver(Address)
  BY ProgramsAssumption DEF TypeOK, instruction
<1> QED BY <1>1 DEF InstructionsOver

LEMMA AluType ==
    ASSUME TypeOK, NEW opA \in Word, NEW opB \in Word
    PROVE  /\ AluResult(instruction, carrySaved, opA, opB) \in Word
           /\ AluCarry(instruction, carrySaved, opA, opB) \in BOOLEAN
BY AluAssumption DEF TypeOK, instruction

\* What the instruction at the ROM's output leaves behind has the right type.
LEMMA EffectTypes ==
    ASSUME TypeOK, NEW portIn \in Word
    PROVE  /\ RegistersAfter(instruction, registers, carrySaved, scratchpad, portIn)
                \in [Register -> Word]
           /\ CarryAfter(instruction, registers, carrySaved) \in BOOLEAN
           /\ ZeroAfter(instruction, registers, carrySaved, zeroSaved) \in BOOLEAN
           /\ ScratchpadAfter(instruction, registers, scratchpad) \in [SpadAddress -> Word]
<1>1. /\ registers[instruction.a] \in Word
      /\ registers[instruction.b] \in Word
  BY InstructionType DEF TypeOK
<1>2. RegisterOrImmediate(instruction, registers) \in Word
  BY <1>1, InstructionType DEF RegisterOrImmediate
<1>3. SpadAddressOf(instruction, registers) \in SpadAddress
  BY <1>1, InstructionType, SpadAssumption DEF SpadAddressOf
<1>4. OpB(instruction, registers, scratchpad, portIn) \in Word
  BY <1>2, <1>3 DEF OpB, TypeOK
<1>5. RegistersAfter(instruction, registers, carrySaved, scratchpad, portIn)
        \in [Register -> Word]
  BY <1>1, <1>4, AluType DEF RegistersAfter, TypeOK
<1>6. CarryAfter(instruction, registers, carrySaved) \in BOOLEAN
  BY <1>1, <1>2, AluType DEF CarryAfter, TypeOK
<1>7. ZeroAfter(instruction, registers, carrySaved, zeroSaved) \in BOOLEAN
  BY DEF ZeroAfter, TypeOK
<1>8. ScratchpadAfter(instruction, registers, scratchpad) \in [SpadAddress -> Word]
  BY <1>1, <1>3 DEF ScratchpadAfter, TypeOK
<1> QED BY <1>5, <1>6, <1>7, <1>8

LEMMA TypeInit == Init => TypeOK
<1> SUFFICES ASSUME Init PROVE TypeOK
  OBVIOUS
<1>1. rom \in Programs /\ rom \in [Address -> InstructionsOver(Address)]
  BY ProgramsAssumption DEF Init
<1>2. /\ pCounter \in Address /\ fetched \in Address
      /\ writePointer \in StackAddress /\ readPointer \in StackAddress
  BY Counters DEF Init
<1>3. registers \in [Register -> Word]
  BY WordAssumption DEF Init
<1>4. instruction \in InstructionsOver(Address)
  BY <1>1, <1>2 DEF instruction
<1>5. scratchpad \in [SpadAddress -> Word]
  <2>1. PICK spad \in PowerUpScratchpads :
             scratchpad = ScratchpadAfter(instruction, registers, spad)
    BY DEF Init
  <2>2. spad \in [SpadAddress -> Word]
    BY <2>1, PowerUpAssumption
  <2>3. registers[instruction.a] \in Word
    BY <1>3, <1>4 DEF InstructionsOver
  <2> QED BY <2>1, <2>2, <2>3 DEF ScratchpadAfter
<1>6. progCounterArray \in [StackAddress -> Address] /\ storedProgCounter \in Address
  BY <1>2, PowerUpAssumption DEF Init
<1> QED BY <1>1, <1>2, <1>3, <1>5, <1>6 DEF TypeOK, Init

LEMMA TypeCycle ==
    ASSUME TypeOK, NEW portIn \in Word, Cycle(portIn)
    PROVE  TypeOK'
<1>1. readPointer \in StackAddress
  BY Counters DEF TypeOK
<1>2. pCounter' \in Address
  BY Counters, InstructionType DEF TypeOK, Cycle, NextProgramCounter
<1>3. /\ writePointer' \in StackAddress
      /\ progCounterArray' \in [StackAddress -> Address]
      /\ storedProgCounter' \in Address
  BY <1>1, Counters DEF TypeOK, Cycle, UpdateStack
<1>4. carrySaved' \in BOOLEAN /\ zeroSaved' \in BOOLEAN
  BY EffectTypes DEF TypeOK, Cycle, SaveFlags
<1>5. registers' \in [Register -> Word] /\ scratchpad' \in [SpadAddress -> Word]
  BY EffectTypes DEF TypeOK, Cycle, Access
<1>6. branchEnable \in BOOLEAN
  BY DEF branchEnable
<1> QED BY <1>2, <1>3, <1>4, <1>5, <1>6 DEF TypeOK, Cycle

LEMMA TypeNext == TypeOK /\ [Next]_vars => TypeOK'
<1>1. TypeOK /\ Next => TypeOK'
  BY TypeCycle DEF Next
<1>2. TypeOK /\ UNCHANGED vars => TypeOK'
  BY DEF TypeOK, vars
<1> QED BY <1>1, <1>2

\* Every register, flag, pointer and memory word keeps its range: no counter
\* leaves the ROM or the stack.
THEOREM NanoTypeCorrect == Spec => []TypeOK
BY TypeInit, TypeNext, PTL DEF Spec
-----------------------------------------------------------------------------
(* The pipeline.                                                           *)

\* Branches and stores touch nothing else, and a store done twice is a store.
LEMMA BranchEffects ==
    ASSUME IsBranch(instruction), NEW portIn
    PROVE  /\ RegistersAfter(instruction, registers, carrySaved, scratchpad, portIn)
                = registers
           /\ CarryAfter(instruction, registers, carrySaved) = carrySaved
           /\ ZeroAfter(instruction, registers, carrySaved, zeroSaved) = zeroSaved
           /\ ScratchpadAfter(instruction, registers, scratchpad) = scratchpad
           /\ PortAccess(instruction, registers, portIn) = NoAccess
BY DEF IsBranch, BranchOps, RegistersAfter, RegWriteOps, CarryAfter, ZeroAfter,
       FlagOps, AluOps, ScratchpadAfter, PortAccess

\* The fetch and the program counter of the next period.
LEMMA NextFetch ==
    ASSUME TypeOK, Pipeline, NEW portIn \in Word, Cycle(portIn)
    PROVE  /\ en1' /\ fetched' = pCounter /\ rom' = rom
           /\ discardOpCode' = branchEnable
           /\ en1 /\ ~branchEnable => pCounter' = NextAddress(pCounter)
           /\ ~en1 /\ ~IsBranch(instruction) => pCounter' = pCounter
           /\ ~en1 /\ IsBranch(instruction) /\ ~branchEnable
                => pCounter' = NextAddress(pCounter)
           /\ ~en1 /\ branchEnable => pCounter' = pCounter
           /\ en1 /\ branchEnable =>
                pCounter' = IF instruction.op = "Ret" THEN storedProgCounter
                            ELSE instruction.address
BY DEF Cycle, NextProgramCounter, incPC, branchEnable, TypeOK

LEMMA PipelineInit == Init => Pipeline
<1> SUFFICES ASSUME Init PROVE Pipeline
  OBVIOUS
<1>1. PICK spad \in PowerUpScratchpads :
           scratchpad = ScratchpadAfter(instruction, registers, spad)
  BY DEF Init
<1>2. spad \in [SpadAddress -> Word]
  BY <1>1, PowerUpAssumption
<1>3. scratchpad = ScratchpadAfter(instruction, registers, scratchpad)
  BY <1>1, <1>2 DEF ScratchpadAfter
<1> QED BY <1>3 DEF Pipeline, Init, Top

LEMMA PipelineCycle ==
    ASSUME TypeOK, Pipeline, NEW portIn \in Word, Cycle(portIn)
    PROVE  Pipeline'
<1>1. en1' = TRUE
  BY DEF Cycle
<1>2. ~discardOpCode' => \/ pCounter' = NextAddress(fetched')
                         \/ pCounter' = fetched' /\ ~IsBranch(instruction')
  <2> SUFFICES ASSUME ~branchEnable
               PROVE  \/ pCounter' = NextAddress(fetched')
                      \/ pCounter' = fetched' /\ ~IsBranch(instruction')
    BY NextFetch
  <2>1. CASE en1
    BY <2>1, NextFetch
  <2>2. CASE ~en1 /\ IsBranch(instruction)
    BY <2>2, NextFetch
  <2>3. CASE ~en1 /\ ~IsBranch(instruction)
    <3>1. instruction' = instruction
      BY <2>3, NextFetch DEF instruction, Pipeline
    <3> QED BY <2>3, <3>1, NextFetch
  <2> QED BY <2>1, <2>2, <2>3 DEF TypeOK
<1>3. discardOpCode' => io' = NoAccess
  <2> SUFFICES ASSUME branchEnable PROVE io' = NoAccess
    BY NextFetch
  <2>1. IsBranch(instruction)
    BY DEF branchEnable
  <2> QED BY <2>1, BranchEffects DEF Cycle, Access
<1> QED BY <1>1, <1>2, <1>3 DEF Pipeline

LEMMA PipelineNext == TypeOK /\ Pipeline /\ [Next]_vars => Pipeline'
<1>1. TypeOK /\ Pipeline /\ Next => Pipeline'
  BY PipelineCycle DEF Next
<1>2. Pipeline /\ UNCHANGED vars => Pipeline'
  BY DEF Pipeline, vars, instruction, Top, readPointer
<1> QED BY <1>1, <1>2

\* The ROM's word is one behind the program counter wherever an instruction is
\* executed.
THEOREM PipelineCorrect == Spec => []Pipeline
<1>1. Init => TypeOK /\ Pipeline
  BY TypeInit, PipelineInit
<1>2. TypeOK /\ Pipeline /\ [Next]_vars => (TypeOK /\ Pipeline)'
  BY TypeNext, PipelineNext
<1> QED BY <1>1, <1>2, PTL DEF Spec

\* A period that discards an instruction is followed by one that executes.
THEOREM OneSlot == Spec => OneSlotPerBranch
<1>1. Init => TypeOK /\ Pipeline
  BY TypeInit, PipelineInit
<1>2. TypeOK /\ Pipeline /\ [Next]_vars => (TypeOK /\ Pipeline)'
  BY TypeNext, PipelineNext
<1>3. ASSUME TypeOK, Pipeline, [Next]_vars
      PROVE  [discardOpCode => ~discardOpCode' /\ fetched' = pCounter
                               /\ pCounter' = NextAddress(fetched')]_vars
  <2> SUFFICES ASSUME Next, discardOpCode
               PROVE  ~discardOpCode' /\ fetched' = pCounter
                      /\ pCounter' = NextAddress(fetched')
    BY <1>3
  <2>1. PICK portIn \in Word : Cycle(portIn)
    BY DEF Next
  <2>2. en1 /\ ~branchEnable
    BY <1>3 DEF Pipeline, branchEnable, TypeOK
  <2> QED BY <1>3, <2>1, <2>2, NextFetch
<1> QED BY <1>1, <1>2, <1>3, PTL DEF Spec, OneSlotPerBranch
-----------------------------------------------------------------------------
(* Refinement of the sequential machine.                                   *)

\* NanoIsa has its own copies of the definitions the two machines share.
LEMMA SameCounters ==
    /\ Machine!Address = Address /\ Machine!StackAddress = StackAddress
    /\ \A address : Machine!NextAddress(address) = NextAddress(address)
    /\ \A pointer : Machine!Pushed(pointer) = Pushed(pointer)
    /\ Machine!Popped(writePointer) = readPointer
    /\ Machine!Top(progCounterArray, writePointer) = Top
BY DEF Machine!Address, Address, Machine!StackAddress, StackAddress, Machine!AddressRange,
       AddressRange, Machine!StackRange, StackRange, Machine!NextAddress, NextAddress,
       Machine!Pushed, Pushed, Machine!Popped, readPointer, Machine!Top, Top

LEMMA SameBranches ==
    /\ \A i : Machine!IsBranch(i) = IsBranch(i)
    /\ \A cond, carry, zero : Machine!Holds(cond, carry, zero) = Holds(cond, carry, zero)
    /\ Machine!NoAccess = NoAccess
    /\ Machine!InstructionsOver(Machine!Address) = InstructionsOver(Address)
BY DEF Machine!IsBranch, IsBranch, Machine!BranchOps, BranchOps, Machine!Holds, Holds,
       Machine!NoAccess, NoAccess, Machine!InstructionsOver, InstructionsOver,
       Machine!Address, Address, Machine!AddressRange, AddressRange, Machine!Ops, Ops,
       Machine!RegWriteOps, RegWriteOps, Machine!FlagOps, FlagOps, Machine!AluOps, AluOps,
       Machine!Shifts, Shifts, Machine!Conditions, Conditions

LEMMA SameEffects ==
    ASSUME NEW i, NEW regs, NEW c, NEW z, NEW spad, NEW portIn
    PROVE  /\ Machine!RegistersAfter(i, regs, c, spad, portIn)
                = RegistersAfter(i, regs, c, spad, portIn)
           /\ Machine!CarryAfter(i, regs, c) = CarryAfter(i, regs, c)
           /\ Machine!ZeroAfter(i, regs, c, z) = ZeroAfter(i, regs, c, z)
           /\ Machine!ScratchpadAfter(i, regs, spad) = ScratchpadAfter(i, regs, spad)
           /\ Machine!PortAccess(i, regs, portIn) = PortAccess(i, regs, portIn)
<1>1. Machine!OpB(i, regs, spad, portIn) = OpB(i, regs, spad, portIn)
  BY DEF Machine!OpB, OpB, Machine!SpadAddressOf, SpadAddressOf,
         Machine!RegisterOrImmediate, RegisterOrImmediate
<1>2. Machine!RegistersAfter(i, regs, c, spad, portIn)
        = RegistersAfter(i, regs, c, spad, portIn)
  BY <1>1 DEF Machine!RegistersAfter, RegistersAfter, Machine!RegWriteOps, RegWriteOps,
              Machine!AluOps, AluOps
<1>3. /\ Machine!CarryAfter(i, regs, c) = CarryAfter(i, regs, c)
      /\ Machine!ZeroAfter(i, regs, c, z) = ZeroAfter(i, regs, c, z)
  BY DEF Machine!CarryAfter, CarryAfter, Machine!ZeroAfter, ZeroAfter, Machine!FlagOps, FlagOps,
         Machine!AluOps, AluOps, Machine!RegisterOrImmediate, RegisterOrImmediate
<1>4. Machine!ScratchpadAfter(i, regs, spad) = ScratchpadAfter(i, regs, spad)
  BY DEF Machine!ScratchpadAfter, ScratchpadAfter, Machine!SpadAddressOf, SpadAddressOf
<1>5. Machine!PortAccess(i, regs, portIn) = PortAccess(i, regs, portIn)
  BY DEF Machine!PortAccess, PortAccess, Machine!PortAddressOf, PortAddressOf,
         Machine!NoAccess, NoAccess
<1> QED BY <1>2, <1>3, <1>4, <1>5

LEMMA IsaInit == Init => Machine!Init
<1> SUFFICES ASSUME Init PROVE Machine!Init
  OBVIOUS
<1>1. TypeOK
  BY TypeInit
<1>2. rom \in [Machine!Address -> Machine!InstructionsOver(Machine!Address)]
  BY <1>1, ProgramsAssumption, SameCounters, SameBranches DEF TypeOK
<1>3. /\ ~discardOpCode /\ IsaPc = 0 /\ IsaCarry = FALSE /\ IsaZero = FALSE
      /\ IsaScratchpad = scratchpad
      /\ IsaRepeat = ~Machine!IsBranch(rom[0])
      /\ IsaReturnAddress = Machine!Top(progCounterArray, writePointer)
  BY SameCounters, SameBranches
     DEF Init, IsaPc, IsaCarry, IsaZero, IsaScratchpad, IsaRepeat,
         IsaReturnAddress, instruction, Top
<1>4. progCounterArray \in [Machine!StackAddress -> Machine!Address]
  BY <1>1, SameCounters DEF TypeOK
<1> QED BY <1>1, <1>2, <1>3, <1>4, SameBranches DEF Machine!Init, Init, TypeOK

\* The first period after the reset, in which nothing is enabled.
LEMMA FirstPeriodStutters ==
    ASSUME TypeOK, Pipeline, NEW portIn \in Word, Cycle(portIn), ~en1
    PROVE  UNCHANGED Machine!vars
<1>1. /\ pCounter = 0 /\ fetched = 0 /\ ~discardOpCode /\ io = NoAccess
      /\ storedProgCounter = Top
      /\ scratchpad = ScratchpadAfter(instruction, registers, scratchpad)
  BY DEF Pipeline
<1>2. /\ instruction' = instruction /\ fetched' = 0 /\ rom' = rom
      /\ discardOpCode' = branchEnable
  BY <1>1, NextFetch DEF instruction
<1>3. /\ UNCHANGED <<registers, carrySaved, zeroSaved>>
      /\ io' = NoAccess /\ scratchpad' = scratchpad
  BY <1>1 DEF Cycle, Access, regWriteEn, SaveFlags, flagsEn
<1>4. UNCHANGED <<writePointer, progCounterArray>> /\ storedProgCounter' = Top
  BY DEF Cycle, UpdateStack, storePC, prevPC, Top
<1>5. Top' = Top
  BY <1>4 DEF Top, readPointer
<1>6. branchEnable => IsBranch(instruction) /\ pCounter' = 0
  BY <1>1, NextFetch DEF branchEnable
<1>7. ~branchEnable /\ IsBranch(instruction) => pCounter' = NextAddress(0)
  BY <1>1, NextFetch
<1>8. ~branchEnable /\ ~IsBranch(instruction) => pCounter' = 0
  BY <1>1, NextFetch
<1>9. IsaPc' = IsaPc
  BY <1>1, <1>2, <1>6 DEF IsaPc
<1>10. IsaRepeat' = IsaRepeat
  BY <1>1, <1>2, <1>6, <1>7, <1>8 DEF IsaRepeat
<1>11. /\ IsaCarry' = IsaCarry /\ IsaZero' = IsaZero
       /\ IsaScratchpad' = IsaScratchpad
  <2>1. CASE branchEnable
    BY <2>1, <1>1, <1>2, <1>3, <1>6, BranchEffects DEF IsaCarry, IsaZero, IsaScratchpad
  <2>2. CASE ~branchEnable
    BY <2>2, <1>1, <1>2, <1>3 DEF IsaCarry, IsaZero, IsaScratchpad
  <2> QED BY <2>1, <2>2
<1>12. IsaReturnAddress' = IsaReturnAddress
  BY <1>1, <1>4, <1>5 DEF IsaReturnAddress
<1> QED BY <1>1, <1>2, <1>3, <1>4, <1>9, <1>10, <1>11, <1>12 DEF Machine!vars

\* The period that discards the instruction behind a branch.
LEMMA DiscardStutters ==
    ASSUME TypeOK, Pipeline, NEW portIn \in Word, Cycle(portIn), discardOpCode
    PROVE  UNCHANGED Machine!vars
<1>1. en1 /\ io = NoAccess /\ ~branchEnable
  BY DEF Pipeline, TypeOK, branchEnable
<1>2. /\ ~discardOpCode' /\ rom' = rom /\ fetched' = pCounter
      /\ pCounter' = NextAddress(pCounter)
  BY <1>1, NextFetch
<1>3. /\ carrySaved' = CarryAfter(instruction, registers, carrySaved)
      /\ zeroSaved' = ZeroAfter(instruction, registers, carrySaved, zeroSaved)
      /\ scratchpad' = ScratchpadAfter(instruction, registers, scratchpad)
      /\ io' = NoAccess /\ registers' = registers
  BY <1>1 DEF Cycle, SaveFlags, flagsEn, Access, regWriteEn
<1>4. UNCHANGED <<writePointer, progCounterArray>> /\ storedProgCounter' = Top
  BY DEF Cycle, UpdateStack, storePC, prevPC, Top
<1>5. IsaRepeat' = IsaRepeat
  BY <1>2, Counters DEF IsaRepeat, TypeOK
<1>6. /\ IsaPc' = IsaPc /\ IsaCarry' = IsaCarry /\ IsaZero' = IsaZero
      /\ IsaScratchpad' = IsaScratchpad /\ IsaReturnAddress' = IsaReturnAddress
  BY <1>2, <1>3, <1>4
     DEF IsaPc, IsaCarry, IsaZero, IsaScratchpad, IsaReturnAddress
<1> QED BY <1>1, <1>2, <1>3, <1>4, <1>5, <1>6 DEF Machine!vars

\* A taken branch, with its slot.
LEMMA TakenBranch ==
    ASSUME TypeOK, Pipeline, NEW portIn \in Word, Cycle(portIn), en1, branchEnable
    PROVE  Machine!Next
<1>1. /\ ~discardOpCode /\ IsBranch(instruction)
      /\ Holds(instruction.cond, carrySaved, zeroSaved)
      /\ pCounter = NextAddress(fetched)
  BY DEF branchEnable, Pipeline
<1>2. /\ discardOpCode' /\ rom' = rom /\ fetched' = pCounter
      /\ instruction' = rom[NextAddress(fetched)]
      /\ pCounter' = IF instruction.op = "Ret" THEN storedProgCounter
                     ELSE instruction.address
  BY <1>1, NextFetch DEF instruction
<1>3. /\ UNCHANGED <<carrySaved, zeroSaved, registers, scratchpad>>
      /\ io' = NoAccess
  BY <1>1, BranchEffects DEF Cycle, SaveFlags, flagsEn, Access, regWriteEn
<1>4. Machine!StackStep(instruction)
  <2>1. CASE instruction.op = "Call"
    BY <2>1, <1>1, SameCounters
       DEF Machine!StackStep, Cycle, UpdateStack, storePC, IsaPc
  <2>2. CASE instruction.op = "Ret"
    BY <2>2, <1>1, SameCounters
       DEF Machine!StackStep, Cycle, UpdateStack, storePC, prevPC
  <2>3. CASE instruction.op \notin {"Call", "Ret"}
    BY <2>3 DEF Machine!StackStep, Cycle, UpdateStack, storePC, prevPC
  <2> QED BY <2>1, <2>2, <2>3
<1>5. /\ IsaPc = fetched /\ IsaCarry = carrySaved /\ IsaZero = zeroSaved
      /\ IsaScratchpad = scratchpad /\ IsaReturnAddress = storedProgCounter
  BY <1>1 DEF IsaPc, IsaCarry, IsaZero, IsaScratchpad, IsaReturnAddress
<1>6. /\ IsaPc' = IF instruction.op = "Ret" THEN IsaReturnAddress
                  ELSE instruction.address
      /\ IsaRepeat' = FALSE
      /\ IsaReturnAddress' = Machine!Top(progCounterArray', writePointer')
  BY <1>2, <1>5 DEF IsaPc, IsaRepeat, IsaReturnAddress, Top, readPointer, Machine!Top,
                    Machine!Popped, Machine!StackRange, StackRange
<1>7. LET slot == rom[NextAddress(fetched)]
      IN  /\ IsaCarry' = CarryAfter(slot, registers, carrySaved)
          /\ IsaZero' = ZeroAfter(slot, registers, carrySaved, zeroSaved)
          /\ IsaScratchpad' = ScratchpadAfter(slot, registers, scratchpad)
  BY <1>2, <1>3 DEF IsaCarry, IsaZero, IsaScratchpad
<1>8. Machine!BranchSlot
  BY <1>1, <1>3, <1>4, <1>5, <1>6, <1>7, SameBranches, SameCounters, SameEffects
     DEF Machine!BranchSlot, instruction
<1> QED BY <1>2, <1>6, <1>8 DEF Machine!Next

\* An instruction that does not branch.
LEMMA OrdinaryInstruction ==
    ASSUME TypeOK, Pipeline, NEW portIn \in Word, Cycle(portIn),
           en1, ~discardOpCode, ~branchEnable
    PROVE  Machine!Next
<1>1. ~(IsBranch(instruction) /\ Holds(instruction.cond, carrySaved, zeroSaved))
  BY DEF branchEnable
<1>2. /\ ~discardOpCode' /\ rom' = rom /\ fetched' = pCounter
      /\ pCounter' = NextAddress(pCounter) /\ pCounter' # pCounter
  BY NextFetch, Counters DEF TypeOK
<1>3. /\ registers' = RegistersAfter(instruction, registers, carrySaved, scratchpad, portIn)
      /\ io' = PortAccess(instruction, registers, portIn)
      /\ carrySaved' = CarryAfter(instruction, registers, carrySaved)
      /\ zeroSaved' = ZeroAfter(instruction, registers, carrySaved, zeroSaved)
      /\ scratchpad' = ScratchpadAfter(instruction, registers, scratchpad)
  BY DEF Cycle, Access, regWriteEn, SaveFlags, flagsEn
<1>4. /\ IsaPc = fetched /\ IsaCarry = carrySaved /\ IsaZero = zeroSaved
      /\ IsaScratchpad = scratchpad
  BY DEF IsaPc, IsaCarry, IsaZero, IsaScratchpad
<1>5. /\ IsaCarry' = carrySaved' /\ IsaZero' = zeroSaved'
      /\ IsaScratchpad' = scratchpad' /\ IsaPc' = pCounter
      /\ IsaRepeat' = FALSE /\ IsaReturnAddress' = Top
  BY <1>2 DEF IsaPc, IsaCarry, IsaZero, IsaScratchpad, IsaRepeat,
              IsaReturnAddress, Cycle, UpdateStack, Top
<1>6. pCounter = IF IsaRepeat THEN fetched ELSE NextAddress(fetched)
  BY Counters DEF Pipeline, IsaRepeat, TypeOK
<1>7. Machine!StackStep(instruction)
  <2>1. CASE instruction.op = "Call"
    <3>1. IsBranch(instruction)
      BY <2>1 DEF IsBranch, BranchOps
    <3>2. pCounter = NextAddress(fetched)
      BY <3>1 DEF Pipeline
    <3> QED BY <2>1, <3>2, <1>4, SameCounters
            DEF Machine!StackStep, Cycle, UpdateStack, storePC
  <2>2. CASE instruction.op = "Ret"
    BY <2>2, SameCounters DEF Machine!StackStep, Cycle, UpdateStack, storePC, prevPC
  <2>3. CASE instruction.op \notin {"Call", "Ret"}
    BY <2>3 DEF Machine!StackStep, Cycle, UpdateStack, storePC, prevPC
  <2> QED BY <2>1, <2>2, <2>3
<1>8. Machine!Execute(portIn)
  BY <1>1, <1>3, <1>4, <1>5, <1>6, <1>7, SameBranches, SameCounters, SameEffects
     DEF Machine!Execute, instruction
<1> QED BY <1>2, <1>5, <1>8 DEF Machine!Next

LEMMA IsaNext ==
    ASSUME TypeOK, Pipeline, [Next]_vars
    PROVE  [Machine!Next]_Machine!vars
<1>1. CASE Next
  <2>1. PICK portIn \in Word : Cycle(portIn)
    BY <1>1 DEF Next
  <2>2. CASE ~en1
    BY <2>1, <2>2, FirstPeriodStutters
  <2>3. CASE discardOpCode
    BY <2>1, <2>3, DiscardStutters
  <2>4. CASE en1 /\ branchEnable
    BY <2>1, <2>4, TakenBranch
  <2>5. CASE en1 /\ ~discardOpCode /\ ~branchEnable
    BY <2>1, <2>5, OrdinaryInstruction
  <2> QED BY <2>2, <2>3, <2>4, <2>5 DEF TypeOK
<1>2. CASE UNCHANGED vars
  BY <1>2 DEF vars, Machine!vars, IsaPc, IsaRepeat, IsaCarry, IsaZero, IsaScratchpad,
              IsaReturnAddress, Top, readPointer, instruction
<1> QED BY <1>1, <1>2

\* The processor executes its program one instruction after the other.
THEOREM IsaImplemented == Spec => ImplementsIsa
<1>1. Init => TypeOK /\ Pipeline
  BY TypeInit, PipelineInit
<1>2. TypeOK /\ Pipeline /\ [Next]_vars => (TypeOK /\ Pipeline)'
  BY TypeNext, PipelineNext
<1>3. TypeOK /\ Pipeline /\ [Next]_vars => [Machine!Next]_Machine!vars
  BY IsaNext
<1> QED BY IsaInit, <1>1, <1>2, <1>3, PTL DEF Spec, ImplementsIsa, Machine!Spec

-----------------------------------------------------------------------------
(* The subroutines: in a regular program, of any length and with a stack   *)
(* of any size, every RETURN goes back to its caller.                      *)

\* The strengthening of CallersOnStack: what the registered output of the stack
\* shows wherever an instruction is executed.
OutputIsLastCaller ==
    regular /\ en1 /\ ~discardOpCode /\ callers # <<>>
        => storedProgCounter = Last(callers)

CallsInv ==
    /\ TypeOK /\ Pipeline
    /\ callers \in Seq(Address) /\ regular \in BOOLEAN
    /\ ~regular => callers = <<>>
    /\ CallersOnStack
    /\ OutputIsLastCaller

LEMMA CallsInvInit == CallsInit => CallsInv
<1> SUFFICES ASSUME CallsInit PROVE CallsInv
  OBVIOUS
<1>1. TypeOK /\ Pipeline
  BY TypeInit, PipelineInit DEF CallsInit
<1>2. callers = <<>> /\ Len(callers) = 0 /\ regular = TRUE /\ ~en1 /\ writePointer = 0
  BY DEF CallsInit, Init
<1>3. CallersOnStack
  BY <1>2, WidthAssumption DEF CallersOnStack
<1> QED BY <1>1, <1>2, <1>3 DEF CallsInv, OutputIsLastCaller

\* What a regular step does to the record of the calls.
LEMMA RecordCases ==
    ASSUME CallsNext, regular'
    PROVE  /\ regular /\ ~Irregular
           /\ Taken("Call") => callers' = Append(callers, NextAddress(fetched))
           /\ Taken("Ret") => callers' = Front(callers)
           /\ ~Taken("Call") /\ ~Taken("Ret") => callers' = callers
BY DEF CallsNext, Record, Taken

\* The top of the stack is the innermost caller.
LEMMA TopIsLastCaller ==
    ASSUME CallsInv, regular, callers # <<>>
    PROVE  /\ readPointer = Len(callers) - 1
           /\ progCounterArray[readPointer] = Last(callers)
<1>1. Len(callers) \in 1 .. StackRange
  BY WidthAssumption DEF CallsInv, CallersOnStack
<1>2. readPointer = Len(callers) - 1
  BY <1>1, WidthAssumption DEF CallsInv, CallersOnStack, readPointer
<1>3. progCounterArray[Len(callers) - 1] = callers[Len(callers)]
  BY <1>1 DEF CallsInv, CallersOnStack
<1> QED BY <1>2, <1>3 DEF Last

LEMMA CallStep ==
    ASSUME CallsInv, CallsNext, regular', Taken("Call")
    PROVE  CallersOnStack'
<1>1. PICK portIn \in Word : Cycle(portIn)
  BY DEF CallsNext, Next
<1>2. /\ regular /\ Len(callers) # StackRange
      /\ callers' = Append(callers, NextAddress(fetched))
  BY RecordCases DEF Irregular
<1>3. Len(callers) \in 0 .. StackRange - 1 /\ writePointer = Len(callers)
  BY <1>2, WidthAssumption DEF CallsInv, CallersOnStack
<1>4. storePC /\ pCounter = NextAddress(fetched)
  BY DEF Taken, branchEnable, storePC, CallsInv, Pipeline
<1>5. /\ writePointer' = Pushed(writePointer)
      /\ progCounterArray' = [progCounterArray EXCEPT ![writePointer] = pCounter]
  BY <1>1, <1>4 DEF Cycle, UpdateStack
<1>6. /\ Len(callers') = Len(callers) + 1
      /\ callers'[Len(callers) + 1] = NextAddress(fetched)
      /\ \A n \in 1 .. Len(callers) : callers'[n] = callers[n]
  BY <1>2 DEF CallsInv
<1>7. writePointer' = IF Len(callers') = StackRange THEN 0 ELSE Len(callers')
  BY <1>3, <1>5, <1>6, WidthAssumption DEF Pushed
<1>8. ASSUME NEW n \in 1 .. Len(callers')
      PROVE  progCounterArray'[n - 1] = callers'[n]
  <2>1. n \in 1 .. Len(callers) \/ n = Len(callers) + 1
    BY <1>3, <1>6
  <2>2. writePointer \in StackAddress /\ n - 1 \in StackAddress
    BY <1>3, <1>6, WidthAssumption DEF StackAddress
  <2>3. CASE n = Len(callers) + 1
    BY <2>2, <2>3, <1>3, <1>4, <1>5, <1>6 DEF CallsInv, TypeOK
  <2>4. CASE n \in 1 .. Len(callers)
    <3>1. n - 1 # writePointer
      BY <2>4, <1>3
    <3> QED BY <2>2, <2>4, <3>1, <1>5, <1>6 DEF CallsInv, CallersOnStack, TypeOK
  <2> QED BY <2>1, <2>3, <2>4
<1>9. Len(callers') <= StackRange
  BY <1>3, <1>6, WidthAssumption
<1> QED BY <1>7, <1>8, <1>9 DEF CallersOnStack

LEMMA ReturnStep ==
    ASSUME CallsInv, CallsNext, regular', Taken("Ret")
    PROVE  /\ CallersOnStack' /\ callers' \in Seq(Address)
           /\ pCounter' = Last(callers)
<1>1. PICK portIn \in Word : Cycle(portIn)
  BY DEF CallsNext, Next
<1>2. regular /\ callers # <<>> /\ callers' = Front(callers)
  BY RecordCases DEF Irregular
<1>3. Len(callers) \in 1 .. StackRange /\ readPointer = Len(callers) - 1
  BY <1>2, TopIsLastCaller, WidthAssumption DEF CallsInv, CallersOnStack
<1>4. ~storePC /\ prevPC /\ ~discardOpCode
  BY DEF Taken, branchEnable, storePC, prevPC
<1>5. writePointer' = readPointer /\ progCounterArray' = progCounterArray
  BY <1>1, <1>4 DEF Cycle, UpdateStack
<1>6. /\ callers' \in Seq(Address) /\ Len(callers') = Len(callers) - 1
      /\ \A n \in 1 .. Len(callers) - 1 : callers'[n] = callers[n]
  BY <1>2, <1>3 DEF Front, CallsInv
<1>7. CallersOnStack'
  BY <1>3, <1>5, <1>6, WidthAssumption DEF CallersOnStack, CallsInv
<1>8. pCounter' = storedProgCounter
  BY <1>1, NextFetch DEF Taken, CallsInv
<1>9. storedProgCounter = Last(callers)
  BY <1>2, <1>4 DEF CallsInv, OutputIsLastCaller, Taken
<1> QED BY <1>6, <1>7, <1>8, <1>9

\* A step of a regular program that neither calls nor returns.
LEMMA PlainStep ==
    ASSUME CallsInv, CallsNext, regular', ~Taken("Call"), ~Taken("Ret")
    PROVE  CallersOnStack'
<1>1. PICK portIn \in Word : Cycle(portIn)
  BY DEF CallsNext, Next
<1>2. regular /\ ~Untaken /\ callers' = callers
  BY RecordCases DEF Irregular
<1>3. ~storePC /\ ~prevPC
  BY <1>2 DEF Untaken, Taken, storePC, prevPC
<1>4. UNCHANGED <<writePointer, progCounterArray>>
  BY <1>1, <1>3 DEF Cycle, UpdateStack
<1> QED BY <1>2, <1>4 DEF CallersOnStack, CallsInv

LEMMA CallsInvNext == CallsInv /\ [CallsNext]_callsVars => CallsInv'
<1>1. ASSUME CallsInv, UNCHANGED callsVars PROVE CallsInv'
  <2>1. TypeOK' /\ Pipeline'
    BY <1>1, TypeNext, PipelineNext DEF CallsInv, callsVars
  <2> QED BY <1>1, <2>1 DEF CallsInv, callsVars, vars, CallersOnStack, OutputIsLastCaller
<1>2. ASSUME CallsInv, CallsNext PROVE CallsInv'
  <2>1. PICK portIn \in Word : Cycle(portIn)
    BY <1>2 DEF CallsNext, Next
  <2>2. TypeOK' /\ Pipeline'
    BY <1>2, TypeNext, PipelineNext DEF CallsInv, CallsNext
  <2>3. regular' \in BOOLEAN /\ (~regular' => callers' = <<>>)
    BY <1>2 DEF CallsNext, Record, CallsInv
  <2>4. CASE ~regular'
    BY <2>2, <2>3, <2>4, WidthAssumption DEF CallsInv, CallersOnStack, OutputIsLastCaller
  <2>5. CASE regular'
    <3>1. CallersOnStack'
      BY <1>2, <2>5, CallStep, ReturnStep, PlainStep
    <3>2. callers' \in Seq(Address)
      <4>1. NextAddress(fetched) \in Address
        BY <1>2, Counters DEF CallsInv, TypeOK
      <4>2. CASE Taken("Ret")
        BY <1>2, <2>5, <4>2, ReturnStep
      <4>3. CASE ~Taken("Ret")
        BY <1>2, <2>5, <4>1, <4>3, RecordCases DEF CallsInv
      <4> QED BY <4>2, <4>3
    <3>3. OutputIsLastCaller'
      <4> SUFFICES ASSUME en1', ~discardOpCode', callers' # <<>>
                   PROVE  storedProgCounter' = Last(callers')
        BY DEF OutputIsLastCaller
      <4>1. ~branchEnable
        BY <2>1 DEF Cycle
      <4>2. callers' = callers /\ regular
        BY <1>2, <2>5, <4>1, RecordCases DEF Taken
      <4>3. storedProgCounter' = progCounterArray[readPointer]
        BY <2>1 DEF Cycle, UpdateStack
      <4> QED BY <1>2, <4>2, <4>3, TopIsLastCaller
    <3> QED BY <2>2, <2>3, <3>1, <3>2, <3>3 DEF CallsInv
  <2> QED BY <2>4, <2>5
<1> QED BY <1>1, <1>2

\* The branch stack holds the active subroutines, for every size of the stack.
THEOREM CallersCorrect == CallsSpec => []CallersOnStack
<1>1. CallsInv => CallersOnStack
  BY DEF CallsInv
<1> QED BY CallsInvInit, CallsInvNext, <1>1, PTL DEF CallsSpec

\* Every RETURN of a regular program goes back behind the CALL it answers.
THEOREM ReturnsCorrect == CallsSpec => ReturnsToCaller
<1>1. CallsInv /\ [CallsNext]_callsVars
        => [regular' /\ Taken("Ret") => pCounter' = Last(callers)]_callsVars
  BY ReturnStep
<1> QED BY CallsInvInit, CallsInvNext, <1>1, PTL DEF CallsSpec, ReturnsToCaller
=============================================================================
