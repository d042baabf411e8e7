------------------------------- MODULE NeoAlu -------------------------------
(***************************************************************************)
(* The instruction sequencer of NEORV32, its ALU and the co-processors:    *)
(* the shifter, bit manipulation and the FPU (multiplication is left out   *)
(* of the processor). A step is a rising edge for all of them. Programs    *)
(* are sequences of ALU instructions with the operands they read; after a  *)
(* trap the rest of the program stands for what the trap handler runs.     *)
(***************************************************************************)
EXTENDS CpShifter, CpBitmanip, CpFpu, Sequences

\* A word has a power of two of bits, and an immediate of 12 bits holds a number
\* of places and the bits of funct7 above it.
ASSUME AmountBits == \E n \in 4 .. 9 : XLEN = 2 ^ n

CONSTANT Programs    \* records of fast (FAST_SHIFT_EN), mie and code

\* An instruction and the operands it reads.
Entries == [instr : Instructions, rs1 : Words, rs2 : Words]
ASSUME ProgramsAssumption ==
    Programs \subseteq [fast : BOOLEAN, mie : BOOLEAN, code : Seq(Entries)]

VARIABLES
    program,    \* fast; mie: interrupts are enabled; code: what is not yet dispatched
    i_reg,      \* the instruction register, with the operands read for it
    rs,         \* the outputs of the register file
    state,      \* of the execute engine
    ctrl,       \* registered control signals: copro (alu_func), cp (cp_id), wb
    cmd_ff,     \* the arbiter's copy of the co-processor command
    exc,        \* exc_buf(exception_iillegal_c)
    env,        \* env_start and exc_ack
    fflags,     \* csr.fflags
    abandoned   \* a trapped instruction has started a co-processor (auxiliary)

control_vars == <<program, i_reg, rs, state, ctrl, cmd_ff, exc, env, fflags, abandoned>>
vars == <<control_vars, shifter, bitmanip, bitshift, fpu_vars>>

NoEntry == [instr |-> CMD_WORD_R2_TYPE(0, 0, 0, 0, 0, 0), rs1 |-> 0, rs2 |-> 0]
Off == [copro |-> FALSE, cp |-> "shifter", wb |-> FALSE]

Init ==
    /\ program \in Programs
    /\ i_reg = NoEntry /\ rs = [rs1 |-> 0, rs2 |-> 0]
    /\ state = "SYS_WAIT" /\ ctrl = Off /\ cmd_ff = FALSE
    /\ exc = FALSE /\ env = FALSE /\ fflags = {} /\ abandoned = FALSE
    /\ ShifterInit /\ BitmanipInit /\ FpuInit

-----------------------------------------------------------------------------
(* The operands of the ALU and what it computes by itself.                 *)

instr == i_reg.instr
IsImmediate == instr.opcode = opcode_alui_c
Immediate == SignExtended(instr.funct7 * 2 ^ 5 + instr.rs2, Min({12, XLEN}))
Opb == IF IsImmediate THEN Immediate ELSE rs.rs2
ShiftAmount == Opb % XLEN

\* alu_unsigned, and the comparator.
\* Mutant: the bit is the one that tells the unsigned branches.
UnsignedOfBranches == Bits(instr.funct3, 1, 1) = 1

Unsigned == Bits(instr.funct3, 0, 0) = 1
LessThan(a, b) == IF Unsigned THEN a < b ELSE Signed(a) < Signed(b)

CoreResult ==
    CASE instr.funct3 = \b000 ->
           IF ~IsImmediate /\ Bits(instr.funct7, 5, 5) = 1
           THEN (rs.rs1 - Opb) % 2 ^ XLEN ELSE (rs.rs1 + Opb) % 2 ^ XLEN
      [] instr.funct3 \in {\b010, \b011} -> IF LessThan(rs.rs1, Opb) THEN 1 ELSE 0
      [] instr.funct3 = \b100 -> Xor(rs.rs1, Opb)
      [] instr.funct3 = \b110 -> Or(rs.rs1, Opb)
      [] OTHER -> And(rs.rs1, Opb)

-----------------------------------------------------------------------------
(* The arbiter of the co-processors.                                       *)

\* Mutant: the command starts a co-processor as long as it is there.
StartOfLevel(cp) == ctrl.copro /\ ctrl.cp = cp

Start(cp) == ctrl.copro /\ ~cmd_ff /\ ctrl.cp = cp

Valid(cp) ==
    CASE cp = "shifter" -> ShifterValid(program.fast, Start("shifter"))
      [] cp = "muldiv" -> Start("muldiv")
      [] cp = "bitmanip" -> bitmanip.valid
      [] cp = "fpu" -> fpu.valid
idone == \E cp \in CoProcessors : Valid(cp)

Result(cp) ==
    CASE cp = "shifter" -> ShifterResult(program.fast)
      [] cp = "muldiv" -> 0
      [] cp = "bitmanip" -> bitmanip.result
      [] cp = "fpu" -> fpu.result
cp_res == WordOf(UNION {Ones(Result(cp)) : cp \in CoProcessors})

AluResult == IF ctrl.copro THEN cp_res ELSE CoreResult

\* What the register file writes, and when.
\* Mutant: the exception does not mask the write.
WritesUnmasked == ctrl.wb

Writes == ctrl.wb /\ ~exc

-----------------------------------------------------------------------------
(* The execute engine.                                                     *)

SYS_WAIT ==
    /\ state = "SYS_WAIT"
    /\ state' = "DISPATCH" /\ ctrl' = Off
    /\ UNCHANGED <<program, i_reg>>

\* The instruction register takes the next instruction before it is there.
NextEntry == IF program.code = <<>> THEN i_reg ELSE Head(program.code)

DispatchWaits ==
    /\ state = "DISPATCH"
    /\ i_reg' = NextEntry /\ ctrl' = Off
    /\ UNCHANGED <<program, state>>

Dispatch ==
    /\ state = "DISPATCH" /\ program.code # <<>> /\ ~exc /\ ~env
    /\ i_reg' = NextEntry /\ ctrl' = Off
    /\ program' = [program EXCEPT !.code = Tail(@)]
    /\ state' = "EXECUTE"

DispatchTraps ==
    /\ state = "DISPATCH" /\ program.code # <<>> /\ (exc \/ env)
    /\ i_reg' = NextEntry /\ ctrl' = Off
    /\ state' = "TRAP_ENTER"
    /\ UNCHANGED program

TRAP_ENTER ==
    /\ state = "TRAP_ENTER"
    /\ state' = IF env THEN "TRAP_EXECUTE" ELSE "TRAP_ENTER"
    /\ ctrl' = Off
    /\ program' = [program EXCEPT !.mie = @ /\ ~env]
    /\ UNCHANGED i_reg

TRAP_EXECUTE ==
    /\ state = "TRAP_EXECUTE"
    /\ state' = "SYS_WAIT" /\ ctrl' = Off
    /\ UNCHANGED <<program, i_reg>>

\* An opcode that is none of the ALU's is one of the fused operations.
EXECUTE ==
    LET cp == CoProcessorOf(instr)
    IN  /\ state = "EXECUTE"
        /\ \/ cp # "none" /\ state' = "ALU_WAIT" /\ ctrl' = [copro |-> TRUE, cp |-> cp, wb |-> FALSE]
           \/ cp = "none" /\ IsAluOperation(instr)
              /\ state' = "DISPATCH" /\ ctrl' = [Off EXCEPT !.wb = TRUE]
           \/ cp = "none" /\ ~IsAluOperation(instr) /\ state' = "SYS_WAIT" /\ ctrl' = Off
        /\ UNCHANGED <<program, i_reg>>

\* The identifier of the co-processor is there in the first period only; the
\* arbiter looks at it only then.
ALU_WAIT ==
    /\ state = "ALU_WAIT"
    /\ state' = IF idone \/ exc THEN "DISPATCH" ELSE "ALU_WAIT"
    /\ ctrl' = [Off EXCEPT !.copro = TRUE, !.wb = idone \/ exc]
    /\ UNCHANGED <<program, i_reg>>

ExecuteEngine ==
    \/ SYS_WAIT \/ DispatchWaits \/ Dispatch \/ DispatchTraps
    \/ TRAP_ENTER \/ TRAP_EXECUTE \/ EXECUTE \/ ALU_WAIT

\* trap_controller: exc_ack goes with env_start. An interrupt starts a trap from
\* EXECUTE or TRAP_ENTER only.
TrapController ==
    \E irq_fire \in {irq \in BOOLEAN : irq => program.mie} :
       /\ exc' = ((exc \/ (state = "EXECUTE" /\ ~IsLegal(instr))) /\ ~env)
       /\ env' = IF env THEN state # "TRAP_ENTER"
                 ELSE exc \/ (irq_fire /\ state \in {"EXECUTE", "TRAP_ENTER"})

Registers ==
    /\ rs' = [rs1 |-> i_reg.rs1, rs2 |-> i_reg.rs2]
    /\ cmd_ff' = ctrl.copro
    /\ fflags' = IF exc THEN fflags ELSE fflags \union fpu.flags
    /\ abandoned' = (abandoned \/ (exc /\ \E cp \in CoProcessors : Start(cp)))

CoProcessorsClock ==
    LET less == LessThan(rs.rs1, rs.rs2)
    IN  /\ ShifterClock(program.fast, Start("shifter"), rs.rs1, ShiftAmount,
                        Bits(instr.funct3, 2, 2) = 1, Bits(instr.funct7, 5, 5) = 1)
        /\ BitmanipClock(program.fast, Start("bitmanip"), instr, less, rs.rs1, rs.rs2, ShiftAmount)
        /\ FpuClock(Start("fpu"), instr, rs.rs1 = rs.rs2, less, rs.rs1, rs.rs2)

Clock == ExecuteEngine /\ TrapController /\ Registers /\ CoProcessorsClock

\* A period in which no instruction has arrived may be followed by another such
\* period, but the clock runs.
Spec == Init /\ [][Clock]_vars /\ WF_vars(Clock)
=============================================================================
