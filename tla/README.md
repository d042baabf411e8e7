# Verification of the SEm laboratory circuits

TLA+ models, model-checking runs and machine-checked proofs for the VHDL of the
SEm laboratories: the FIFO, the serial port, the NanoBlaze processor, the Morse
encoder that is built from the first two, and the arithmetic of the NEORV32
processor together with the C functions that are meant to compute the same.

All circuits are synchronous. **One step of a module is one rising edge of the
clock**: a clocked process is a conjunct of the step that computes the next value
of its registers from the old values of all of them, a concurrent assignment is
an operator named like its signal. `'1'` is `TRUE`. The asynchronous reset is an
action where it can hit a running circuit (the FIFO) and the initial state
elsewhere.

## 1. Inventory

| Component | Where | State | Operations | Interacts with | Hard behaviour | What makes it correct |
|---|---|---|---|---|---|---|
| FIFO in a block RAM | `Libs/Memory/hdl/fifo_bram_rtl.vhd` | two address counters, memory, state machine, registered output | write, read, both, neither, reset | a writer and a reader in the same clock domain | equal counters mean empty *or* full; the output lags the memory | it is a bounded queue; its words are shown in time |
| NanoBlaze | `Libs/NanoBlaze/hdl` | program counter, ROM register, flags, discard flag, registers, scratchpad, branch stack | one instruction per clock period | ROM, ports (over AHB-Lite in the beamer) | two-stage pipeline, delay slot, registered stack output | it executes its program one instruction after the other; subroutines return |
| Serial port | `Libs/RS232/hdl` | dividers, shift registers, bit counter, end flag | send a word; sample a line | the other end of a line with another clock | drift between clocks, resynchronization, noise after reset | every word arrives once, unchanged, in order |
| Morse controller, unit counter | `05-Morse/Morse/hdl/charToMorseController_studentVersion.vhd`, `unitCounter_studentVersion.vhd` | three state machines, two counters | walk through the code of a character, send a dot, send a dash, pause | FIFO (character, empty, read), one line | three machines share counter and line; a tree of seventy states | the line carries the Morse code of the characters |
| Morse encoder | `05-Morse/Morse/hdl/morseencoder_struct.vhg` | the above | receive, store, send | serial line in, Morse line out | the controller stores no character: the FIFO's output must hold still | characters are sent in order, none skipped or repeated |
| AHB-Lite bus | `Libs/AhbLite/hdl` | address, data and select registers | read, write | NanoBlaze and the peripherals | address and data phases overlap | a read returns the addressed register |
| AHB GPIO and UART, beamer registers | `06-07-08-09-SystemOnChip/Board/concat/systemOnChip.vhd` | register files, serializer, pattern address counter | register accesses, receive, send | bus, line, interpolators | a write while sending; one receive register; strobes seen by edge | no word is lost unnoticed |
| Beamer firmware | `06-07-08-09-SystemOnChip/SystemOnChip/hdl/beamer.asm` | registers | receive a command, check, answer | UART over the bus | checksum, lengths, timing of polling | a damaged command has no effect |
| Other FIFOs and bridges | `Libs/Memory/hdl/fifo_*.vhd`, `fifoBridge*.vhd` | counters or one register | write, read | | simultaneous operations at the limits | same promise as the FIFO |
| Flash and SDRAM controllers | `Libs/Memory/hdl/flashController_RTL.vhd`, `sdramController*_RTL.vhd` | sequencer, wait counter | read, write, refresh | memory chips, a shared bus | requests during an access | one access at a time, with its own address |
| Buttons and clocks | `Libs/Common/hdl` | counters, delayed inputs | debounce, toggle, filter | pins | bouncing inputs | one event per press |
| Data paths | `01-…` to `04-…`, `10-…` | accumulators, shift registers | waveforms, splines, sigma-delta, adders | | arithmetic, not control | judged by their spectra |
| HEIRV32 | `Libs/RiscV/HEIRV32` | registers, main state machine | RISC-V instructions | memories | multicycle control | as a sequential machine |
| NEORV32: execute engine, trap controller | `Libs/RiscV/NEORV32/rtl/core/neorv32_cpu_control.vhd` | state machine, instruction register, registered control signals, exception buffer | dispatch, execute, wait for a co-processor, enter a trap | ALU and co-processors, interrupts | an exception is known only after the co-processor was started; interrupts at any edge | an illegal instruction leaves no trace |
| NEORV32: ALU and co-processors | `neorv32_cpu_alu.vhd`, `neorv32_cpu_cp_shifter.vhd`, `neorv32_cpu_cp_bitmanip.vhd`, `neorv32_cpu_cp_fpu.vhd` | command flag of the arbiter; shift registers and counters; controllers, operands, adder, normalizer, converter | sum, compare, logic; shift; count, rotate, extend, ...; float operations | the execute engine by start and done; one bus for all results | four units of different latency whose outputs are put together by OR; rounding; limits of the formats | each instruction gives what its emulation in C gives; every operation ends |
| NEORV32: intrinsics and emulation | `sw/lib/include/neorv32_intrinsics.h`, `sw/example/bitmanip_test/*.h`, `sw/example/floating_point_test/*.h` | none | build an instruction word; compute the same in C | the processor executes the word | two independent descriptions of forty operations | they agree |
| NEORV32: multiplier, bus, peripherals, software; vendor primitives, boards, scripts, test benches | `Libs/RiscV/NEORV32`, `Libs/Lattice`, `*/Board`, `*/Scripts`, `*_test` | | | | | third party, or no behaviour of the system |

`PROJECT.json` lists the same parts with their status, every hazard with its line,
and for each definition the lines it translates.

## 2. Modules

```
 CommonLib ── FifoBram ══► Fifo (promise)          NanoInstructions ─┬─ NanoBlaze ══► NanoIsa (promise)
                 │  └─ FifoBram_proofs                               │     └─ NanoBlazeCalls ── NanoBlaze_proofs
                 │                                                   │
 CharToMorse ────┴─ MorseEncoder                             NanoAlu ┴─ NanoArithmetic ── NanoArithmetic_proofs
    │                  └─ MorseEncoder_proofs
    │                                  SerialWord ─┬─ SerialPortTransmitter ─┬─ SerialLink
    └─ MorseListener                               └─ SerialPortReceiver ────┘   └─ SerialLink_proofs
          └─ MorseListener_proofs

 RiscvInstr ─┬─ CpuDecode ───────────────┐
             ├─ BitmanipIntrinsics ──────┼────────────────────────┐
 BitWords ───┼─ CpShifter ───────────────┤                        │
    │        ├─ CpBitmanip ──────────────┼─ NeoAlu ─── NeoAluIntrinsics ══► CoProcessor (promise)
    └─ FloatWords ─ FpuOperations ─ CpFpu┘                        │  └─ NeoAlu_proofs
             └── CFloat ─ ZfinxIntrinsics ────────────────────────┘       └─ NeoFloats_proofs

                    ── EXTENDS or INSTANCE      ══► refines
```

Each `MC…` module instantiates one of them with small constants for the `.cfg` of
the same name. A `…_proofs` module extends the module it is about;
**MorseEncoder_proofs** uses the lemmas of `FifoBram_proofs` too,
**NanoArithmetic_proofs** those of `NanoBlaze_proofs` and **NeoFloats_proofs** those of
`NeoAlu_proofs`, of which it is the second half. **MorseListener_proofs** has the proofs
about `CharToMorse` alone in front of those about the listener, **NeoAlu_proofs** those
about words, and at its end those about the conversions to integers and about numbers
with a sticky bit.

**FifoBram** has the five signals of the architecture as its variables; `Cycle`
is one edge with the inputs `write`, `read`, `dataIn`, and `NextOfOperation` is
what the branches of `fifoControl` have in common. `memoryArray` has
`CounterRange` places, all that the counters can address; the array of the code
has `depth` of them (see the findings). The value `Unset` stands for what a RAM
holds before its first write. **Fifo** is the promise: a queue with an exact flag
`full` and a flag `empty` that may stay for a while when the first word arrives.

**NanoInstructions** holds what an instruction computes, with the tables of the
controller as sets of operations; the ALU and the two ways to form a scratchpad
address are constants, since sequencing does not depend on them. **NanoBlaze** is
the processor edge by edge: `fetched` is the address of the word in the ROM's
output register. **NanoIsa** is the machine an assembler programmer has, one
instruction per step. Where the circuit differs from what one expects of such a
machine, NanoIsa says so, and it says it in one place each: the instruction behind
a taken branch still updates flags and scratchpad; an untaken conditional CALL or
RETURN still moves the stack pointer, and a RETURN reads the stack as it was one
instruction before; the first instruction is executed twice.
**NanoBlazeCalls** adds a record of the active subroutines (a history of its own,
no part of the circuit). **NanoAlu** is the ALU on numbers of `w` bits, and
**NanoArithmetic** runs programs for two-word numbers on the whole processor.

**SerialPortTransmitter** and **SerialPortReceiver** are the two ends,
**SerialLink** a line with a clock on each side: `txDivide` is the length of the
sender's bit in periods of the receiver's clock. The sender looks at `busy` first,
like the process in `morsedecoder_struct.vhg` (lines 127 to 138).

**CharToMorse** has the state of the character machine as a pair: what it does and
the symbols up to the one it is sending, so that the tree of `nxt_Charstate` is
five tables instead of seventy states. `send` stands for the states `sendDot1`,
`sendDotDash2`, …; `same` for the states like `sendDotWaitDot2`. The dot and the
dash sender are the same machine with different numbers of units. The character is
an input that `Held` keeps still from `storeChar` until it is read; that the FIFO
does so is not assumed of the encoder but checked in **MorseEncoder**
(`CharacterIsHeld`). **MorseListener** adds somebody who only measures the line.

**NeoAlu** is the part of the NEORV32 that carries out the instructions of its ALU.
The execute engine has one action per state (`SYS_WAIT`, `EXECUTE`, ...; DISPATCH has
three, for no instruction, an instruction and a trap); `Clock` is one edge of the
engine, the trap controller, the arbiter and all co-processors. Programs are
sequences of instructions *with the operands they read*, so that there is no
register file: whatever a program has computed before, an instruction finds some
operands. `rs` is a period behind the instruction register, as the register file's
outputs are. The register `rd` and the value written are `Writes` and `AluResult`.
`abandoned` is an auxiliary variable: a trapped instruction has left a co-processor
running. Behind a trap the rest of the program stands for the trap handler's code.
**CpShifter**, **CpBitmanip** and **CpFpu** are the co-processors, edge by edge, with
the record of each controller as one variable; **FpuOperations** has the functions
of the FPU that have no state, **CpuDecode** the decoder of the control unit.
**CoProcessor** is the promise the arbiter's comment asks of each of them (valid for
one period, one period before the data; data 0 otherwise).

**RiscvInstr**, **BitmanipIntrinsics** and **ZfinxIntrinsics** translate the C headers:
an intrinsic is the instruction record that its macro builds, an emulation the
function of its arguments. **CFloat** is external: IEEE arithmetic as the C compiler
gives it, with exact sums and products rounded once. **NeoAluIntrinsics** puts the
two sides together: if a processor writes the result of `riscv_intrinsic_x`, it is
what `riscv_emulate_x` returns. Everything is parameterised by the word length, the
length of a byte and the sizes of exponent and mantissa.

## 3. Runs

| Run | Bounds | What it shows |
|---|---|---|
| `fifo_bram` | 4 places, 2 words | Type invariant; the state tells full from empty; the circuit refines `Fifo`; `dataOut` shows the oldest word when it was there before the edge; the first word is offered |
| `fifo_bram_data` | same | *violation*: "data valid when empty = '0'" does not hold |
| `fifo_bram_depth` | depth 3 | *violation*: the counters leave the memory |
| `nanoblaze` | 4 addresses, 13 kinds of instructions, all 28561 programs, 1 register and 1 scratchpad word of 1 bit, 2 return addresses | Pipeline invariant; refinement of `NanoIsa`; one lost period per branch; the stack holds the callers; RETURN goes back |
| `nanoblaze_discard` | same | *violation*: the discarded instruction has effects |
| `nanoblaze_first` | same | *violation*: the first instruction is enabled twice |
| `nano_arithmetic` | words of 3 bits, all pairs of numbers of two words, 7 programs | sums, differences, shifts, rotation and products are right |
| `serial_link` | 4 data bits, 1 stop bit, bit of 12 periods at the receiver and of 11, 12 or 13 at the sender, any pause between words | every word is delivered once, unchanged, in order; every frame ends |
| `morse_listener` | all 128 characters, unit of 6 periods, any sequence of characters | no two machines use the counter at once; the Morse code of each character is heard, with pauses of three and seven units; every character ends |
| `morse_encoder` | FIFO of 4, characters e, n, space, unit of 2 periods, writes at any edge | the character sent is the oldest one and holds still; waiting characters are sent |
| `neo_alu` | words of 16 bits, bytes of 4, floats of 6 and 9 bits; every intrinsic and every base instruction alone, with integers and floats at the limits of the formats (9 integers, 32 floats, all pairs; more for the conversions), shifts serial and fast; all sequences of three of which the first two may be trapped or slow, with and without interrupts | type invariant; answers come only to the instruction that waits; illegal instructions write nothing while interrupts are off; the units of the FPU work one at a time; bit manipulation, base operations, float sums and products, comparisons and conversions give what C gives; the flags agree where they can; three refinements of `CoProcessor`; every operation ends |
| `neo_illegal` | the nine kinds of illegal instructions that occupy a co-processor or none, interrupts on | *violation*: an illegal instruction writes its register |

Why the bounds are enough. A FIFO of four places reaches every branch of its state
machine, with the wrap of both counters; what two words more would add is proved
for every depth. Programs of four instructions contain a branch in the slot of a
branch, a call in a call, a return right behind a call and a jump over the end of
the memory; the proofs hold for every length. Three bits are the smallest words
with a bit that is neither the first nor the last. Four data bits leave a frame
with no edge of five bit times, and the drift of a twelfth over five and a half
bits stays below half a bit, which is what the receiver can stand. How much the
two clocks may differ for other lengths is `ToleranceAssumption` of `SerialLink`; for
the numbers of this run it says 11, 12 or 13, and 10 and 14 do lose words. With eight
bits and a long divider it is an eighteenth. A
unit of six periods is the shortest with which the listener understands the line
(`ListenerAssumption`): the pause inside of a letter is a unit and five edges of the
machines long, and has to be shorter than two units. In the circuit a unit has
millions of periods. `SilenceBound` and `PendingBound` cap the two counters of the observers; the first
is a saturation, the second is shown never to be reached by `TypeOK` of
`SerialLink`.

Words of 16 bits are the smallest in which the sizes of the source keep their order:
the mantissa is shorter than a word but longer than two bytes, there are floats
beyond the largest integer and floats below one half, and the exponent counter of
the normalizer has bits to spare on both sides. The constants of the code that
depend on the width (`rori` by 20, shift amounts) are taken modulo it. The floats
chosen are both zeros, a subnormal number, the smallest and the largest normal
numbers, 1 with its neighbours, ties, numbers that are just too far apart to be added
without a sticky bit, infinities and both kinds of NaN. Sequences of three are the
shortest in which an operation abandoned by a trap can meet the next one and the one
behind it. The fields of an instruction have their real widths.

**Fairness.** The only fairness is that the clock goes on: weak fairness of the
step that is one rising edge. Writers, readers, senders and the serial line owe
nothing. `EveryOperationEnds` of the ALU needs no more: the co-processors are
clocked circuits. In `FifoBram` an edge with idle inputs is what must not stay away, as an
edge that changes nothing is no step at all. The runs that need no liveness assume
nothing.

**Deadlock** is checked in every run.

## 4. Proofs

TLAPS checks these theorems for every value of the constants (assumptions in
brackets).

| Theorem | Module | Statement |
|---|---|---|
| `TypeCorrect` | `FifoBram_proofs` | `Spec => []TypeOK` |
| `LimitsCorrect` | | `Spec => []StateTellsTheLimits` [more than two places] |
| `FifoImplemented` | | `Spec => ImplementsFifo` [more than two places] |
| `OldestShown` | | `Spec => []ShowsTheOldestWord` [more than two places] |
| `LinkTypeCorrect` | `SerialLink_proofs` | `Spec => []TypeOK` [`WordAssumption`: two data bits or more; `ToleranceAssumption`] |
| `LinkDelivers` | | `Spec => []DeliversWhatWasSent` [the same] |
| `NanoTypeCorrect` | `NanoBlaze_proofs` | `Spec => []TypeOK` |
| `PipelineCorrect` | | `Spec => []Pipeline` |
| `OneSlot` | | `Spec => OneSlotPerBranch` |
| `IsaImplemented` | | `Spec => ImplementsIsa` |
| `CallersCorrect` | | `CallsSpec => []CallersOnStack` |
| `ReturnsCorrect` | | `CallsSpec => ReturnsToCaller` |
| `ArithmeticInvariant` | `NanoArithmetic_proofs` | `Spec => []ArithmeticInv` [`CircuitAssumption`, `PowersAssumption`, also for the following] |
| `SumsOfWords` | | `Spec => []SumsAndDifferences` |
| `ShiftsOfWords` | | `Spec => []ShiftedNumbers` |
| `ProductsOfWords` | | `Spec => []Products` |
| `MorseTypeCorrect` | `MorseListener_proofs` | `Spec => []TypeOK` |
| `MachinesCorrect` | | `Spec => []OneMachineAtATime` |
| `LettersHeard` | | `ListenerSpec => []LettersAreHeard` [`ListenerAssumption`: a unit of six periods or more] |
| `WordsHeard` | | `ListenerSpec => []WordsAreApart` [the same] |
| `OldestIsSent` | `MorseEncoder_proofs` | `EncoderSpec => []SendsTheOldest` [more than two places] |
| `CharacterHeld` | | `EncoderSpec => CharacterIsHeld` [more than two places] |
| `Invariant` | `NeoAlu_proofs` | `Spec => []IInv` [`WordSizes`, `PowersOfTwo`, `AmountBits`, `FloatSizes`, `ProgramsAssumption`, also for the following] |
| `AnswersAwaited` | | `Spec => []AnswersAreAwaited` |
| `IllegalMasked` | | `Spec => []IllegalIsMasked` |
| `ShifterIsCoProcessor` | | `Spec => ShifterKeepsContract` |
| `BitmanipIsCoProcessor` | | `Spec => BitmanipKeepsContract` |
| `FpuIsCoProcessor` | | `Spec => FpuKeepsContract` |
| `Answering` | | `Spec => []Holds` |
| `BaseOperationsAreThoseOfC` | | `Spec => []BaseOperations` |
| `BitmanipIsEmulated` | | `Spec => []BitmanipLikeEmulated` |
| `ComparisonsAreEmulated` | | `Spec => []ComparisonsLikeEmulated` |
| `NeoTypeCorrect` | | `Spec => []TypeOK` [also `RegisterPowers`] |
| `UnitsWorkAlone` | | `Spec => []OneUnitAtATime` [also `RegisterPowers`] |
| `ConversionsAreEmulated` | `NeoFloats_proofs` | `Spec => []ConversionsLikeEmulated` [also `RegisterPowers`] |
| `ProductsAreEmulated` | | `Spec => []ProductsLikeEmulated` [also `RegisterPowers`] |
| `SumsAreEmulated` | | `Spec => []SumsLikeEmulated` [also `RegisterPowers`] |
| `FlagsAreEmulated` | | `Spec => []FloatFlags` [also `RegisterPowers`] |

*FIFO.* The type invariant is inductive. `StateTellsTheLimits` needs to know how far
the counters are apart in `sWriteFirst` (one place), which is where two places are
too few: behind `sWriteFirst` a second write fills a FIFO of two in a state that is
not followed by the test for full in all branches. For the refinement the queue is
the function `Queue` of counters, state and memory, and each edge is one of four
steps of the abstract queue: nothing, append, take, both. `OldestShown` rests on the
fact that a write never goes to the place of the oldest word (`OldestNotWritten`):
so the RAM's output, which is what the memory held one edge earlier, is that word
whenever it was there one edge earlier.

*Serial link.* `IInv` says for every place of a frame where each of the two clocks
stands relative to the edges of the word: how far the sender's divider is in the
bit, when the receiver has last seen an edge of the line, how many bits it has
sampled since and how many are left to come, and which bits of the word its register
holds. The receiver starts its divider again at every edge of the line, so the
distance between the two clocks grows by one bit's difference per bit without an
edge and goes back to zero at the next edge. `ToleranceAssumption` is what keeps a
sample inside of its bit for the longest stretch without an edge, a whole word. Nothing is
assumed of the word that is sent or of the pause before it.

*NanoBlaze.* `Pipeline` is the inductive invariant: the fetched word is one behind
the program counter, except in the discarded period and before the first decision
after the reset. The refinement maps a discarded period to the state in which the
abstract machine already stands at the target of the branch and the effects of the
slot are done; the edge that ends that period is then a stutter. `ALU` and
scratchpad addressing stay uninterpreted: the theorem holds for any of them.

*Calls.* The invariant says which places of the stack hold which caller, and that
in the period in which a RETURN is executed the registered output of the stack
already shows the top, because the call or return before it was a taken branch and
cost a period.

*Arithmetic.* These theorems are led on the sequential machine: `IsaImplemented` says
that a clock edge is one instruction of it or none, so that `ArithmeticInv` can say, for
each place of a program at which that machine may stand, what the registers and the
flags hold there. Of the additions it is the carry of the low words, with its weight;
of the shifts the bit under way. The loop of the multiplication has the invariant
`Multiplying`: with `k` steps to go, `s5` holds the `k` high bits of the first factor,
`s0` the same below the low bits of the product, and the product of the bits done so far
stands in `s1` and in the top of `s0`; `Step` is the same within a step, with the carry
of the addition above `s1`. That a taken branch still executes the flags of the place
behind it is where the second LOAD of the program is needed (`JumpStep`).
`CircuitAssumption` gives the processor the ALU of `NanoAlu`, words of `w` bits, seven
registers and a memory in which the programs have room; `PowersAssumption` is that
`2 ^ n` doubles with `n`, which holds of every `w` but is an induction.

*Morse.* `TypeOK` and `OneMachineAtATime` are proved from `Inv`: a sender is active
only while the character machine asks for its symbol (`SendersObey`), and the
counter counts exactly when one of the machines waits for it and not past what that
machine asks (`CounterServes`). The second is needed for the first: a machine that
found the counter running would be done too soon. It also gives `unitNbCounter <= 3`
for a register of three bits that nothing else stops at 3.

*Morse listener.* First the tree of `nxt_Charstate` is compared with the Morse code,
branch by branch (`TreeIsRight`): behind every beginning of a code the tree goes on
with its next symbol, and stops where the code ends. Then `ListenerInv` ties the
listener to the machines: `Spelling` says that the letter heard so far, with the mark
or the pause that is on, is the beginning of the code that the character machine has
sent; the lengths of marks and silences are given by `Elapsed`, which reads the two
counters as one clock. With a unit of `U` periods a dot lasts `U`, a dash `3U + 2`, the
pause between two symbols `U + 5`, the one behind a letter `3U` at least; the listener
divides all of them at `2U`, which is where a unit of six periods comes from.

*Morse encoder.* `EncoderInv` joins the invariant of the FIFO with `CharacterShown`:
while the controller works on a character, the FIFO holds a word and its output shows
the place at the read counter. The controller reads only at the end of a character,
and a write cannot touch the place of the oldest word. The proof
thereby discharges `Held`, which the proofs about the controller alone assume.

*ALU of the NEORV32.* `IInv` has four parts: the shape of the records, the states of
the bit manipulation unit and of the FPU in which they answer, and `Awaited`: unless
an operation was abandoned, a co-processor that runs or is started is the one the
execute engine waits for. The last is what makes `AnswersAreAwaited` inductive: an
answer comes from a unit that was started, and while the engine waits the command is
there, so that nothing else is started. The contracts need no more than each unit's
own controller, so they hold after trapped instructions too. `IllegalIsMasked` rests
on a history of its own: with interrupts off only the exception itself starts a trap,
and a trap is not entered before DISPATCH, which is after the write. The theorems hold
for words of 32 bits and floats of 8 and 23 as for those of the run.

*What the NEORV32 computes.* The circuit describes an operation as a process of many
periods, the C function as a loop or an expression over the whole word. `Holds` is the
invariant between them. `Operands`: what the register file shows is what the waiting
instruction reads. As long as nothing was abandoned, `Shifting`, `BitmanipHeld` and
`FloatHeld` say that a unit at work has these operands and how far it is: the serial
shifter holds the operand moved by the places it has done (`Progress`), the counter of
the bit manipulation unit the ones that have left the shift register. `Answered` says
what stands on the result bus when the instruction writes. The three theorems compare
that with the emulation, operation by operation, and for `ror`, `rol` and `rori` on the
register numbers that the decoding spares. The results of the units are put together by
OR, so that each proof also needs the other units to be silent (`AnswersAreAwaited`).

Numbers are folds over their bits in the model. The first part of **NeoAlu_proofs**
proves what the provers cannot see of them: a word is determined by its bits, a sum of
powers has the bits it is made of, shifts, rotations and complements move them. The
induction this needs is `Induction`, which takes its predicate as the set of those who
satisfy it, so that well-foundedness of the proper subsets of a finite set (a theorem of
the library) can be used without an operator for a parameter. `PowersOfTwo` remains an
assumption (`2 ^ n` doubles with `n`), as `NanoArithmetic`'s; TLC evaluates it.
`AmountBits` says that a word has 16 to 512 bits and a power of two of them: the lower
bits of an immediate are then the number of places. Floats are compared by sign and
magnitude: `FloatWord` and its parts are shown to be inverses, and the order of the
words of two floats of equal sign to be that of their magnitudes.

*Widths in the FPU.* `TypeOK` holds also after trapped instructions, when a unit works
with the operands of one instruction and the register shows another, so that it cannot
rest on what an instruction computes. Three facts are needed beside the widths
(`Typed`). `Phases`: which unit is at work follows from the operation latched at the
start and the periods since, so that no two units are (`OneUnitAtATime`), and the
operands stay while one of them is. The exponent of the smaller operand is counted up
only while it is below that of the larger (`AdderTypes`), which is what keeps the
counter from overflowing; the place where it stops is found as the two are equal, not
as one is greater. The normalizer shifts to the left only as long as nothing is at or
above the hidden one (`NormalizerRecord`): its register never loses a bit there. That a unit
is started only for its own operation needs `Controlled`: the command to a
co-processor is new in the first period of `ALU_WAIT` only, and the instruction register
holds still then. `RegisterPowers` extends `PowersOfTwo` to the width of the normalizer's
register.

*Conversions.* The function rounds an exact number once, the circuit shifts it place by
place for as many periods as its exponent says and keeps one bit, the sticky one, of all
that was shifted out. To an integer (`Converts`): `Converting` says for every state of
the converter what the integer and the mantissa in its registers are of the operand, that
an overflow seen on the way is one of the whole number, and that the sticky bit, which
the code sets before its bits are shifted out, decides the rounding rightly of all numbers
but those of `IsBetween`. From an integer (`Numbers`): while the highest one comes down to
the hidden bit, the register is `Sticky(8 * Scaled, 2 * 2 ^ t)` after `t` places, the exact
quotient with one bit for the remainder; one more shift is division by one more 2
(`StickyShifted`), and the last three bits tell where the remainder lies between two
places (`StickyBelow`), so that rounding them is rounding the quotient (`NearestEvenOf`).
A significand that rounding carries to the next place is shifted once more (`CarriedFrom`)
and is the same number. `SignificandOfC` and `RoundedInteger` bring C's result, found by a
search for the length of the integer, to the same quotient. That no exponent of an integer
is out of range rests on `FloatSizes`: there are floats above the largest integer.

*The normalizer.* Products and sums share one argument about the exact number `c` that
the normalizer has to round: `c` units, of which the counter's exponent for place 0 is `x`,
with the highest one at place `p` above the places of a significand. There are two cases,
and each has an invariant of its own. `IsExact`: the exponent `x + p` is one the counter
has. `Underway` says in every state what the register holds of `c`: before rounding
`Sticky(8 * c, 2 * 2 ^ t)` with `t` the place that the counter stands for; the sticky bit
tells all if at most one more place is to come, and if the number has farther to go to the
left, the register has all of it (`Coming`); after rounding, the number rounded to nearest
at `p` (`RoundedAt`), or the power of two that rounding has carried to and that a second
pass shifts once more (`CarriedTo`). `IsBelow`: the number is 0, or the counter passes 0
before the highest one comes to its place (`Sinking`). A counter that passes one of its
ends is noticed one period later; `Watched` says in which states the flag is still owed.
On the side of C, `RoundedNormal` writes a number that is rounded at the place of its
highest one as the word that has this significand and exponent, with infinity as the
limit; `RoundedSmall` says that one below the smallest normal number is denormal, and
flushed, or rounded up to exactly that number, which is the case that `SumLike` leaves
open.

*Products.* The exponent of a product may leave the range before normalization: what the
multiplier itself rejects is not `Ordinary`, and `Multiplying` gives its class and flags.
The rest is `Underway` with the exact product of the two significands, whose highest one
is at `MAN` or one place above.

*Sums.* The adder counts the exponent of the smaller operand up and shifts its
significand place by place, until both are equal (far apart, only the sticky bit is left):
`AdderAligns` says that the register is then what the code has after as many shifts
(`Alignment`), and `OperandExponents` bounds the count. `SumRegister` says that the sum of
the aligned significands is the exact sum, with one bit for all that was lost: a carry or
a borrow into the last place is the sticky bit's too. What the normalizer needs of it
depends on the distance of the exponents (`SumArrives`): at two or more (`FarSumArrives`)
the highest one of the sum is next to that of the larger operand, so that the sticky bit
and two places suffice; at one or none (`NearSumArrives`) a cancellation may bring up any
place, but nothing was lost. The number that reaches the normalizer is one that C rounds
to the same float as the exact sum (`GivesSum`). `Summing` carries this through the states of the
normalizer. `SumInC` and `SumOfNumbers` bring C's sum, which is made of integers with
signs, to the sizes and the sign of the adder; `SumCancels` is the exact zero, of which
the unit and C choose different signs.

*Flags.* The word alone does not tell them: a result can be that of C although the unit
missed or invented an exception. `Losing` is carried through the states of the normalizer
beside `Underway` and `Sinking`: it has rounded up only a number that is `Inexact` in C,
and where the counter has passed 0, bits below the last place are ones only if a denormal
loses them in C too. `Inexact` is about the exact number of C and not the register:
`GivesSum` therefore says of the aligned sum not only that C rounds it to the same float,
but also that what it loses the exact sum loses (`InexactScaled`). The range flags follow from the word: `NamesWord` says that the
normalizer flags an overflow exactly with infinity and an underflow exactly with zero, so
that `LikeRounded` can compare them with what C raises for the number it rounds.
`FlagsFit` is what remains of agreement for one operation, proved for the special classes
(`SpecialFits`), for products (`ProductFits`) and for sums (`SumFits`); `FlagsHeld` and
`FlagsAnswered` bring it from the last state of the normalizer to the instruction that
waits. `FloatFlags` says no more than holds: the exceptions are among those listed below.

*Only model-checked.* All liveness properties (`FirstWordOffered`, `EveryWordArrives`,
`EveryFrameEnds`, `EveryCharacterEnds`, `WaitingIsSent`, `EveryOperationEnds`): they need
fairness, which is out of the prover's reach. Every invariant of the passing runs is
stated by a theorem.

## 5. Findings

1. `fifo_bram_data`: the test bench takes `dataOut` as valid whenever it reads and
   `empty` is `'0'` (`fifo_tester_test.vhd:250`, `:334`). If the last word is read at
   the edge that writes the next, `empty` stays `'0'` while `dataOut` shows what the
   next place held before, for one period. The Morse encoder is not hurt: its
   controller looks at the character one period later (`SendsTheOldest`).
2. `fifo_bram_depth`: with a depth that is no power of two the counters address
   places outside of the memory's declaration; the Morse encoder uses depth 100.
3. `nanoblaze_discard`: the instruction behind a taken branch writes flags and
   scratchpad although the comment says it is discarded.
4. `nanoblaze_first`: the instruction at address 0 is executed twice after a reset,
   although the comment says it is not.
5. `neo_illegal`: an interrupt that becomes pending in the first period of an illegal
   co-processor instruction acknowledges its exception too; the comment "prevent
   commits if illegal instruction" (`neorv32_cpu_control.vhd:782`) does not hold then,
   the register is written and the exception is lost.

Noticed on the way and stated in the models: an untaken conditional CALL or RETURN
moves the stack pointer (`NanoIsa`, `NanoBlazeCalls`); a FIFO of two places loses
words; `sendDashDashDashDash4` is a latch (`Advance` keeps the state), which no
character that holds still ever needs; a dash lasts three units and two periods,
since the counter spends a period at 0 between two units.

Noticed in the NEORV32, each written into the property it limits or reproduced by
the model:

- The decoding that `neorv32_cpu_cp_bitmanip.vhd:155` calls one-hot is not: `ror` and
  `rol` with a register number, and `rori` with a number of places, that end in 000,
  001 or 010 are also taken for a count (`rol` with 100 or 101 for a sign extension),
  and the result is the OR of both. The intrinsics use register a1 and 20 places,
  which are spared; compiled code need not be.
- An instruction of the FPU's opcode that none of its units carries out (division,
  square root) traps, but leaves the FPU busy: the next float instruction waits for
  ever (`Hung` in `EveryOperationEnds`). A trapped `fadd.d` or shift answers during a
  later operation, against the comment of `neorv32_cpu_alu.vhd:231`; `abandoned` is
  the condition.
- `flt` of two equal negative numbers gives 1 (`ComparisonsLikeEmulated`).
- Conversions to integers: a tie is rounded to even by neither side consistently, as
  `roundf` rounds away from 0 and the hardware's sticky bit is set too early; the
  number behind one half loses its last place (`IsBetween`). Overflow, underflow and
  inexact are cleared by the converter's idle state before the output takes them.
- `x - x` has the sign of the first operand, and the emulated 0 is positive;
  a result that C rounds up to the smallest normal number is flushed (`SumLike`).
  Sums of two infinities of the same sign are flagged invalid, exact zeros as
  underflows, infinite operands of a product as overflows; inexact is flagged only if
  the result was rounded up (`FloatFlags` states what is left).
- The order of the flags (`neorv32_package.vhd:524-528`, invalid is bit 0) is that of
  `get_sw_exceptions` and the reverse of the RISC-V register. No program of the
  repository calls `get_hw_exceptions` or `get_sw_exceptions`.
- `riscv_emulate_clz` and `riscv_emulate_ctz` do not end for 0; `riscv_emulate_rol`
  and `riscv_emulate_ror` by 0 shift by the width of the word, which C leaves
  undefined.

## 6. Not modelled, and the plan

Simplifications. The inputs of the FIFO are free at every edge. `en` of the
NanoBlaze is `'1'` and IntF is not an instruction of the models. The word lengths of
the processor are small numbers in the runs and arbitrary in the proofs. Serial
lines carry no noise: there is no check in the receiver to compare with. The tone
that modulates the Morse line is left out. Values after power-up that a reset does
not clear (RAM, scratchpad, branch stack) are free or `Unset`.

NEORV32: the generics of the model are B and Zfinx on, M, E, C and debug off, which
is the processor the two test programs are for. There are no loads, branches or CSR
instructions between the ALU's; an interrupt is a request that may come at any edge
while interrupts are on. The rounding mode register is 0, as no program writes it,
and the intrinsics' own mode is 0; modes 1 to 3 are in `RoundingStep` but not run
(mode 2 would take one away where it should add nothing). The emulations of division,
square root and the fused operations are left out, as the processor traps these
instructions; the intrinsics themselves are in the runs, as illegal instructions. The
place of a field in an instruction word is not modelled.

Known hazards of the parts that are not modelled: the UART on the bus stores a word
while sending, has one receive register, and a scaler of 0 or 1 stops it
(`systemOnChip.vhd:3464`, `:3591`, `:3483`); data follow their address by one period
without wait states (`:2799`); the pattern size 0 after a reset wraps (`:1593`), and of
two adjacent writes to the pattern memory the second is lost (`:1756`); the flash
controller takes the address of a request it ignores (`flashController_RTL.vhd:31`); the
debouncer's output is neither synchronized nor inverted (`debouncer_RTL.vhd:76`); the
receiver checks no stop bit (`serialPortReceiver_rtl.vhd:113`); `en` at '0' does not
hold an untaken branch of the NanoBlaze (`controller_RTL.vhd:192`).

Order of the work, the most important behaviour first:

1. FIFO: circuit, promise, refinement, proofs — done.
2. NanoBlaze: sequencing, sequential machine, calls, arithmetic, proofs — done.
3. Serial link — done; Morse controller, listener, encoder — done, with proofs of
   all their safety properties.
4. NEORV32: execute engine, ALU, shifter, bit manipulation, FPU, against the
   intrinsics' emulations; proofs for the sequencing — done. Left: the multiplier and
   divider, loads and branches, CSR access to the flags, rounding modes 1 to 3.
5. AHB-Lite bus with GPIO and UART (`AhbBus`, `AhbGpio`, `AhbUart`, composed with a
   free master in `BeamerBus`): a read returns the register that was addressed, a
   write reaches one peripheral; a word written while the UART is idle is sent, a
   word received is read once or reported by nobody. One run with two addresses per
   peripheral and words of two bits; theorem: the peripheral that answers is the one
   that was addressed.
6. Beamer registers (`BeamerRegisters`: address counter and write control of the
   pattern memory) and, if the state space allows it, the receive loop of the
   firmware against the UART.
7. The other FIFOs against `Fifo`, flash controller, debouncer.
8. More proofs: the arithmetic programs of the NanoBlaze for every word length —
   done; what the NEORV32 computes in base operations, bit manipulation, comparisons
   and conversions, and the widths of its registers — done; products and sums of floats — done. Left:
   the flags; then the bus.
