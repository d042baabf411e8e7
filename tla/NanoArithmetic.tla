--------------------------- MODULE NanoArithmetic ---------------------------
(***************************************************************************)
(* Numbers of two words on the NanoBlaze: programs that read two numbers   *)
(* from the ports and add, subtract, shift or multiply them with the ALU   *)
(* of the circuit, word after word through the carry that the controller   *)
(* saves. A program that is through loops in place, with its result in the *)
(* registers s1 (high word) and s0 and a copy of the first number in s5    *)
(* and s4. The programs are inputs of the circuit, not parts of it.        *)
(***************************************************************************)
EXTENDS NanoBlaze, NanoAlu, Sequences

Immediate(op, a, k) ==
    [op |-> op, two |-> FALSE, a |-> a, b |-> 0, k |-> k, cond |-> "Aw",
     address |-> 0, shift |-> [right |-> FALSE, bit |-> "0"]]
TwoRegisters(op, a, b) == [Immediate(op, a, 0) EXCEPT !.two = TRUE, !.b = b]
ShiftBy(right, bit, a) ==
    [Immediate("ShRot", a, 0) EXCEPT !.shift = [right |-> right, bit |-> bit]]
JumpTo(cond, target) ==
    [Immediate("Jump", 0, 0) EXCEPT !.cond = cond, !.address = target]

ReadNumbers ==
    << Immediate("Input", 0, 0), Immediate("Input", 1, 0),
       Immediate("Input", 2, 0), Immediate("Input", 3, 0),
       TwoRegisters("Load", 4, 0), TwoRegisters("Load", 5, 1) >>

\* s0 times s2, by w additions and shifts. The flags that are needed behind a
\* branch may not be changed in the place after it: hence the second LOAD s6.
Multiplication ==
    << TwoRegisters("Load", 5, 0), Immediate("Load", 3, w), Immediate("Load", 1, 0),
       ShiftBy(TRUE, "0", 5),                                       \* address 9
       JumpTo("NC", 14), TwoRegisters("Add", 1, 2),
       JumpTo("Aw", 15), Immediate("Load", 6, 0),
       Immediate("Add", 1, 0),                                      \* 14
       ShiftBy(TRUE, "cIn", 1), ShiftBy(TRUE, "cIn", 0),            \* 15
       Immediate("Sub", 3, 1), JumpTo("NZ", 9) >>

Bodies ==
    [sum      |-> << TwoRegisters("Add", 0, 2), TwoRegisters("AddCy", 1, 3) >>,
     difference |-> << TwoRegisters("Sub", 0, 2), TwoRegisters("SubCy", 1, 3) >>,
     left     |-> << ShiftBy(FALSE, "0", 0), ShiftBy(FALSE, "cIn", 1) >>,
     right    |-> << ShiftBy(TRUE, "0", 1), ShiftBy(TRUE, "cIn", 0) >>,
     signed   |-> << ShiftBy(TRUE, "high", 1), ShiftBy(TRUE, "cIn", 0) >>,
     rotated  |-> << ShiftBy(TRUE, "low", 0), ShiftBy(FALSE, "high", 0),
                     ShiftBy(FALSE, "high", 1), ShiftBy(TRUE, "low", 1) >>,
     product  |-> Multiplication]

Halt(name) == Len(ReadNumbers) + Len(Bodies[name])

ProgramOf ==
    [name \in DOMAIN Bodies |->
        [address \in Address |->
            IF address < Halt(name) THEN (ReadNumbers \o Bodies[name])[address + 1]
            ELSE JumpTo("Aw", Halt(name))]]

ArithmeticPrograms == {ProgramOf[name] : name \in DOMAIN Bodies}

\* The program of that name has come to its end.
Done(name) ==
    fetched = Halt(name) /\ ~discardOpCode /\ rom = ProgramOf[name]

Number2(high, low) == 2 ^ w * registers[high] + registers[low]
CarryBit == Number(carrySaved)
Range2 == 2 ^ (2 * w)

\* The circuit that runs them: words of w bits, the ALU of NanoAlu, enough registers
\* and a memory with a place behind the longest program, which is fetched with the
\* loop at its end.
ASSUME CircuitAssumption ==
    /\ Word = Words /\ ZeroWord = 0
    /\ 0 .. 6 \subseteq Register
    /\ \A name \in DOMAIN Bodies : Halt(name) + 1 < AddressRange
    /\ \A program \in Programs, address \in Address, cIn \in BOOLEAN, a, b \in Word :
          /\ AluResult(program[address], cIn, a, b) = aluOut(program[address], cIn, a, b)
          /\ AluCarry(program[address], cIn, a, b) = cOut(program[address], cIn, a, b)

\* Words have a bit, and powers of two are what they are.
ASSUME PowersAssumption ==
    /\ w \in Nat \ {0}
    /\ \A n \in 0 .. w : 2 ^ n \in Nat \ {0} /\ 2 ^ (n + 1) = 2 * 2 ^ n
    /\ Range2 = 2 ^ w * 2 ^ w

Result == Number2(1, 0)
First == Number2(5, 4)
Second == Number2(3, 2)
-----------------------------------------------------------------------------
\* ADD and ADDCY, SUB and SUBCY make a sum and a difference of two words: the
\* carry is the one of the whole sum and the borrow of the whole difference, so
\* that it tells which of the two numbers is larger (alu lines 25 to 29 and 79
\* to 98, controller lines 143 to 156).
SumsAndDifferences ==
    /\ Done("sum") => Result + Range2 * CarryBit = First + Second
    /\ Done("difference") => /\ Result = (First - Second) % Range2
                             /\ carrySaved = (First < Second)

\* A shift of two words through the carry doubles or halves the number, with or
\* without its sign, and a word rotated there and back is the same word: the
\* carry is the bit that left, and rotations lose none (alu lines 31 to 40 and
\* 99 to 104).
ShiftedNumbers ==
    /\ Done("left") => Result + Range2 * CarryBit = 2 * First
    /\ Done("right") => 2 * Result + CarryBit = First
    /\ Done("signed") =>
         2 * Result + CarryBit
           = First + IF First >= Range2 \div 2 THEN Range2 ELSE 0
    /\ Done("rotated") => Result = First

\* Multiplication by shifts and additions: the flags stay those of the last
\* operation over conditional branches, loads and the loop (controller lines
\* 124 to 214 with the ALU).
Products == Done("product") => Result = registers[4] * registers[2]
=============================================================================
