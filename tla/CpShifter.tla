------------------------------ MODULE CpShifter ------------------------------
(***************************************************************************)
(* Co-processor 0, the shifter of the base instructions. Without           *)
(* FAST_SHIFT_EN it shifts by one position in a period, with it all at     *)
(* once. A step is a rising edge; start, rs1 and the others are what the   *)
(* inputs are before it.                                                   *)
(***************************************************************************)
EXTENDS BitWords

VARIABLE shifter     \* busy, busy_ff, sreg, cnt; result is res_o of the fast one

ShifterInit == shifter = [busy |-> FALSE, busy_ff |-> FALSE, sreg |-> 0, cnt |-> 0,
                          result |-> 0]

\* A shift to the right of a number with its sign is the complement of the
\* shift of its complement.
ShiftedRight(word, n, arithmetic) ==
    IF arithmetic /\ Bit(word, XLEN - 1) = 1 THEN Not(ShiftRight(Not(word), n))
    ELSE ShiftRight(word, n)

Shifted(word, n, right, arithmetic) ==
    IF right THEN ShiftedRight(word, n, arithmetic) ELSE ShiftLeft(word, n)

\* Mutant: a shift by 0 waits for the counter to come to 1.
ShifterDoneAtOne == shifter.cnt = 1

ShifterDone == shifter.cnt \in {0, 1}

\* Mutant: the counter goes on at 0.
SerialShifterClockBelowZero(start, rs1, shamt, right, arithmetic) ==
    shifter' = [busy    |-> start \/ (shifter.busy /\ ~ShifterDone),
                busy_ff |-> shifter.busy,
                sreg    |-> IF start THEN rs1 ELSE Shifted(shifter.sreg, 1, right, arithmetic),
                cnt     |-> IF start THEN shamt ELSE shifter.cnt - 1,
                result  |-> 0]

SerialShifterClock(start, rs1, shamt, right, arithmetic) ==
    shifter' = [busy    |-> start \/ (shifter.busy /\ ~ShifterDone),
                busy_ff |-> shifter.busy,
                sreg    |-> CASE start -> rs1
                              [] ~start /\ shifter.cnt # 0 ->
                                    Shifted(shifter.sreg, 1, right, arithmetic)
                              [] OTHER -> shifter.sreg,
                cnt     |-> CASE start -> shamt
                              [] ~start /\ shifter.cnt # 0 -> shifter.cnt - 1
                              [] OTHER -> 0,
                result  |-> 0]

BarrelShifterClock(start, rs1, shamt, right, arithmetic) ==
    shifter' = [shifter EXCEPT !.result =
                  IF start THEN Shifted(rs1, shamt, right, arithmetic) ELSE 0]

ShifterClock(fast, start, rs1, shamt, right, arithmetic) ==
    IF fast THEN BarrelShifterClock(start, rs1, shamt, right, arithmetic)
    ELSE SerialShifterClock(start, rs1, shamt, right, arithmetic)

\* valid_o and res_o. The barrel shifter answers in the period of the start.
ShifterValid(fast, start) ==
    IF fast THEN start ELSE shifter.busy /\ ShifterDone

\* Mutant: the output shows the shift register whenever it is not shifting.
ShifterResultUngated(fast) ==
    IF fast THEN shifter.result ELSE IF shifter.busy THEN 0 ELSE shifter.sreg

ShifterResult(fast) ==
    CASE fast -> shifter.result
      [] ~fast /\ ~shifter.busy /\ shifter.busy_ff -> shifter.sreg
      [] OTHER -> 0
=============================================================================
