------------------------------ MODULE CpBitmanip ------------------------------
(***************************************************************************)
(* Co-processor 2, the bit manipulation unit. The operations that count or *)
(* rotate run in a shifter of one position in a period, or, with           *)
(* FAST_SHIFT_EN, in a single period; all others answer at once.           *)
(***************************************************************************)
EXTENDS BitWords, CpuDecode

VARIABLES
    bitmanip,   \* controller: state, start, valid, cmd, less, rs1, rs2, sha; res_o
    bitshift    \* its shifter: sreg, cnt, cnt_max, bcnt

BitmanipInit ==
    /\ bitmanip = [state |-> "S_IDLE", start |-> FALSE, valid |-> FALSE, cmd |-> {},
                   less |-> FALSE, rs1 |-> 0, rs2 |-> 0, sha |-> 0, result |-> 0]
    /\ bitshift = [sreg |-> 0, cnt |-> 0, cnt_max |-> 0, bcnt |-> 0]

\* The operations an instruction is decoded as. Only as many bits are looked at
\* as tell the legal instructions apart, so the tests may have several answers.
Operations == {"andn", "orn", "xnor", "max", "min", "zexth", "orcb", "clz", "ctz", "cpop",
               "sextb", "sexth", "rol", "ror", "rev8", "sh1add", "sh2add", "sh3add"}

DecodedAs(i, op) ==
    LET group  == Bits(i.funct7, 5, 4)
        bit7   == Bits(i.funct7, 2, 2)
        counts == group = \b11 /\ bit7 = 0
        f3     == i.funct3
        number == Bits(i.rs2, 2, 0)
    IN  CASE op = "andn"   -> group = \b10 /\ Bits(f3, 1, 0) = \b11
          [] op = "orn"    -> group = \b10 /\ Bits(f3, 1, 0) = \b10
          [] op = "xnor"   -> group = \b10 /\ Bits(f3, 1, 0) = \b00
          [] op = "max"    -> group = \b00 /\ Bits(i.funct7, 0, 0) = 1 /\ Bits(f3, 1, 1) = 1
          [] op = "min"    -> group = \b00 /\ Bits(i.funct7, 0, 0) = 1 /\ Bits(f3, 1, 1) = 0
          [] op = "zexth"  -> group = \b00 /\ Bits(i.funct7, 0, 0) = 0
          [] op = "orcb"   -> group = \b01 /\ bit7 = 1
          [] op = "clz"    -> counts /\ number = \b000
          [] op = "ctz"    -> counts /\ number = \b001
          [] op = "cpop"   -> counts /\ number = \b010
          [] op = "sextb"  -> counts /\ Bits(f3, 2, 2) = 0 /\ number = \b100
          [] op = "sexth"  -> counts /\ Bits(f3, 2, 2) = 0 /\ number = \b101
          [] op = "rol"    -> counts /\ f3 = \b001 /\ Bits(i.opcode, 5, 5) = 1
          [] op = "ror"    -> counts /\ f3 = \b101
          [] op = "rev8"   -> group = \b11 /\ bit7 = 1
          [] op = "sh1add" -> group = \b01 /\ bit7 = 0 /\ Bits(f3, 2, 1) = \b01
          [] op = "sh2add" -> group = \b01 /\ bit7 = 0 /\ Bits(f3, 2, 1) = \b10
          [] op = "sh3add" -> group = \b01 /\ bit7 = 0 /\ Bits(f3, 2, 1) = \b11

Decoded(i) == {op \in Operations : DecodedAs(i, op)}

\* Mutant: the population count answers at once.
MultiCycleWithoutCpop == {"clz", "ctz", "ror", "rol"}

MultiCycle == {"clz", "ctz", "cpop", "ror", "rol"}

\* coprocessor_ctrl
BitmanipIdle(fast, start, i, less, rs1, rs2, shamt) ==
    LET shifts == Decoded(i) \intersect MultiCycle # {}
        latched == [bitmanip EXCEPT !.less = less, !.cmd = Decoded(i), !.rs1 = rs1,
                                    !.rs2 = rs2, !.sha = shamt]
    IN  CASE ~start -> [bitmanip EXCEPT !.valid = FALSE]
          [] start /\ ~shifts -> [latched EXCEPT !.valid = TRUE]
          [] start /\ shifts /\ ~fast ->
                [latched EXCEPT !.valid = FALSE, !.start = TRUE, !.state = "S_START_SHIFT"]
          [] start /\ shifts /\ fast ->
                [latched EXCEPT !.valid = FALSE, !.state = "S_BUSY_SHIFT"]

\* The shifter goes on until ...
ShiftRuns(fast) ==
    /\ ~fast
    /\ IF bitmanip.cmd \intersect {"clz", "ctz"} # {} THEN Bit(bitshift.sreg, 0) = 0
       ELSE bitshift.cnt # bitshift.cnt_max

\* Mutant: the shifter is not waited for, valid comes with its start.
BitmanipControlEarly(fast, start, i, less, rs1, rs2, shamt) ==
    CASE bitmanip.state = "S_IDLE" -> BitmanipIdle(fast, start, i, less, rs1, rs2, shamt)
      [] bitmanip.state = "S_START_SHIFT" ->
            [bitmanip EXCEPT !.start = FALSE, !.valid = TRUE, !.state = "S_BUSY_SHIFT"]
      [] bitmanip.state = "S_BUSY_SHIFT" ->
            IF ShiftRuns(fast) THEN bitmanip
            ELSE [bitmanip EXCEPT !.valid = TRUE, !.state = "S_IDLE"]

BitmanipControl(fast, start, i, less, rs1, rs2, shamt) ==
    CASE bitmanip.state = "S_IDLE" -> BitmanipIdle(fast, start, i, less, rs1, rs2, shamt)
      [] bitmanip.state = "S_START_SHIFT" ->
            [bitmanip EXCEPT !.start = FALSE, !.state = "S_BUSY_SHIFT"]
      [] bitmanip.state = "S_BUSY_SHIFT" ->
            IF ShiftRuns(fast) THEN bitmanip
            ELSE [bitmanip EXCEPT !.valid = TRUE, !.state = "S_IDLE"]

\* The counters have one bit more than a number of a position.
SerialBitshift(fast) ==
    LET cmd == bitmanip.cmd
        lowest == Bit(bitshift.sreg, 0)
        new_bit == IF \/ cmd \intersect {"ror", "rol"} # {} /\ lowest = 1
                      \/ cmd \intersect {"clz", "ctz"} # {}
                   THEN 1 ELSE 0
    IN  CASE bitmanip.start ->
               [sreg    |-> IF cmd \intersect {"clz", "rol"} # {} THEN Reversed(bitmanip.rs1)
                            ELSE bitmanip.rs1,
                cnt     |-> 0,
                cnt_max |-> IF "cpop" \in cmd THEN XLEN ELSE bitmanip.sha,
                bcnt    |-> 0]
          [] ~bitmanip.start /\ ShiftRuns(fast) ->
               [bitshift EXCEPT !.sreg = new_bit * 2 ^ (XLEN - 1) + ShiftRight(@, 1),
                                !.cnt  = (@ + 1) % (2 * XLEN),
                                !.bcnt = (@ + lowest) % (2 * XLEN)]
          [] OTHER -> bitshift

RotatedRight(word, n) == ShiftRight(word, n) + Low(word, n) * 2 ^ (XLEN - n)
LeadingZeros(word) ==
    Cardinality({j \in Positions : \A k \in j .. XLEN - 1 : Bit(word, k) = 0})
TrailingZeros(word) == Cardinality({j \in Positions : word % 2 ^ (j + 1) = 0})

FastBitshift ==
    [bitshift EXCEPT
       !.bcnt = Cardinality(Ones(bitmanip.rs1)),
       !.cnt  = IF "clz" \in bitmanip.cmd THEN LeadingZeros(bitmanip.rs1)
                ELSE TrailingZeros(bitmanip.rs1),
       !.sreg = IF "rol" \in bitmanip.cmd THEN RotatedRight(Reversed(bitmanip.rs1), bitmanip.sha)
                ELSE RotatedRight(bitmanip.rs1, bitmanip.sha)]

\* res_int. The amount added to is shifted by what funct3 is now.
ShiftedAdd(i) ==
    LET places == IF Bits(i.funct3, 2, 1) = 0 THEN 1 ELSE Bits(i.funct3, 2, 1)
    IN  (bitmanip.rs2 + ShiftLeft(bitmanip.rs1, places)) % 2 ^ XLEN

OrCombined(word) ==
    WordOf({j \in Positions : \E k \in Positions : k \div BYTE = j \div BYTE /\ Bit(word, k) = 1})
ByteSwapped(word) ==
    WordOf({(3 - (j \div BYTE)) * BYTE + (j % BYTE) : j \in Ones(word)})

OperationResult(op, i) ==
    LET rs1 == bitmanip.rs1
        rs2 == bitmanip.rs2
    IN  CASE op = "andn" -> And(rs1, Not(rs2))
          [] op = "orn" -> Or(rs1, Not(rs2))
          [] op = "xnor" -> Xor(rs1, Not(rs2))
          [] op \in {"clz", "ctz"} -> bitshift.cnt
          [] op = "cpop" -> bitshift.bcnt
          [] op \in {"min", "max"} -> IF bitmanip.less # ("max" \in bitmanip.cmd) THEN rs1 ELSE rs2
          [] op = "sextb" -> SignExtended(rs1, BYTE)
          [] op = "sexth" -> SignExtended(rs1, 2 * BYTE)
          [] op = "zexth" -> Low(rs1, 2 * BYTE)
          [] op = "ror" -> bitshift.sreg
          [] op = "rol" -> Reversed(bitshift.sreg)
          [] op = "orcb" -> OrCombined(rs1)
          [] op = "rev8" -> ByteSwapped(rs1)
          [] op \in {"sh1add", "sh2add", "sh3add"} -> ShiftedAdd(i)

\* The output is the OR of the results of all decoded operations.
SelectedResult(i) ==
    WordOf(UNION {Ones(OperationResult(op, i)) : op \in bitmanip.cmd})

BitmanipClock(fast, start, i, less, rs1, rs2, shamt) ==
    /\ bitmanip' = [BitmanipControl(fast, start, i, less, rs1, rs2, shamt)
                      EXCEPT !.result = IF bitmanip.valid THEN SelectedResult(i) ELSE 0]
    /\ bitshift' = IF fast THEN FastBitshift ELSE SerialBitshift(fast)
=============================================================================
