------------------------ MODULE SerialPortTransmitter ------------------------
(***************************************************************************)
(* The transmitter of the serial port (RS232.serialPortTransmitter): a     *)
(* divider for the baud rate and a shift register with start bit, data,    *)
(* stop bits and, in its highest place, a '0' that marks the end of the    *)
(* frame: when only that place is left '0' the frame is over, and the time *)
(* it spends in place 0 is the last stop bit. One bit of TRUE is '1'.      *)
(***************************************************************************)
EXTENDS SerialWord

CONSTANT stopBitNb   \* stop bits of a frame

ASSUME StopBitAssumption == stopBitNb \in Nat \ {0}

VARIABLES txDivide,        \* the generic baudRateDivide, in clock periods
          txDividerCounter, txData, send1, txShiftReg

txVars == <<txDivide, txDividerCounter, txData, send1, txShiftReg>>

Places == 0 .. dataBitNb + stopBitNb
high == dataBitNb + stopBitNb
AllOnes == [place \in Places |-> TRUE]

\* Mutant: the end flag is missing.
FrameWithoutEnd(word) ==
    [place \in Places |->
        CASE place = 0               -> FALSE
          [] place \in 1 .. dataBitNb -> word[place - 1]
          [] place > dataBitNb       -> TRUE]

\* The frame that shiftReg loads.
Frame(word) ==
    [place \in Places |->
        CASE place \in {0, high}     -> FALSE
          [] place \in 1 .. dataBitNb -> word[place - 1]
          [] place > dataBitNb /\ place < high -> TRUE]

\* Mutant: the register fills with '0'.
ShiftedWithZeros(reg) ==
    [place \in Places |-> IF place = high THEN FALSE ELSE reg[place + 1]]

\* The register one place on, filled with '1'.
Shifted(reg) == [place \in Places |-> IF place = high THEN TRUE ELSE reg[place + 1]]

\* Mutant: a new word does not restart the divider.
txShiftEnableFree == txDividerCounter = txDivide

txShiftEnable == txDividerCounter = txDivide \/ send1

txSendingByte == \E place \in 1 .. high : ~txShiftReg[place]
txSendingByteAndStop == txShiftReg # AllOnes

TxD == txSendingByte => txShiftReg[0]

\* busy, up to the input send itself.
txBusy == txSendingByteAndStop \/ send1

TxInit ==
    /\ txDividerCounter = 0
    /\ txData = [place \in Bits |-> TRUE]
    /\ send1 = FALSE
    /\ txShiftReg = AllOnes

\* One rising edge: divide, storeData, delaySend and shiftReg.
TxCycle(send, dataIn) ==
    /\ txDividerCounter' = IF txShiftEnable THEN 1 ELSE txDividerCounter + 1
    /\ txData' = IF send THEN dataIn ELSE txData
    /\ send1' = send
    /\ txShiftReg' = CASE txShiftEnable /\ send1  -> Frame(txData)
                       [] txShiftEnable /\ ~send1 -> Shifted(txShiftReg)
                       [] ~txShiftEnable          -> txShiftReg
    /\ UNCHANGED txDivide

TxTypeOK ==
    /\ txDividerCounter \in 0 .. txDivide
    /\ txData \in Words
    /\ send1 \in BOOLEAN
    /\ txShiftReg \in [Places -> BOOLEAN]
=============================================================================
