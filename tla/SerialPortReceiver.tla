------------------------- MODULE SerialPortReceiver -------------------------
(***************************************************************************)
(* The receiver of the serial port (RS232.serialPortReceiver): a divider   *)
(* that every edge of the line sets to the middle of a bit, a shift        *)
(* register that samples the line and a counter of the bits of a word.     *)
(***************************************************************************)
EXTENDS SerialWord

CONSTANT rxDivide    \* the generic baudRateDivide, in clock periods

ASSUME RxDivideAssumption == rxDivide \in Nat /\ rxDivide >= 2

VARIABLES rxDividerCounter, rxDelayed, rxShiftReg, rxReceiving, rxDataValid,
          rxCounter

rxVars ==
    <<rxDividerCounter, rxDelayed, rxShiftReg, rxReceiving, rxDataValid, rxCounter>>

\* Mutant: the divider goes past its end at an edge.
ResynchronizedAtEnd == rxDivide

\* The count an edge of the line sets.
Resynchronized == rxDivide \div 2

RxInit ==
    /\ rxDividerCounter = 0
    /\ rxDelayed = FALSE
    /\ rxShiftReg = [place \in Bits |-> FALSE]
    /\ rxReceiving = FALSE
    /\ rxDataValid = FALSE
    /\ rxCounter = 0

\* The line is sampled at the end of a count that no edge interrupts.
rxSample(RxD) == rxDividerCounter = rxDivide - 1 /\ RxD = rxDelayed

\* detectReceive: the word is complete with the sample of its last bit, and
\* valid for one period.
detectReceive(RxD) ==
    CASE rxSample(RxD) /\ rxCounter = dataBitNb - 1 ->
           rxDataValid' = TRUE /\ UNCHANGED rxReceiving
      [] rxSample(RxD) /\ rxCounter # dataBitNb - 1 ->
           rxReceiving' = (rxReceiving \/ ~RxD) /\ UNCHANGED rxDataValid
      [] ~rxSample(RxD) /\ rxDataValid ->
           rxReceiving' = FALSE /\ rxDataValid' = FALSE
      [] ~rxSample(RxD) /\ ~rxDataValid ->
           UNCHANGED <<rxReceiving, rxDataValid>>

\* One rising edge: divide, delayRx, shiftReg, detectReceive and countRxBitNb.
RxCycle(RxD) ==
    /\ rxDividerCounter' = CASE RxD # rxDelayed -> Resynchronized
                             [] rxSample(RxD)   -> 0
                             [] OTHER           -> rxDividerCounter + 1
    /\ rxDelayed' = RxD
    /\ rxShiftReg' =
         IF rxSample(RxD)
         THEN [place \in Bits |->
                 IF place = dataBitNb - 1 THEN RxD ELSE rxShiftReg[place + 1]]
         ELSE rxShiftReg
    /\ detectReceive(RxD)
    /\ rxCounter' = CASE rxSample(RxD) /\ rxReceiving  -> rxCounter + 1
                      [] rxSample(RxD) /\ ~rxReceiving -> 0
                      [] ~rxSample(RxD)                -> rxCounter

RxTypeOK ==
    /\ rxDividerCounter \in 0 .. rxDivide - 1
    /\ rxDelayed \in BOOLEAN
    /\ rxShiftReg \in Words
    /\ rxReceiving \in BOOLEAN /\ rxDataValid \in BOOLEAN
    /\ rxCounter \in 0 .. dataBitNb
=============================================================================
