----------------------------- MODULE SerialLink -----------------------------
(***************************************************************************)
(* A transmitter and a receiver on the two ends of a line. Each has its    *)
(* own divider: their bits need not have the same length, as the clocks of *)
(* a computer and of the board have not. The sender looks at busy before   *)
(* it sends, as the decoder of the Morse circuit does. pending holds the   *)
(* words sent and not yet received; it is no part of the circuit.          *)
(***************************************************************************)
EXTENDS SerialPortTransmitter, SerialPortReceiver, Sequences

CONSTANT TxDivides   \* the lengths a bit of the sender may have

ASSUME DividesAssumption == TxDivides \subseteq Nat \ {0}

\* A receiver of words of one bit calls every sample a word: its counter rests
\* at the number of the last bit.
ASSUME WordAssumption == dataBitNb >= 2

\* From an edge of the line to the sample of its bit, in clock periods.
halfBit == rxDivide - rxDivide \div 2

\* How much the two ends may differ. A word may have no edge between the first of
\* its places and the last: then the samples of dataBitNb + 1 bits drift away
\* from their middle, neither into the bit before nor into the bit behind.
ASSUME ToleranceAssumption ==
    \A divide \in TxDivides :
        /\ (dataBitNb + 1) * divide <= (dataBitNb + 1) * rxDivide + halfBit
        /\ dataBitNb * rxDivide + halfBit < (dataBitNb + 1) * divide

VARIABLE pending

vars == <<txVars, rxVars, pending>>

Init ==
    /\ txDivide \in TxDivides
    /\ TxInit
    /\ RxInit
    /\ pending = <<>>

\* One clock period in which a word is sent or not, and one may be delivered.
Cycle(send, dataIn) ==
    LET left == IF rxDataValid /\ pending # <<>> THEN Tail(pending) ELSE pending
    IN  /\ TxCycle(send, dataIn)
        /\ RxCycle(TxD)
        /\ pending' = IF send THEN Append(left, dataIn) ELSE left

\* Bounds the record when words are lost; TypeOK says that it is never reached.
PendingBound == 2

Send ==
    /\ ~txBusy /\ Len(pending) < PendingBound
    /\ \E dataIn \in Words : Cycle(TRUE, dataIn)

Wait == Cycle(FALSE, txData)

Next == Send \/ Wait

\* The clock never stops.
Spec == Init /\ [][Next]_vars /\ WF_vars(Next)
-----------------------------------------------------------------------------
TypeOK == TxTypeOK /\ RxTypeOK /\ Len(pending) <= 1

\* Every strobe of the receiver brings the oldest word that was sent: no word is
\* delivered twice, out of order, with bits of another one or out of the noise
\* of the line after the reset, for any word and any pause between two words.
DeliversWhatWasSent ==
    rxDataValid => pending # <<>> /\ rxShiftReg = Head(pending)

\* Every word that is sent arrives.
EveryWordArrives == pending # <<>> ~> rxDataValid

\* After every word the sender is free again: the end flag leaves the register.
EveryFrameEnds == txBusy ~> ~txBusy
=============================================================================
