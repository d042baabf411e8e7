---------------------------- MODULE MorseEncoder ----------------------------
(***************************************************************************)
(* The Morse encoder (entity morseEncoder): the FIFO between the serial    *)
(* receiver, which writes a character when it has one, and charToMorse,    *)
(* which reads it when it has sent it. The receiver is left free: it may   *)
(* write any character at any edge, also when the FIFO is full, for it     *)
(* does not see the flag full. The initial state is the one after a reset. *)
(***************************************************************************)
EXTENDS FifoBram

CONSTANT unitCountDivide

VARIABLES presentChar, symbols, presentDot, presentDash, unitCounter, unitNbCounter

Encoder == INSTANCE CharToMorse
    WITH char <- dataOut, charNotReady <- empty_int, Characters <- Data \union {Unset}

encoderVars == <<vars, Encoder!circuitVars>>

EncoderInit == Init /\ Encoder!CircuitInit

\* One rising edge of both parts.
EncoderNext ==
    /\ \E characterValid \in BOOLEAN, characterIn \in Data :
           Cycle(characterValid, Encoder!readChar, characterIn)
    /\ Encoder!Circuit

\* The clock never stops.
EncoderSpec == EncoderInit /\ [][EncoderNext]_encoderVars /\ WF_encoderVars(EncoderNext)
-----------------------------------------------------------------------------
\* The FIFO keeps what the controller relies on: the output of its RAM, which
\* lags behind its pointers, is the same character from the edge that goes to
\* storeChar up to the read, whatever is written meanwhile (morseEncoder lines
\* 104 to 131, fifo_bram lines 57 to 68).
CharacterIsHeld == Encoder!SafeSpec

\* The character that is sent is the one that is taken out of the FIFO, and
\* there is one: a read never meets an empty FIFO, and none is skipped or sent
\* twice because dataOut is still the one before.
SendsTheOldest ==
    presentChar # "waitForChar" => Fill > 0 /\ ~empty_int /\ dataOut = Head(Queue)

\* A character that waits in the FIFO does not wait for ever: the controller
\* reads again and again.
WaitingIsSent == Fill > 0 ~> Encoder!readChar
=============================================================================
