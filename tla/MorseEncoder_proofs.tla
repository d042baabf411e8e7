------------------------- MODULE MorseEncoder_proofs -------------------------
(***************************************************************************)
(* The composition of the FIFO and the Morse controller: what the          *)
(* controller relies on is proved of the FIFO, for every set of            *)
(* characters, every depth of the FIFO and whatever is written meanwhile.  *)
(***************************************************************************)
EXTENDS MorseEncoder, FifoBram_proofs

\* From the edge to storeChar until the read, the output of the RAM shows the
\* location the read counter is at, and that location is filled.
CharacterShown ==
    presentChar # "waitForChar" =>
        Fill > 0 /\ ~empty_int /\ dataOut = memoryArray[readCounter]

EncoderInv == IInv /\ CharacterShown

LEMMA EncoderInvInit == EncoderInit => EncoderInv
BY TypeInit, LimitsInit DEF EncoderInit, Encoder!CircuitInit, EncoderInv, IInv, CharacterShown

\* An edge of the encoder is an edge of its FIFO.
LEMMA EncoderStep ==
    ASSUME EncoderNext
    PROVE  \E write \in BOOLEAN, dataIn \in Data : Cycle(write, Encoder!readChar, dataIn)
BY DEF EncoderNext

\* The state machine of the characters leaves waitForChar only for a character,
\* and comes back to it with the read.
LEMMA CharStep ==
    ASSUME Encoder!Circuit
    PROVE  /\ presentChar = "waitForChar" /\ presentChar' # "waitForChar" => ~empty_int
           /\ Encoder!readChar => presentChar = "getNextChar" /\ presentChar' = "waitForChar"
<1>1. Encoder!nxt_Charstate
  BY DEF Encoder!Circuit
<1>2. CASE presentChar = "waitForChar"
  BY <1>1, <1>2 DEF Encoder!nxt_Charstate, Encoder!Remain, Encoder!readChar
<1>3. CASE presentChar = "getNextChar"
  BY <1>1, <1>3 DEF Encoder!nxt_Charstate, Encoder!Goto
<1>4. CASE presentChar \notin {"waitForChar", "getNextChar"}
  BY <1>4 DEF Encoder!readChar
<1> QED BY <1>2, <1>3, <1>4

\* A FIFO that is not called empty has a word.
LEMMA NotEmptyFilled ==
    ASSUME IInv, ~empty_int
    PROVE  Fill > 0
<1>1. Fill \in Nat /\ (Fill = 0 <=> writeCounter = readCounter /\ ~fullCondition)
  BY FillFacts, RangeFacts DEF IInv, FillSound
<1>2. ~(writeCounter = readCounter /\ ~fullCondition)
  BY DEF IInv, StateTellsTheLimits, empty_int, emptyCondition, fullCondition
<1> QED BY <1>1, <1>2

\* Without a read, the word that is the oldest stays it and is shown.
LEMMA OldestStays ==
    ASSUME MoreThanTwoWords, IInv, IInv', ~empty_int,
           NEW write \in BOOLEAN, NEW dataIn \in Data, Cycle(write, FALSE, dataIn)
    PROVE  /\ Fill' > 0 /\ ~empty_int'
           /\ dataOut' = memoryArray[readCounter] /\ dataOut' = memoryArray'[readCounter']
<1>1. Fill > 0 /\ Fill \in Nat
  BY NotEmptyFilled, FillFacts, RangeFacts DEF IInv, FillSound
<1>2. Fill' > 0
  <2>1. Fill' = Fill - (IF Takes(FALSE) THEN 1 ELSE 0) + (IF Puts(write) THEN 1 ELSE 0)
    BY FillStep
  <2> QED BY <1>1, <2>1 DEF Takes
<1>3. dataOut' = memoryArray[readCounter] /\ readCounter' = readCounter
  BY DEF Cycle, readMem
<1>4. dataOut' = memoryArray'[readCounter']
  <2>1. Fill > 1 \/ (Fill = 1 /\ ~Takes(FALSE))
    BY <1>1 DEF Takes
  <2>2. memoryArray'[readCounter'] = memoryArray[readCounter']
    BY <2>1, OldestNotWritten
  <2> QED BY <1>3, <2>2
<1>5. ~empty_int'
  <2>1. fifoState # "sEmpty" /\ fifoState' = fifoControl(write, FALSE)
    BY DEF Cycle, empty_int, emptyCondition
  <2>2. fifoState' # "sWriteFirst"
    BY <2>1 DEF fifoControl, NextOfOperation
  <2>3. ~emptyCondition'
    <3>1. ~(writeCounter' = readCounter' /\ ~fullCondition')
      BY <1>2, FillFactsNext DEF IInv, FillSound
    <3> QED BY <3>1 DEF IInv, StateTellsTheLimits, emptyCondition, fullCondition
  <2> QED BY <2>2, <2>3 DEF empty_int
<1> QED BY <1>2, <1>3, <1>4, <1>5

\* The invariant holds after every edge.
LEMMA EncoderInvNext ==
    MoreThanTwoWords /\ EncoderInv /\ [EncoderNext]_encoderVars => EncoderInv'
<1> SUFFICES ASSUME MoreThanTwoWords, EncoderInv, [EncoderNext]_encoderVars PROVE EncoderInv'
  OBVIOUS
<1>1. CASE EncoderNext
  <2>1. PICK write \in BOOLEAN, dataIn \in Data : Cycle(write, Encoder!readChar, dataIn)
    BY <1>1, EncoderStep
  <2>2. Encoder!readChar \in BOOLEAN
    BY DEF Encoder!readChar
  <2>3. IInv'
    <3>1. RisingEdge
      BY <2>1, <2>2 DEF RisingEdge
    <3> QED BY <3>1, TypeNext, LimitsNext DEF EncoderInv, IInv, Next
  <2>4. Encoder!Circuit
    BY <1>1 DEF EncoderNext
  <2>5. ASSUME presentChar' # "waitForChar" PROVE CharacterShown'
    <3>1. ~Encoder!readChar /\ ~empty_int
      BY <2>4, <2>5, CharStep DEF EncoderInv, CharacterShown
    <3>2. Cycle(write, FALSE, dataIn)
      BY <2>1, <2>2, <3>1
    <3> QED BY <2>3, <3>1, <3>2, OldestStays DEF EncoderInv, CharacterShown
  <2> QED BY <2>3, <2>5 DEF EncoderInv, CharacterShown
<1>2. CASE UNCHANGED encoderVars
  BY <1>2 DEF encoderVars, vars, Encoder!circuitVars, EncoderInv, IInv, TypeOK,
       StateTellsTheLimits, CharacterShown, Fill, empty_int, emptyCondition, fullCondition
<1> QED BY <1>1, <1>2

\* The character that is sent is the oldest of the FIFO, from the edge at which
\* the controller takes it up to the read that removes it: the output of the RAM,
\* which is not always valid when empty is '0', is valid when it is looked at.
THEOREM OldestIsSent ==
    ASSUME MoreThanTwoWords
    PROVE  EncoderSpec => []SendsTheOldest
<1>1. EncoderInv => SendsTheOldest
  <2> SUFFICES ASSUME EncoderInv, presentChar # "waitForChar"
               PROVE  Fill > 0 /\ ~empty_int /\ dataOut = Head(Queue)
    BY DEF SendsTheOldest
  <2>1. Fill > 0 /\ ~empty_int /\ dataOut = memoryArray[readCounter]
    BY DEF EncoderInv, CharacterShown
  <2>2. Head(Queue) = memoryArray[readCounter]
    BY <2>1, HeadFacts DEF EncoderInv, IInv
  <2> QED BY <2>1, <2>2
<1> QED BY <1>1, EncoderInvInit, EncoderInvNext, PTL DEF EncoderSpec

\* The refinement of the controller's specification.
LEMMA ControllerInit == EncoderInit => Encoder!Init
BY DataAssumption DEF EncoderInit, Init, Encoder!Init, empty_int, emptyCondition

LEMMA ControllerNext ==
    ASSUME MoreThanTwoWords, EncoderInv, EncoderInv', [EncoderNext]_encoderVars
    PROVE  [Encoder!Next]_Encoder!vars
<1>1. CASE EncoderNext
  <2>1. Encoder!Circuit
    BY <1>1 DEF EncoderNext
  <2>2. dataOut' \in Data \union {Unset}
    BY DEF EncoderInv, IInv, TypeOK
  <2>3. empty_int' \in BOOLEAN
    BY DEF empty_int, emptyCondition
  <2>4. Encoder!Held
    <3> SUFFICES ASSUME presentChar \notin {"waitForChar", "getNextChar"}
                 PROVE  dataOut' = dataOut
      BY DEF Encoder!Held
    <3>1. PICK write \in BOOLEAN, dataIn \in Data : Cycle(write, Encoder!readChar, dataIn)
      BY <1>1, EncoderStep
    <3>2. ~Encoder!readChar
      BY DEF Encoder!readChar
    <3>3. dataOut' = memoryArray[readCounter]
      BY <3>1, <3>2 DEF Cycle, readMem
    <3> QED BY <3>3 DEF EncoderInv, CharacterShown
  <2> QED BY <2>1, <2>2, <2>3, <2>4 DEF Encoder!Next
<1>2. CASE UNCHANGED encoderVars
  BY <1>2 DEF encoderVars, vars, Encoder!vars, Encoder!circuitVars, empty_int, emptyCondition
<1> QED BY <1>1, <1>2

\* What the controller needs of its input, and its own proofs assume, the FIFO
\* keeps: no write, at whatever edge, changes the character under way.
THEOREM CharacterHeld ==
    ASSUME MoreThanTwoWords
    PROVE  EncoderSpec => CharacterIsHeld
<1>1. EncoderInv /\ EncoderInv' /\ [EncoderNext]_encoderVars => [Encoder!Next]_Encoder!vars
  BY ControllerNext
<1> QED BY <1>1, ControllerInit, EncoderInvInit, EncoderInvNext, PTL
        DEF EncoderSpec, CharacterIsHeld, Encoder!SafeSpec
=============================================================================
