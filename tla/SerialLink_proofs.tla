-------------------------- MODULE SerialLink_proofs --------------------------
(***************************************************************************)
(* Delivery over the serial link is proved here for words of any length of *)
(* two bits or more, any number of stop bits and any two dividers within   *)
(* the tolerance. The invariant follows a frame: in its place p the        *)
(* receiver has taken the samples 0 .. s - 1, of p places or p + 1, and    *)
(* the equation in Tracks says where its divider is, counted from the last *)
(* edge of the line, the beginning of place e, which both ends know.       *)
(***************************************************************************)
EXTENDS SerialLink, Integers, TLAPS

\* What the line shows in a place of the frame of the word that was sent last.
FrameBit(p) == p # 0 /\ (p \in 1 .. dataBitNb => txData[p - 1])

\* The register when p places of that frame are over.
RegisterAt(p) ==
    [place \in Places |-> IF place + p > high THEN TRUE ELSE Frame(txData)[place + p]]

\* The transmitter is in place p of the frame.
Sending(p) ==
    /\ ~send1
    /\ txShiftReg = RegisterAt(p)
    /\ txDividerCounter \in 1 .. txDivide

ReceiverAtRest == ~rxReceiving /\ ~rxDataValid /\ rxCounter = 0

\* Nothing is sent, or a word waits in txData for its frame.
Idle ==
    /\ txShiftReg = AllOnes
    /\ ReceiverAtRest
    /\ pending = IF send1 THEN <<txData>> ELSE <<>>
    /\ send1 => rxDelayed

\* The first period of a frame: the receiver has not yet seen the start bit.
Starts(p) ==
    /\ p = 0 /\ txDividerCounter = 1
    /\ rxDelayed
    /\ ReceiverAtRest
    /\ pending = <<txData>>

\* The places of a frame the receiver samples: start bit, word, first stop bit.
Samples == 0 .. dataBitNb + 1

\* The last place of which the receiver has seen a period.
Seen(p) == IF txDividerCounter = 1 THEN p - 1 ELSE p

\* In place p, the receiver has taken s samples, of this place or of the ones
\* before it, and the last edge it has seen was the beginning of place e.
Tracks(p, s, e) ==
    /\ s \in {p, p + 1}
    /\ e <= Seen(p)
    /\ \A q \in e .. Seen(p) : FrameBit(q) = rxDelayed
    /\ rxDividerCounter + (s - e) * rxDivide =
         (p - e) * txDivide + txDividerCounter - 2 + rxDivide \div 2

\* What the receiver holds after s samples of a frame.
Received(s) ==
    /\ rxDataValid => s = dataBitNb + 1 /\ rxDividerCounter = 0
    /\ rxReceiving <=> s \in 1 .. dataBitNb \/ rxDataValid
    /\ rxCounter = IF s = 0 THEN 0 ELSE s - 1
    /\ \A place \in Bits :
         place + s >= dataBitNb => rxShiftReg[place] = FrameBit(place + s - dataBitNb)
    /\ pending = IF s <= dataBitNb \/ rxDataValid THEN <<txData>> ELSE <<>>

\* The receiver has seen the stop bit: it waits for the next frame.
Rests(p) ==
    /\ p > dataBitNb
    /\ rxDelayed
    /\ ReceiverAtRest
    /\ pending = <<>>

InFrame(p) ==
    /\ Sending(p)
    /\ \/ Starts(p)
       \/ Rests(p)
       \/ \E s \in Samples, e \in 0 .. p : Tracks(p, s, e) /\ Received(s)

LinkType == TypeOK /\ txDivide \in TxDivides

\* The two phases of the link.
Phase == Idle \/ \E p \in Places : InFrame(p)

IInv == LinkType /\ Phase

-----------------------------------------------------------------------------
(* The constants.                                                          *)

\* Products are monotonic.
LEMMA ProductFacts ==
    ASSUME NEW x \in Nat, NEW y \in Nat, NEW z \in Nat, x <= y
    PROVE  x * z <= y * z /\ x * z \in Nat
<1>1. PICK k \in Nat : y = x + k
  <2> WITNESS y - x \in Nat
  <2> QED OBVIOUS
<1>2. (x + k) * z = x * z + k * z
  OBVIOUS
<1>3. k * z \in Nat /\ x * z \in Nat
  OBVIOUS
<1> QED BY <1>1, <1>2, <1>3

\* The two halves of a bit of the receiver.
LEMMA DivideFacts ==
    /\ rxDivide \in Nat /\ rxDivide >= 2
    /\ halfBit \in Nat /\ halfBit >= 1 /\ halfBit < rxDivide
    /\ rxDivide \div 2 \in Nat /\ rxDivide = halfBit + rxDivide \div 2
    /\ dataBitNb \in Nat /\ dataBitNb >= 2
    /\ stopBitNb \in Nat /\ stopBitNb >= 1
<1>1. rxDivide \div 2 \in Nat /\ rxDivide \div 2 >= 1 /\ 2 * (rxDivide \div 2) <= rxDivide
  BY RxDivideAssumption
<1> QED BY <1>1, RxDivideAssumption, DataBitAssumption, WordAssumption, StopBitAssumption DEF halfBit

\* The tolerance of a whole word holds of every part of it.
LEMMA DriftFacts ==
    ASSUME NEW divide \in TxDivides, NEW m \in 1 .. dataBitNb + 1
    PROVE  /\ m * divide <= m * rxDivide + halfBit
           /\ (m - 1) * rxDivide + halfBit < m * divide
           /\ divide \in Nat /\ divide >= 2
<1> DEFINE whole == dataBitNb + 1
<1>1. /\ divide \in Nat /\ divide >= 1 /\ m \in Nat /\ m <= whole /\ m >= 1
      /\ whole \in Nat
  BY DividesAssumption, DivideFacts
<1>2. /\ whole * divide <= whole * rxDivide + halfBit
      /\ (whole - 1) * rxDivide + halfBit < whole * divide
  BY ToleranceAssumption, DivideFacts
<1>3. (whole - 1) * rxDivide = whole * rxDivide - rxDivide
  BY <1>1, DivideFacts
<1>4. (m - 1) * rxDivide = m * rxDivide - rxDivide
  BY <1>1, DivideFacts
<1> HIDE DEF whole
<1>5. CASE divide >= rxDivide
  <2>1. divide - rxDivide \in Nat
    BY <1>1, <1>5, DivideFacts
  <2>2. m * (divide - rxDivide) <= whole * (divide - rxDivide)
    BY <2>1, <1>1, ProductFacts
  <2>3. /\ m * (divide - rxDivide) = m * divide - m * rxDivide
        /\ whole * (divide - rxDivide) = whole * divide - whole * rxDivide
    BY <1>1, DivideFacts
  <2>4. m * (divide - rxDivide) >= 0
    BY <2>1, <1>1
  <2>5. /\ m * divide \in Int /\ m * rxDivide \in Int
        /\ whole * divide \in Int /\ whole * rxDivide \in Int
    BY <1>1, DivideFacts
  <2>6. divide >= 2
    BY <1>5, <1>1, DivideFacts
  <2> QED BY <1>1, <1>2, <1>3, <1>4, <2>2, <2>3, <2>4, <2>5, <2>6, DivideFacts
<1>6. CASE divide < rxDivide
  <2>1. rxDivide - divide \in Nat
    BY <1>1, <1>6, DivideFacts
  <2>2. m * (rxDivide - divide) <= whole * (rxDivide - divide)
    BY <2>1, <1>1, ProductFacts
  <2>3. /\ m * (rxDivide - divide) = m * rxDivide - m * divide
        /\ whole * (rxDivide - divide) = whole * rxDivide - whole * divide
    BY <1>1, DivideFacts
  <2>4. m * (rxDivide - divide) >= 0
    BY <2>1, <1>1
  <2>5. /\ m * divide \in Int /\ m * rxDivide \in Int
        /\ whole * divide \in Int /\ whole * rxDivide \in Int
    BY <1>1, DivideFacts
  <2>6. 1 * (rxDivide - divide) <= whole * (rxDivide - divide)
    BY <2>1, <1>1, ProductFacts
  <2>7. divide > halfBit
    BY <1>1, <1>2, <1>3, <2>3, <2>5, <2>6, DivideFacts
  <2> QED BY <1>1, <1>2, <1>3, <1>4, <2>2, <2>3, <2>4, <2>5, <2>7, DivideFacts
<1> QED BY <1>1, <1>5, <1>6, DivideFacts

-----------------------------------------------------------------------------
(* The transmitter.                                                        *)

LEMMA PlaceFacts ==
    /\ high \in Nat /\ high >= dataBitNb + 1
    /\ Places = 0 .. high
BY DivideFacts DEF high, Places

\* The places of the frame that shiftReg loads.
LEMMA FrameFacts ==
    ASSUME txData \in Words, NEW p \in Places
    PROVE  /\ p < high => Frame(txData)[p] = FrameBit(p)
           /\ Frame(txData)[high] = FALSE
           /\ FrameBit(p) \in BOOLEAN
           /\ p > dataBitNb => FrameBit(p) = TRUE
<1>1. p \in 1 .. dataBitNb => p - 1 \in Bits
  BY DivideFacts DEF Bits
<1>2. FrameBit(p) \in BOOLEAN
  BY DEF FrameBit
<1>3. high \in Places /\ high \notin 1 .. dataBitNb /\ high # 0
  BY PlaceFacts, DivideFacts
<1>4. Frame(txData)[high] = FALSE
  BY <1>3, PlaceFacts, DivideFacts DEF Frame
<1>5. p = 0 => Frame(txData)[p] = FALSE /\ FrameBit(p) = FALSE
  BY PlaceFacts, DivideFacts DEF Frame, FrameBit
<1>6. p \in 1 .. dataBitNb => Frame(txData)[p] = txData[p - 1] /\ FrameBit(p) = txData[p - 1]
  <2> SUFFICES ASSUME p \in 1 .. dataBitNb
               PROVE  Frame(txData)[p] = txData[p - 1] /\ FrameBit(p) = txData[p - 1]
    OBVIOUS
  <2>1. p # 0 /\ p # high /\ ~(p > dataBitNb)
    BY PlaceFacts, DivideFacts
  <2>2. txData[p - 1] \in BOOLEAN
    BY <1>1 DEF Words
  <2> QED BY <2>1, <2>2 DEF Frame, FrameBit
<1>7. p > dataBitNb => FrameBit(p) = TRUE /\ (p < high => Frame(txData)[p] = TRUE)
  <2> SUFFICES ASSUME p > dataBitNb
               PROVE  FrameBit(p) = TRUE /\ (p < high => Frame(txData)[p] = TRUE)
    OBVIOUS
  <2>1. p # 0 /\ p \notin 1 .. dataBitNb
    BY PlaceFacts, DivideFacts
  <2> QED BY <2>1, PlaceFacts DEF Frame, FrameBit
<1>8. p = 0 \/ p \in 1 .. dataBitNb \/ p > dataBitNb
  BY PlaceFacts, DivideFacts
<1> QED BY <1>2, <1>4, <1>5, <1>6, <1>7, <1>8

LEMMA RegisterPlace ==
    ASSUME NEW p, NEW place \in Places
    PROVE  /\ place + p > high => RegisterAt(p)[place] = TRUE
           /\ ~(place + p > high) => RegisterAt(p)[place] = Frame(txData)[place + p]
BY DEF RegisterAt

\* Shifting the register ends a place, and after the last one only '1' is left.
LEMMA RegisterFacts ==
    ASSUME txData \in Words, NEW p \in Places
    PROVE  /\ RegisterAt(0) = Frame(txData)
           /\ p < high => Shifted(RegisterAt(p)) = RegisterAt(p + 1)
           /\ Shifted(RegisterAt(high)) = AllOnes
           /\ Shifted(AllOnes) = AllOnes
           /\ RegisterAt(p) # AllOnes
<1> USE PlaceFacts, DivideFacts
<1>1. RegisterAt(0) = Frame(txData)
  <2>1. \A place \in Places : place + 0 = place /\ ~(place > high)
    OBVIOUS
  <2> QED BY <2>1 DEF RegisterAt, Frame
<1>2. p < high => Shifted(RegisterAt(p)) = RegisterAt(p + 1)
  <2> SUFFICES ASSUME p < high PROVE Shifted(RegisterAt(p)) = RegisterAt(p + 1)
    OBVIOUS
  <2>1. ASSUME NEW place \in Places
        PROVE  Shifted(RegisterAt(p))[place] = RegisterAt(p + 1)[place]
    <3>1. CASE place = high
      <4>1. place + (p + 1) > high
        BY <3>1
      <4>2. RegisterAt(p + 1)[place] = TRUE
        BY <4>1, RegisterPlace
      <4> QED BY <3>1, <4>2 DEF Shifted
    <3>2. CASE place # high
      <4>1. place + 1 \in Places /\ place + 1 + p = place + (p + 1)
        BY <3>2
      <4> QED BY <3>2, <4>1 DEF Shifted, RegisterAt
    <3> QED BY <3>1, <3>2
  <2> QED BY <2>1 DEF Shifted, RegisterAt
<1>3. Shifted(RegisterAt(high)) = AllOnes
  <2>1. ASSUME NEW place \in Places, place # high
        PROVE  place + 1 \in Places /\ place + 1 + high > high
    BY <2>1
  <2> QED BY <2>1 DEF Shifted, RegisterAt, AllOnes
<1>4. Shifted(AllOnes) = AllOnes
  <2>1. ASSUME NEW place \in Places, place # high PROVE place + 1 \in Places
    BY <2>1
  <2> QED BY <2>1 DEF Shifted, AllOnes
<1>5. RegisterAt(p) # AllOnes
  <2>1. high - p \in Places /\ high - p + p = high /\ ~(high - p + p > high)
    OBVIOUS
  <2>2. RegisterAt(p)[high - p] = Frame(txData)[high]
    BY <2>1, RegisterPlace
  <2>3. RegisterAt(p)[high - p] = FALSE
    BY <2>2, FrameFacts
  <2> QED BY <2>1, <2>3 DEF AllOnes
<1> QED BY <1>1, <1>2, <1>3, <1>4, <1>5

\* The line shows the places of the frame, the end flag as a stop bit.
LEMMA LineFacts ==
    ASSUME txData \in Words, NEW p \in Places, txShiftReg = RegisterAt(p)
    PROVE  TxD = FrameBit(p)
<1> USE PlaceFacts, DivideFacts
<1>1. CASE p < high
  <2>1. /\ high - p \in 1 .. high /\ high - p \in Places
        /\ high - p + p = high /\ ~(high - p + p > high)
    BY <1>1
  <2>2. txShiftReg[high - p] = FALSE
    <3>1. txShiftReg[high - p] = Frame(txData)[high]
      BY <2>1, RegisterPlace
    <3> QED BY <3>1, FrameFacts
  <2>3. txSendingByte
    BY <2>1, <2>2 DEF txSendingByte
  <2>4. 0 \in Places /\ 0 + p = p /\ ~(0 + p > high)
    BY <1>1
  <2>5. txShiftReg[0] = Frame(txData)[p]
    BY <2>4, RegisterPlace
  <2>6. FrameBit(p) \in BOOLEAN /\ Frame(txData)[p] = FrameBit(p)
    BY <1>1, FrameFacts
  <2> QED BY <2>3, <2>5, <2>6 DEF TxD
<1>2. CASE p = high
  <2>1. ASSUME NEW place \in 1 .. high PROVE txShiftReg[place] = TRUE
    <3>1. place \in Places /\ place + p > high
      BY <1>2
    <3> QED BY <3>1 DEF RegisterAt
  <2>2. ~txSendingByte
    BY <2>1 DEF txSendingByte
  <2>3. p > dataBitNb
    BY <1>2
  <2>4. FrameBit(p) = TRUE
    BY <2>3, FrameFacts
  <2> QED BY <2>2, <2>4 DEF TxD
<1> QED BY <1>1, <1>2

\* Without a frame the line is '1'.
LEMMA IdleLine ==
    ASSUME txShiftReg = AllOnes
    PROVE  TxD = TRUE
<1>1. 0 \in Places /\ \A place \in 1 .. high : place \in Places
  BY PlaceFacts, DivideFacts
<1> QED BY <1>1 DEF TxD, txSendingByte, AllOnes

\* A period of the transmitter in a frame.
LEMMA TxStep ==
    ASSUME LinkType, NEW p \in Places, Sending(p), TxCycle(FALSE, txData)
    PROVE  /\ txData' = txData /\ ~send1'
           /\ txDividerCounter < txDivide =>
                txShiftReg' = RegisterAt(p) /\ txDividerCounter' = txDividerCounter + 1
           /\ txDividerCounter = txDivide /\ p < high =>
                txShiftReg' = RegisterAt(p + 1) /\ txDividerCounter' = 1
           /\ txDividerCounter = txDivide /\ p = high => txShiftReg' = AllOnes
<1>1. txDivide \in Nat /\ txData \in Words
  BY DividesAssumption DEF LinkType, TypeOK, TxTypeOK
<1>2. txData' = txData /\ ~send1'
  BY DEF TxCycle
<1>3. CASE txDividerCounter < txDivide
  BY <1>1, <1>2, <1>3 DEF TxCycle, Sending, txShiftEnable
<1>4. CASE txDividerCounter = txDivide
  <2>1. txDividerCounter' = 1 /\ txShiftReg' = Shifted(RegisterAt(p))
    BY <1>4 DEF TxCycle, Sending, txShiftEnable
  <2> QED BY <1>1, <1>2, <1>4, <2>1, RegisterFacts
<1> QED BY <1>1, <1>2, <1>3, <1>4 DEF Sending

-----------------------------------------------------------------------------
(* The receiver.                                                           *)

\* What a period of the receiver does, by whether it samples the line.
LEMMA RxStep ==
    ASSUME NEW line \in BOOLEAN, RxCycle(line), TypeOK
    PROVE  /\ rxDelayed' = line
           /\ line # rxDelayed =>
                ~rxSample(line) /\ rxDividerCounter' = rxDivide \div 2
           /\ rxSample(line) => rxDividerCounter' = 0
           /\ line = rxDelayed /\ ~rxSample(line) =>
                /\ rxDividerCounter # rxDivide - 1
                /\ rxDividerCounter' = rxDividerCounter + 1
           /\ ~rxSample(line) =>
                /\ rxShiftReg' = rxShiftReg /\ rxCounter' = rxCounter
                /\ ~rxDataValid'
                /\ (rxReceiving' <=> rxReceiving /\ ~rxDataValid)
           /\ rxSample(line) =>
                /\ rxDividerCounter = rxDivide - 1
                /\ rxCounter' = IF rxReceiving THEN rxCounter + 1 ELSE 0
                /\ rxCounter = dataBitNb - 1 =>
                     rxDataValid' /\ (rxReceiving' <=> rxReceiving)
                /\ rxCounter # dataBitNb - 1 =>
                     (rxDataValid' <=> rxDataValid) /\ (rxReceiving' <=> rxReceiving \/ ~line)
<1> USE DEF RxCycle
<1>0. rxDelayed \in BOOLEAN /\ rxReceiving \in BOOLEAN /\ rxDataValid \in BOOLEAN
  BY DEF TypeOK, RxTypeOK
<1>1. CASE rxSample(line)
  <2>1. rxCounter' = IF rxReceiving THEN rxCounter + 1 ELSE 0
    BY <1>0, <1>1
  <2>2. line = rxDelayed /\ rxDividerCounter = rxDivide - 1
    BY <1>1 DEF rxSample
  <2>3. rxDividerCounter' = 0
    BY <1>1, <2>2
  <2>4. CASE rxCounter = dataBitNb - 1
    BY <1>0, <1>1, <2>1, <2>2, <2>3, <2>4 DEF detectReceive
  <2>5. CASE rxCounter # dataBitNb - 1
    BY <1>0, <1>1, <2>1, <2>2, <2>3, <2>5 DEF detectReceive
  <2> QED BY <2>4, <2>5
<1>2. CASE ~rxSample(line)
  <2>1. rxShiftReg' = rxShiftReg /\ rxCounter' = rxCounter /\ rxDelayed' = line
    BY <1>2
  <2>2. ~rxDataValid' /\ (rxReceiving' <=> rxReceiving /\ ~rxDataValid)
    BY <1>0, <1>2 DEF detectReceive
  <2>3. CASE line # rxDelayed
    <3>1. rxDividerCounter' = rxDivide \div 2
      BY <1>0, <1>2, <2>3 DEF Resynchronized
    <3> QED BY <1>2, <2>1, <2>2, <2>3, <3>1
  <2>4. CASE line = rxDelayed
    BY <1>2, <2>1, <2>2, <2>4 DEF rxSample
  <2> QED BY <2>3, <2>4
<1> QED BY <1>1, <1>2

\* The shift register after one more sample.
LEMMA RxShift ==
    ASSUME NEW line \in BOOLEAN, RxCycle(line), rxSample(line), NEW place \in Bits
    PROVE  rxShiftReg'[place] = IF place = dataBitNb - 1 THEN line ELSE rxShiftReg[place + 1]
BY DEF RxCycle

\* The record of what is sent and not yet received.
LEMMA PendingStep ==
    ASSUME Cycle(FALSE, txData)
    PROVE  pending' = IF rxDataValid /\ pending # <<>> THEN Tail(pending) ELSE pending
BY DEF Cycle

\* A receiver at rest stays at rest while the line is '1'.
LEMMA RestStep ==
    ASSUME TypeOK, ReceiverAtRest, RxCycle(TRUE)
    PROVE  ReceiverAtRest' /\ rxDelayed'
<1>1. 0 # dataBitNb - 1
  BY DivideFacts
<1> QED BY <1>1, RxStep DEF ReceiverAtRest

\* Without a sample the receiver keeps what it has, but for the strobe.
LEMMA KeepsReceived ==
    ASSUME LinkType, NEW s \in Samples, Received(s),
           NEW line \in BOOLEAN, RxCycle(line), ~rxSample(line), Cycle(FALSE, txData),
           txData' = txData
    PROVE  Received(s)'
<1>1. /\ rxShiftReg' = rxShiftReg /\ rxCounter' = rxCounter /\ ~rxDataValid'
      /\ (rxReceiving' <=> rxReceiving /\ ~rxDataValid)
  BY RxStep DEF LinkType
<1>2. \A q : FrameBit(q)' = FrameBit(q)
  BY DEF FrameBit
<1>3. rxReceiving' <=> s \in 1 .. dataBitNb \/ rxDataValid'
  BY <1>1, DivideFacts DEF Received
<1>4. pending' = IF s <= dataBitNb \/ rxDataValid' THEN <<txData'>> ELSE <<>>
  <2>1. CASE rxDataValid
    <3>1. s = dataBitNb + 1 /\ pending = <<txData>>
      BY <2>1 DEF Received
    <3>2. pending' = <<>>
      BY <2>1, <3>1, PendingStep
    <3> QED BY <1>1, <3>1, <3>2, DivideFacts
  <2>2. CASE ~rxDataValid
    <3>1. pending' = pending
      BY <2>2, PendingStep
    <3> QED BY <1>1, <2>2, <3>1 DEF Received
  <2> QED BY <2>1, <2>2
<1> QED BY <1>1, <1>2, <1>3, <1>4 DEF Received

\* A sample in its own place of the frame is the next bit of the word.
LEMMA SamplesReceived ==
    ASSUME LinkType, NEW s \in Samples, s # dataBitNb + 1, Received(s),
           RxCycle(FrameBit(s)), rxSample(FrameBit(s)), FrameBit(s) \in BOOLEAN,
           Cycle(FALSE, txData), txData' = txData
    PROVE  Received(s + 1)'
<1> USE DivideFacts
<1>1. s \in 0 .. dataBitNb /\ s + 1 \in Samples /\ ~rxDataValid
  BY DEF Samples, Received
<1>2. \A q : FrameBit(q)' = FrameBit(q)
  BY DEF FrameBit
<1>3. pending = <<txData>> /\ pending' = <<txData>>
  BY <1>1, PendingStep DEF Received
<1>4. ASSUME NEW place \in Bits, place + (s + 1) >= dataBitNb
      PROVE  rxShiftReg'[place] = FrameBit(place + (s + 1) - dataBitNb)
  <2>1. CASE place = dataBitNb - 1
    <3>1. place + (s + 1) - dataBitNb = s
      BY <1>1, <2>1
    <3> QED BY <2>1, <3>1, RxShift
  <2>2. CASE place # dataBitNb - 1
    <3>1. /\ place + 1 \in Bits /\ (place + 1) + s >= dataBitNb
          /\ (place + 1) + s - dataBitNb = place + (s + 1) - dataBitNb
      BY <1>1, <1>4, <2>2 DEF Bits
    <3>2. rxShiftReg[place + 1] = FrameBit(place + (s + 1) - dataBitNb)
      BY <3>1 DEF Received
    <3> QED BY <2>2, <3>2, RxShift
  <2> QED BY <2>1, <2>2
<1>5. rxDividerCounter' = 0
  BY RxStep DEF LinkType
<1>6. CASE s = 0
  <2>1. ~rxReceiving /\ rxCounter = 0 /\ FrameBit(0) = FALSE
    BY <1>1, <1>6 DEF Received, FrameBit
  <2>2. rxCounter' = 0 /\ rxReceiving' /\ ~rxDataValid'
    BY <1>1, <1>6, <2>1, RxStep DEF LinkType
  <2> QED BY <1>1, <1>2, <1>3, <1>4, <1>6, <2>2 DEF Received
<1>7. CASE s \in 1 .. dataBitNb - 1
  <2>1. rxReceiving /\ rxCounter = s - 1
    BY <1>1, <1>7 DEF Received
  <2>2. rxCounter' = s /\ rxReceiving' /\ ~rxDataValid'
    BY <1>1, <1>7, <2>1, RxStep DEF LinkType
  <2> QED BY <1>1, <1>2, <1>3, <1>4, <1>7, <2>2 DEF Received
<1>8. CASE s = dataBitNb
  <2>1. rxReceiving /\ rxCounter = dataBitNb - 1
    BY <1>1, <1>8 DEF Received
  <2>2. rxCounter' = dataBitNb /\ rxReceiving' /\ rxDataValid'
    BY <1>1, <1>8, <2>1, RxStep DEF LinkType
  <2> QED BY <1>1, <1>2, <1>3, <1>4, <1>5, <1>8, <2>2 DEF Received
<1> QED BY <1>1, <1>6, <1>7, <1>8

\* The sample of the stop bit puts the receiver to rest.
LEMMA SamplesStop ==
    ASSUME LinkType, Received(dataBitNb + 1), RxCycle(TRUE), rxSample(TRUE),
           Cycle(FALSE, txData)
    PROVE  ReceiverAtRest' /\ rxDelayed' /\ pending' = <<>>
<1>1. ~rxDataValid
  <2>1. rxDividerCounter = rxDivide - 1 /\ rxDivide - 1 # 0
    BY DivideFacts DEF rxSample
  <2> QED BY <2>1 DEF Received
<1>2. ~rxReceiving /\ rxCounter = dataBitNb /\ pending = <<>>
  BY <1>1, DivideFacts DEF Received
<1>3. rxCounter # dataBitNb - 1
  BY <1>2, DivideFacts
<1> QED BY <1>1, <1>2, <1>3, RxStep, PendingStep DEF LinkType, ReceiverAtRest

-----------------------------------------------------------------------------
(* The two clocks.                                                         *)

\* A sample is not taken in the place before its own.
LEMMA NoSampleAhead ==
    ASSUME NEW divide \in TxDivides, NEW p \in 0 .. dataBitNb + 1, NEW e \in 0 .. p,
           NEW phase \in 1 .. divide, NEW count \in 0 .. rxDivide - 1,
           count + (p + 1 - e) * rxDivide = (p - e) * divide + phase - 2 + rxDivide \div 2
    PROVE  /\ p <= dataBitNb => count < rxDivide - 1
           /\ ~(phase = 1 /\ e < p)
<1> DEFINE m == p - e
           mR == m * rxDivide
           mD == m * divide
<1>1. /\ m \in Nat /\ m <= p /\ p \in Nat /\ p + 1 - e = m + 1 /\ e \in Nat
      /\ divide \in Nat /\ count \in Nat
  BY DivideFacts, DividesAssumption
<1>2. mR \in Int /\ mD \in Int
  BY <1>1, DivideFacts
<1>3. (m + 1) * rxDivide = mR + rxDivide /\ (m + 1) * divide = mD + divide
  BY <1>1, DivideFacts
<1>4. count + (m + 1) * rxDivide = mD + phase - 2 + rxDivide \div 2
  BY <1>1
<1>5. m >= 1 => mD <= mR + halfBit
  <2> SUFFICES ASSUME m >= 1 PROVE mD <= mR + halfBit
    OBVIOUS
  <2>1. m \in 1 .. dataBitNb + 1
    BY <1>1, DivideFacts
  <2> HIDE DEF m
  <2> QED BY <2>1, DriftFacts
<1>6. p <= dataBitNb => (m + 1) * divide <= (m + 1) * rxDivide + halfBit
  <2> SUFFICES ASSUME p <= dataBitNb
               PROVE  (m + 1) * divide <= (m + 1) * rxDivide + halfBit
    OBVIOUS
  <2>1. m + 1 \in 1 .. dataBitNb + 1
    BY <1>1, DivideFacts
  <2> HIDE DEF m
  <2> QED BY <2>1, DriftFacts
<1>7. phase = 1 /\ e < p => m >= 1
  BY <1>1
<1> HIDE DEF m, mR, mD
<1> QED BY <1>1, <1>2, <1>3, <1>4, <1>5, <1>6, <1>7, DivideFacts

\* A place is not over before its sample is taken.
LEMMA SampleInTime ==
    ASSUME NEW divide \in TxDivides, NEW p \in Nat, NEW e \in 0 .. p, p - e <= dataBitNb,
           NEW count \in 0 .. rxDivide - 1,
           count + (p - e) * rxDivide = (p - e) * divide + divide - 2 + rxDivide \div 2
    PROVE  count = rxDivide - 1
<1> DEFINE m == p - e
           mR == m * rxDivide
           mD == m * divide
<1>1. m \in Nat /\ m <= dataBitNb /\ divide \in Nat /\ count \in Nat
  BY DivideFacts, DividesAssumption
<1>2. mR \in Int /\ mD \in Int
  BY <1>1, DivideFacts
<1>3. (m + 1) * divide = mD + divide /\ (m + 1) - 1 = m
  BY <1>1, DivideFacts
<1>4. count + mR = mD + divide - 2 + rxDivide \div 2
  OBVIOUS
<1>5. mR + halfBit < (m + 1) * divide
  <2>1. m + 1 \in 1 .. dataBitNb + 1
    BY <1>1, DivideFacts
  <2> HIDE DEF m
  <2>2. ((m + 1) - 1) * rxDivide + halfBit < (m + 1) * divide
    BY <2>1, DriftFacts
  <2> QED BY <2>2, <1>3
<1> HIDE DEF m, mR, mD
<1> QED BY <1>1, <1>2, <1>3, <1>4, <1>5, DivideFacts

\* Where the two ends are after a period in place p, before the transmitter is
\* said to be in the next place.
Follows(p, s, e) ==
    /\ s \in {p, p + 1}
    /\ txDividerCounter = txDivide => s = p + 1
    /\ \A q \in e .. p : FrameBit(q) = rxDelayed'
    /\ rxDividerCounter' + (s - e) * rxDivide =
         (p - e) * txDivide + txDividerCounter - 1 + rxDivide \div 2
    /\ Received(s)'

\* A period in a place: an edge of the line, a sample or neither.
LEMMA TracksStep ==
    ASSUME LinkType, NEW p \in Places, NEW s \in Samples, NEW e \in 0 .. p,
           Sending(p), Tracks(p, s, e), Received(s), Cycle(FALSE, txData)
    PROVE  \/ /\ p = dataBitNb + 1
              /\ ReceiverAtRest' /\ rxDelayed' = TRUE /\ pending' = <<>>
           \/ \E s2 \in Samples, e2 \in 0 .. p : Follows(p, s2, e2)
<1> DEFINE line == FrameBit(p)
<1>1. /\ txData \in Words /\ txDivide \in TxDivides
      /\ txDivide \in Nat /\ txDivide >= 2
      /\ txDividerCounter \in 1 .. txDivide
      /\ rxDividerCounter \in 0 .. rxDivide - 1 /\ rxDelayed \in BOOLEAN
  <2>1. 1 \in 1 .. dataBitNb + 1
    BY DivideFacts
  <2> QED BY <2>1, DriftFacts DEF LinkType, TypeOK, TxTypeOK, RxTypeOK, Sending
<1>2. line \in BOOLEAN /\ TxD = line
  BY <1>1, FrameFacts, LineFacts DEF Sending
<1>3. RxCycle(line) /\ TxCycle(FALSE, txData) /\ txData' = txData
  BY <1>2 DEF Cycle, TxCycle
<1>4. p \in 0 .. dataBitNb + 1 /\ p \in Nat /\ s \in Nat /\ e \in Nat /\ e <= p
  BY PlaceFacts, DivideFacts DEF Tracks, Samples
<1>5. rxDelayed' = line /\ TypeOK
  BY <1>2, <1>3, RxStep DEF LinkType
<1>6. CASE line # rxDelayed
  <2>1. txDividerCounter = 1 /\ e < p
    <3>1. Seen(p) # p
      BY <1>4, <1>6 DEF Tracks
    <3> QED BY <3>1, <1>4 DEF Seen, Tracks
  <2>2. s = p
    <3> SUFFICES ASSUME s = p + 1 PROVE FALSE
      BY DEF Tracks
    <3>1. rxDividerCounter + (p + 1 - e) * rxDivide =
            (p - e) * txDivide + txDividerCounter - 2 + rxDivide \div 2
      BY DEF Tracks
    <3> QED BY <3>1, <2>1, <1>1, <1>4, NoSampleAhead
  <2>3. ~rxSample(line) /\ rxDividerCounter' = rxDivide \div 2
    BY <1>2, <1>3, <1>5, <1>6, RxStep
  <2>4. Received(p)'
    BY <2>2, <2>3, <1>2, <1>3, KeepsReceived
  <2>5. (p - p) * rxDivide = 0 /\ (p - p) * txDivide = 0
    BY <1>1, <1>4, DivideFacts
  <2>6. rxDividerCounter' + (p - p) * rxDivide =
          (p - p) * txDivide + txDividerCounter - 1 + rxDivide \div 2
    BY <2>1, <2>3, <2>5, DivideFacts
  <2>7. Follows(p, p, p)
    BY <2>1, <2>4, <2>6, <1>1, <1>4, <1>5 DEF Follows
  <2>8. p \in Samples /\ p \in 0 .. p
    BY <2>2, <1>4
  <2> QED BY <2>7, <2>8
<1>7. ASSUME line = rxDelayed, NEW q \in e .. p PROVE FrameBit(q) = rxDelayed'
  <2>1. q \in e .. Seen(p) \/ q = p
    BY <1>4 DEF Seen
  <2> QED BY <2>1, <1>5, <1>7 DEF Tracks
<1>8. CASE line = rxDelayed /\ ~rxSample(line)
  <2>1. rxDividerCounter # rxDivide - 1 /\ rxDividerCounter' = rxDividerCounter + 1
    BY <1>2, <1>3, <1>5, <1>8, RxStep
  <2>2. ASSUME txDividerCounter = txDivide PROVE s = p + 1
    <3> SUFFICES ASSUME s = p PROVE FALSE
      BY DEF Tracks
    <3>1. Seen(p) = p
      BY <2>2, <1>1 DEF Seen
    <3>2. p - e <= dataBitNb
      <4> SUFFICES ASSUME p = dataBitNb + 1, e = 0 PROVE FALSE
        BY <1>4, DivideFacts
      <4>1. FrameBit(0) = rxDelayed /\ FrameBit(p) = rxDelayed
        BY <3>1, <1>4 DEF Tracks
      <4>2. FrameBit(p) = TRUE
        <5>1. p > dataBitNb
          BY DivideFacts
        <5> QED BY <5>1, <1>1, FrameFacts
      <4> QED BY <4>1, <4>2 DEF FrameBit
    <3>3. rxDividerCounter + (p - e) * rxDivide =
            (p - e) * txDivide + txDivide - 2 + rxDivide \div 2
      BY <2>2 DEF Tracks
    <3> QED BY <2>1, <3>2, <3>3, <1>1, <1>4, SampleInTime
  <2>3. Received(s)'
    BY <1>2, <1>3, <1>8, KeepsReceived
  <2>4. rxDividerCounter' + (s - e) * rxDivide =
          (p - e) * txDivide + txDividerCounter - 1 + rxDivide \div 2
    <3>1. (s - e) * rxDivide \in Int /\ (p - e) * txDivide \in Int
      BY <1>1, <1>4, DivideFacts
    <3>2. rxDividerCounter + (s - e) * rxDivide =
            (p - e) * txDivide + txDividerCounter - 2 + rxDivide \div 2
      BY DEF Tracks
    <3> QED BY <2>1, <3>1, <3>2, <1>1, DivideFacts
  <2>5. Follows(p, s, e)
    BY <2>2, <2>3, <2>4, <1>7, <1>8 DEF Follows, Tracks
  <2> QED BY <2>5
<1>9. CASE rxSample(line)
  <2>1. line = rxDelayed /\ rxDividerCounter = rxDivide - 1 /\ rxDividerCounter' = 0
    BY <1>2, <1>3, <1>5, <1>9, RxStep DEF rxSample
  <2>2. s = p
    <3> SUFFICES ASSUME s = p + 1 PROVE FALSE
      BY DEF Tracks
    <3>1. p <= dataBitNb
      BY <1>4, DivideFacts DEF Samples
    <3>2. rxDividerCounter + (p + 1 - e) * rxDivide =
            (p - e) * txDivide + txDividerCounter - 2 + rxDivide \div 2
      BY DEF Tracks
    <3>3. rxDividerCounter < rxDivide - 1
      BY <3>1, <3>2, <1>1, <1>4, NoSampleAhead
    <3> QED BY <2>1, <3>3, DivideFacts
  <2>3. CASE p = dataBitNb + 1
    <3>1. line = TRUE
      <4>1. p > dataBitNb
        BY <2>3, DivideFacts
      <4> QED BY <4>1, <1>1, FrameFacts
    <3>2. Received(dataBitNb + 1)
      BY <2>2, <2>3
    <3> QED BY <2>3, <3>1, <3>2, <1>3, <1>5, <1>9, SamplesStop
  <2>4. CASE p # dataBitNb + 1
    <3>1. Received(p + 1)'
      BY <2>2, <2>4, <1>2, <1>3, <1>9, SamplesReceived
    <3>2. rxDividerCounter' + (p + 1 - e) * rxDivide =
            (p - e) * txDivide + txDividerCounter - 1 + rxDivide \div 2
      <4>1. /\ (p - e) * rxDivide \in Int /\ (p - e) * txDivide \in Int
            /\ (p + 1 - e) * rxDivide = (p - e) * rxDivide + rxDivide
        BY <1>1, <1>4, DivideFacts
      <4>2. rxDividerCounter + (p - e) * rxDivide =
              (p - e) * txDivide + txDividerCounter - 2 + rxDivide \div 2
        BY <2>2 DEF Tracks
      <4> QED BY <2>1, <4>1, <4>2, <1>1, DivideFacts
    <3>3. Follows(p, p + 1, e)
      BY <2>1, <3>1, <3>2, <1>4, <1>7 DEF Follows
    <3>4. p + 1 \in Samples
      BY <2>4, <1>4, DivideFacts DEF Samples
    <3> QED BY <3>3, <3>4
  <2> QED BY <2>3, <2>4
<1> QED BY <1>6, <1>8, <1>9

-----------------------------------------------------------------------------
(* The inductive invariant.                                                *)

LEMMA InvInit == Init => IInv
<1> SUFFICES ASSUME Init PROVE IInv
  OBVIOUS
<1>1. txDivide \in TxDivides /\ txDivide \in Nat
  BY DividesAssumption DEF Init
<1>2. TxTypeOK
  <2>1. 0 \in 0 .. txDivide
    BY <1>1
  <2>2. [place \in Bits |-> TRUE] \in Words /\ AllOnes \in [Places -> BOOLEAN]
    BY DEF Words, AllOnes
  <2> QED BY <2>1, <2>2 DEF Init, TxInit, TxTypeOK
<1>3. RxTypeOK
  <2>1. 0 \in 0 .. rxDivide - 1 /\ 0 \in 0 .. dataBitNb
    BY DivideFacts
  <2>2. [place \in Bits |-> FALSE] \in Words
    BY DEF Words
  <2> QED BY <2>1, <2>2 DEF Init, RxInit, RxTypeOK
<1>4. Len(pending) <= 1
  BY DEF Init
<1>5. Idle
  BY DEF Init, TxInit, RxInit, Idle, ReceiverAtRest
<1> QED BY <1>1, <1>2, <1>3, <1>4, <1>5 DEF IInv, Phase, LinkType, TypeOK

\* The types, but for the length of the record and the counter of bits, which
\* follow from what the receiver holds.
LEMMA TypeStep ==
    ASSUME LinkType, NEW send \in BOOLEAN, NEW dataIn \in Words, Cycle(send, dataIn),
           rxCounter' \in 0 .. dataBitNb, Len(pending') <= 1
    PROVE  LinkType'
<1>1. /\ txDivide \in Nat /\ txDivide >= 1 /\ txDivide' = txDivide
      /\ txDividerCounter \in 0 .. txDivide /\ txData \in Words /\ send1 \in BOOLEAN
  BY DividesAssumption DEF LinkType, TypeOK, TxTypeOK, Cycle, TxCycle
<1>2. txDividerCounter' \in 0 .. txDivide
  BY <1>1 DEF Cycle, TxCycle, txShiftEnable
<1>3. txData' \in Words /\ send1' \in BOOLEAN
  BY <1>1 DEF Cycle, TxCycle
<1>4. txShiftReg' \in [Places -> BOOLEAN]
  <2>1. Frame(txData) \in [Places -> BOOLEAN]
    <3>1. \A place \in Places : Frame(txData)[place] \in BOOLEAN
      <4> TAKE place \in Places
      <4>1. CASE place = high
        BY <4>1, <1>1, FrameFacts
      <4>2. CASE place # high
        <5>1. place < high
          BY <4>2, PlaceFacts
        <5> QED BY <5>1, <1>1, FrameFacts
      <4> QED BY <4>1, <4>2
    <3> QED BY <3>1 DEF Frame
  <2>2. txShiftReg \in [Places -> BOOLEAN]
    BY DEF LinkType, TypeOK, TxTypeOK
  <2>3. Shifted(txShiftReg) \in [Places -> BOOLEAN]
    <3>1. \A place \in Places : place # high => place + 1 \in Places
      BY PlaceFacts
    <3> QED BY <2>2, <3>1 DEF Shifted
  <2> QED BY <2>1, <2>2, <2>3, <1>1 DEF Cycle, TxCycle
<1>5. TypeOK /\ RxCycle(TxD) /\ TxD \in BOOLEAN
  BY DEF LinkType, Cycle, TxD
<1>6. rxDelayed' \in BOOLEAN
  BY <1>5, RxStep
<1>7. rxDividerCounter' \in 0 .. rxDivide - 1
  <2>1. rxDividerCounter \in 0 .. rxDivide - 1
    BY <1>5 DEF TypeOK, RxTypeOK
  <2>2. \/ rxDividerCounter' = rxDivide \div 2
        \/ rxDividerCounter' = 0
        \/ rxDividerCounter # rxDivide - 1 /\ rxDividerCounter' = rxDividerCounter + 1
    BY <1>5, RxStep
  <2> QED BY <2>1, <2>2, DivideFacts
<1>8. rxShiftReg' \in Words
  <2>1. rxShiftReg \in [Bits -> BOOLEAN]
    BY <1>5 DEF TypeOK, RxTypeOK, Words
  <2>2. \A place \in Bits : place # dataBitNb - 1 => place + 1 \in Bits
    BY DivideFacts DEF Bits
  <2> QED BY <1>5, <2>1, <2>2 DEF RxCycle, Words
<1>9. rxReceiving' \in BOOLEAN /\ rxDataValid' \in BOOLEAN
  <2>1. rxReceiving \in BOOLEAN /\ rxDataValid \in BOOLEAN
    BY <1>5 DEF TypeOK, RxTypeOK
  <2>2. detectReceive(TxD)
    BY <1>5 DEF RxCycle
  <2>3. CASE rxSample(TxD) /\ rxCounter = dataBitNb - 1
    BY <2>1, <2>2, <2>3 DEF detectReceive
  <2>4. CASE rxSample(TxD) /\ rxCounter # dataBitNb - 1
    BY <2>1, <2>2, <2>4 DEF detectReceive
  <2>5. CASE ~rxSample(TxD)
    BY <2>1, <2>2, <2>5 DEF detectReceive
  <2> QED BY <2>3, <2>4, <2>5
<1>10. TxTypeOK' /\ RxTypeOK'
  BY <1>1, <1>2, <1>3, <1>4, <1>6, <1>7, <1>8, <1>9 DEF TxTypeOK, RxTypeOK
<1> QED BY <1>1, <1>10 DEF LinkType, TypeOK

\* No more than one word is on its way, and the counter of bits keeps its width.
LEMMA PhaseBounds == Phase => rxCounter \in 0 .. dataBitNb /\ Len(pending) <= 1
<1> SUFFICES ASSUME Phase PROVE rxCounter \in 0 .. dataBitNb /\ Len(pending) <= 1
  OBVIOUS
<1>1. 0 \in 0 .. dataBitNb /\ \A s \in Samples : s # 0 => s - 1 \in 0 .. dataBitNb
  BY DivideFacts DEF Samples
<1>2. Len(<<>>) <= 1 /\ Len(<<txData>>) <= 1
  OBVIOUS
<1>3. CASE Idle
  BY <1>1, <1>2, <1>3 DEF Idle, ReceiverAtRest
<1>4. ASSUME NEW p \in Places, InFrame(p)
      PROVE  rxCounter \in 0 .. dataBitNb /\ Len(pending) <= 1
  <2>1. CASE Starts(p) \/ Rests(p)
    BY <1>1, <1>2, <2>1 DEF Starts, Rests, ReceiverAtRest
  <2>2. ASSUME NEW s \in Samples, Received(s)
        PROVE  rxCounter \in 0 .. dataBitNb /\ Len(pending) <= 1
    BY <1>1, <1>2, <2>2 DEF Received
  <2> QED BY <1>4, <2>1, <2>2 DEF InFrame
<1> QED BY <1>3, <1>4 DEF Phase

LEMMA PhaseBoundsNext == Phase' => (rxCounter \in 0 .. dataBitNb /\ Len(pending) <= 1)'
<1>1. Phase => rxCounter \in 0 .. dataBitNb /\ Len(pending) <= 1
  BY PhaseBounds
<1> QED BY <1>1, PTL

\* The user stores a word.
LEMMA IdleSend ==
    ASSUME LinkType, Idle, ~txBusy, NEW dataIn \in Words, Cycle(TRUE, dataIn)
    PROVE  Idle'
<1>1. ~send1 /\ pending = <<>> /\ ~rxDataValid
  BY DEF txBusy, Idle, ReceiverAtRest
<1>2. RxCycle(TRUE)
  BY IdleLine DEF Cycle, Idle
<1>3. ReceiverAtRest' /\ rxDelayed'
  BY <1>2, RestStep DEF Idle, LinkType
<1>4. txShiftReg' = AllOnes
  <2>1. txData \in Words /\ 0 \in Places
    BY PlaceFacts, DivideFacts DEF LinkType, TypeOK, TxTypeOK
  <2>2. Shifted(AllOnes) = AllOnes
    BY <2>1, RegisterFacts
  <2> QED BY <1>1, <2>2 DEF Cycle, TxCycle, Idle
<1>5. send1' = TRUE /\ txData' = dataIn /\ pending' = <<dataIn>>
  BY <1>1 DEF Cycle, TxCycle
<1> QED BY <1>3, <1>4, <1>5 DEF Idle

\* Nothing is stored: the frame of a word that was begins, if there is one.
LEMMA IdleWait ==
    ASSUME LinkType, Idle, Cycle(FALSE, txData)
    PROVE  Phase'
<1>1. RxCycle(TRUE)
  BY IdleLine DEF Cycle, Idle
<1>2. ReceiverAtRest' /\ rxDelayed' = TRUE
  BY <1>1, RestStep, RxStep DEF Idle, LinkType
<1>3. txData' = txData /\ ~send1' /\ pending' = pending
  BY DEF Cycle, TxCycle, Idle, ReceiverAtRest
<1>4. txData \in Words /\ 0 \in Places
  BY PlaceFacts, DivideFacts DEF LinkType, TypeOK, TxTypeOK
<1>5. CASE send1
  <2>1. txShiftReg' = RegisterAt(0) /\ txDividerCounter' = 1
    BY <1>4, <1>5, RegisterFacts DEF Cycle, TxCycle, txShiftEnable
  <2>2. RegisterAt(0)' = RegisterAt(0)
    BY <1>3 DEF RegisterAt
  <2>3. txDivide' = txDivide /\ txDivide \in Nat /\ txDivide >= 1
    BY DividesAssumption DEF Cycle, TxCycle, LinkType
  <2>4. Sending(0)'
    BY <1>3, <2>1, <2>2, <2>3 DEF Sending
  <2>5. Starts(0)'
    BY <1>2, <1>3, <1>5, <2>1 DEF Starts, Idle
  <2> QED BY <1>4, <2>4, <2>5 DEF InFrame, Phase
<1>6. CASE ~send1
  <2>1. Shifted(AllOnes) = AllOnes
    BY <1>4, RegisterFacts
  <2>2. txShiftReg' = AllOnes
    BY <1>6, <2>1 DEF Cycle, TxCycle, Idle
  <2> QED BY <1>2, <1>3, <1>6, <2>2 DEF Idle, Phase
<1> QED BY <1>5, <1>6

\* The next period of a frame whose word the receiver has.
LEMMA RestsNext ==
    ASSUME LinkType, NEW p \in Places, p > dataBitNb, Sending(p), Cycle(FALSE, txData),
           ReceiverAtRest', rxDelayed', pending' = <<>>
    PROVE  Phase'
<1>1. /\ txData' = txData /\ ~send1' /\ txDivide' = txDivide
      /\ txDivide \in Nat /\ txDivide >= 1 /\ txDividerCounter \in 1 .. txDivide
      /\ TxCycle(FALSE, txData)
  BY DividesAssumption DEF Cycle, TxCycle, LinkType, Sending
<1>2. \A q : RegisterAt(q)' = RegisterAt(q)
  BY <1>1 DEF RegisterAt
<1>3. CASE txDividerCounter < txDivide
  <2>1. Sending(p)'
    <3>1. txShiftReg' = RegisterAt(p) /\ txDividerCounter' = txDividerCounter + 1
      BY <1>1, <1>3, TxStep
    <3> QED BY <1>1, <1>2, <1>3, <3>1 DEF Sending
  <2>2. Rests(p)'
    BY DEF Rests
  <2> QED BY <2>1, <2>2 DEF InFrame, Phase
<1>4. CASE txDividerCounter = txDivide /\ p < high
  <2>1. p + 1 \in Places /\ p + 1 > dataBitNb
    BY <1>4, PlaceFacts, DivideFacts
  <2>2. Sending(p + 1)'
    <3>1. txShiftReg' = RegisterAt(p + 1) /\ txDividerCounter' = 1
      BY <1>1, <1>4, TxStep
    <3> QED BY <1>1, <1>2, <3>1 DEF Sending
  <2>3. Rests(p + 1)'
    BY <2>1 DEF Rests
  <2> QED BY <2>1, <2>2, <2>3 DEF InFrame, Phase
<1>5. CASE txDividerCounter = txDivide /\ p = high
  <2>1. txShiftReg' = AllOnes
    BY <1>1, <1>5, TxStep
  <2>2. Idle'
    BY <1>1, <2>1 DEF Idle
  <2> QED BY <2>2 DEF Phase
<1> QED BY <1>1, <1>3, <1>4, <1>5, PlaceFacts

\* The receiver sees the edge of the start bit and sets its divider.
LEMMA StartsWait ==
    ASSUME LinkType, Sending(0), Starts(0), Cycle(FALSE, txData)
    PROVE  Phase'
<1>1. 0 \in Places /\ 0 \in Samples /\ 0 \in 0 .. 0 /\ 1 \in 1 .. dataBitNb + 1
  BY PlaceFacts, DivideFacts DEF Samples
<1>2. txData \in Words /\ txDivide \in Nat /\ txDivide >= 2 /\ TypeOK
  BY <1>1, DriftFacts DEF LinkType, TypeOK, TxTypeOK
<1>3. TxD = FALSE
  <2>1. TxD = FrameBit(0)
    BY <1>1, <1>2, LineFacts DEF Sending
  <2> QED BY <2>1 DEF FrameBit
<1>4. RxCycle(FALSE) /\ TxCycle(FALSE, txData)
  BY <1>3 DEF Cycle
<1>5. rxDelayed # FALSE
  BY DEF Starts
<1>6. /\ rxDelayed' = FALSE /\ rxDividerCounter' = rxDivide \div 2
      /\ rxCounter' = 0 /\ ~rxDataValid' /\ ~rxReceiving'
  BY <1>2, <1>4, <1>5, RxStep DEF Starts, ReceiverAtRest
<1>7. /\ txData' = txData /\ ~send1' /\ txDivide' = txDivide
      /\ txShiftReg' = RegisterAt(0) /\ txDividerCounter' = 2
  <2>1. txDividerCounter = 1 /\ txDividerCounter < txDivide /\ txDivide' = txDivide
    BY <1>2, <1>4 DEF Starts, TxCycle
  <2>2. txShiftReg' = RegisterAt(0) /\ txDividerCounter' = txDividerCounter + 1
    BY <1>1, <1>4, <2>1, TxStep
  <2>3. txData' = txData /\ ~send1'
    BY <1>4 DEF TxCycle
  <2> QED BY <2>1, <2>2, <2>3
<1>8. pending' = <<txData>>
  BY PendingStep DEF Starts, ReceiverAtRest
<1>9. Sending(0)'
  BY <1>2, <1>7 DEF Sending, RegisterAt
<1>10. Tracks(0, 0, 0)'
  <2>1. Seen(0)' = 0
    BY <1>7 DEF Seen
  <2>2. \A q \in 0 .. 0 : FrameBit(q)' = FALSE
    BY DEF FrameBit
  <2>3. rxDividerCounter' + (0 - 0) * rxDivide =
          (0 - 0) * txDivide' + txDividerCounter' - 2 + rxDivide \div 2
    BY <1>2, <1>6, <1>7, DivideFacts
  <2>4. 0 \in {0, 0 + 1} /\ 0 <= 0
    OBVIOUS
  <2>5. \A q \in 0 .. Seen(0)' : FrameBit(q)' = rxDelayed'
    BY <1>6, <2>1, <2>2
  <2> QED BY <2>1, <2>3, <2>4, <2>5 DEF Tracks
<1>11. Received(0)'
  <2>1. \A place \in Bits : ~(place + 0 >= dataBitNb)
    BY DivideFacts DEF Bits
  <2> QED BY <1>6, <1>7, <1>8, <2>1, DivideFacts DEF Received
<1> QED BY <1>1, <1>9, <1>10, <1>11 DEF InFrame, Phase

\* A period of a frame the receiver follows.
LEMMA TracksWait ==
    ASSUME LinkType, NEW p \in Places, NEW s \in Samples, NEW e \in 0 .. p,
           Sending(p), Tracks(p, s, e), Received(s), Cycle(FALSE, txData)
    PROVE  Phase'
<1>1. CASE p = dataBitNb + 1 /\ ReceiverAtRest' /\ rxDelayed' = TRUE /\ pending' = <<>>
  <2>1. p > dataBitNb
    BY <1>1, DivideFacts
  <2> QED BY <1>1, <2>1, RestsNext
<1>2. ASSUME NEW s2 \in Samples, NEW e2 \in 0 .. p, Follows(p, s2, e2)
      PROVE  Phase'
  <2>1. /\ txData' = txData /\ ~send1' /\ txDivide' = txDivide
        /\ txDivide \in Nat /\ txDivide >= 2 /\ txDividerCounter \in 1 .. txDivide
        /\ TxCycle(FALSE, txData) /\ p \in Nat
    <3>1. 1 \in 1 .. dataBitNb + 1
      BY DivideFacts
    <3> QED BY <3>1, DriftFacts, PlaceFacts DEF Cycle, TxCycle, LinkType, Sending
  <2>2. \A q : RegisterAt(q)' = RegisterAt(q) /\ FrameBit(q)' = FrameBit(q)
    BY <2>1 DEF RegisterAt, FrameBit
  <2>3. CASE txDividerCounter < txDivide
    <3>1. txShiftReg' = RegisterAt(p) /\ txDividerCounter' = txDividerCounter + 1
      BY <2>1, <2>3, TxStep
    <3>2. Sending(p)'
      BY <2>1, <2>2, <2>3, <3>1 DEF Sending
    <3>3. Tracks(p, s2, e2)'
      <4>1. Seen(p)' = p
        BY <2>1, <3>1 DEF Seen
      <4>2. rxDividerCounter' + (s2 - e2) * rxDivide =
              (p - e2) * txDivide + txDividerCounter' - 2 + rxDivide \div 2
        <5>1. (p - e2) * txDivide \in Int
          BY <2>1
        <5> QED BY <1>2, <2>1, <3>1, <5>1, DivideFacts DEF Follows
      <4> QED BY <1>2, <2>1, <2>2, <4>1, <4>2 DEF Tracks, Follows
    <3> QED BY <1>2, <3>2, <3>3 DEF Follows, InFrame, Phase
  <2>4. CASE txDividerCounter = txDivide
    <3>1. s2 = p + 1 /\ p < high /\ p + 1 \in Places /\ e2 \in 0 .. p + 1
      BY <1>2, <2>1, <2>4, PlaceFacts, DivideFacts DEF Follows, Samples
    <3>2. txShiftReg' = RegisterAt(p + 1) /\ txDividerCounter' = 1
      BY <2>1, <2>4, <3>1, TxStep
    <3>3. Sending(p + 1)'
      BY <2>1, <2>2, <3>2 DEF Sending
    <3>4. Tracks(p + 1, p + 1, e2)'
      <4>1. Seen(p + 1)' = p
        BY <2>1, <3>2 DEF Seen
      <4>2. rxDividerCounter' + (p + 1 - e2) * rxDivide =
              (p + 1 - e2) * txDivide + txDividerCounter' - 2 + rxDivide \div 2
        <5>1. /\ (p - e2) * txDivide \in Int
              /\ (p + 1 - e2) * txDivide = (p - e2) * txDivide + txDivide
          BY <2>1
        <5>2. rxDividerCounter' + (p + 1 - e2) * rxDivide =
                (p - e2) * txDivide + txDivide - 1 + rxDivide \div 2
          BY <1>2, <2>4, <3>1 DEF Follows
        <5> QED BY <2>1, <3>2, <5>1, <5>2, DivideFacts
      <4> QED BY <1>2, <2>1, <2>2, <4>1, <4>2 DEF Tracks, Follows
    <3> QED BY <1>2, <3>1, <3>3, <3>4 DEF Follows, InFrame, Phase
  <2> QED BY <2>1, <2>3, <2>4
<1> QED BY <1>1, <1>2, TracksStep

LEMMA InvNext == IInv /\ [Next]_vars => IInv'
<1> SUFFICES ASSUME IInv, [Next]_vars PROVE IInv'
  OBVIOUS
<1>0. LinkType /\ Phase
  BY DEF IInv
<1>1. CASE Send
  <2>1. PICK dataIn \in Words : Cycle(TRUE, dataIn)
    BY <1>1 DEF Send
  <2>2. Idle
    <3> SUFFICES ASSUME NEW p \in Places, InFrame(p) PROVE FALSE
      BY <1>0 DEF Phase
    <3>1. txShiftReg # AllOnes
      BY <1>0, RegisterFacts DEF InFrame, Sending, LinkType, TypeOK, TxTypeOK
    <3> QED BY <1>1, <3>1 DEF Send, txBusy, txSendingByteAndStop
  <2>3. Idle'
    BY <1>0, <1>1, <2>1, <2>2, IdleSend DEF Send
  <2>4. Phase'
    BY <2>3 DEF Phase
  <2>5. LinkType'
    BY <1>0, <2>1, <2>4, PhaseBoundsNext, TypeStep
  <2> QED BY <2>4, <2>5 DEF IInv
<1>2. CASE Wait
  <2>1. Cycle(FALSE, txData) /\ txData \in Words
    BY <1>0, <1>2 DEF Wait, LinkType, TypeOK, TxTypeOK
  <2>2. ASSUME Idle PROVE Phase'
    BY <1>0, <2>1, <2>2, IdleWait
  <2>3. ASSUME NEW p \in Places, InFrame(p) PROVE Phase'
    <3>1. CASE Starts(p)
      <4>1. p = 0
        BY <3>1 DEF Starts
      <4> QED BY <1>0, <2>1, <2>3, <3>1, <4>1, StartsWait DEF InFrame
    <3>2. CASE Rests(p)
      <4>1. FrameBit(p) = TRUE /\ TxD = FrameBit(p)
        BY <2>1, <2>3, <3>2, FrameFacts, LineFacts DEF Rests, InFrame, Sending
      <4>2. RxCycle(TRUE)
        BY <2>1, <4>1 DEF Cycle
      <4>3. ReceiverAtRest' /\ rxDelayed'
        BY <1>0, <3>2, <4>2, RestStep DEF Rests, LinkType
      <4>4. pending' = <<>>
        BY <2>1, <3>2, PendingStep DEF Rests
      <4> QED BY <1>0, <2>1, <2>3, <3>2, <4>3, <4>4, RestsNext DEF Rests, InFrame
    <3>3. ASSUME NEW s \in Samples, NEW e \in 0 .. p, Tracks(p, s, e), Received(s)
          PROVE  Phase'
      BY <1>0, <2>1, <2>3, <3>3, TracksWait DEF InFrame
    <3> QED BY <2>3, <3>1, <3>2, <3>3 DEF InFrame
  <2>4. Phase'
    BY <1>0, <2>2, <2>3 DEF Phase
  <2>5. LinkType'
    BY <1>0, <2>1, <2>4, PhaseBoundsNext, TypeStep
  <2> QED BY <2>4, <2>5 DEF IInv
<1>3. CASE UNCHANGED vars
  <2>1. UNCHANGED <<txDivide, txDividerCounter, txData, send1, txShiftReg, rxDividerCounter,
                    rxDelayed, rxShiftReg, rxReceiving, rxDataValid, rxCounter, pending>>
    BY <1>3 DEF vars, txVars, rxVars
  <2>2. LinkType'
    BY <1>0, <2>1 DEF LinkType, TypeOK, TxTypeOK, RxTypeOK
  <2>3. Idle => Idle'
    BY <2>1 DEF Idle, ReceiverAtRest
  <2>4. ASSUME NEW p \in Places, InFrame(p) PROVE InFrame(p)'
    <3>1. \A q : FrameBit(q)' = FrameBit(q) /\ RegisterAt(q)' = RegisterAt(q)
      BY <2>1 DEF FrameBit, RegisterAt
    <3>2. /\ Sending(p)' <=> Sending(p)
          /\ Starts(p)' <=> Starts(p)
          /\ Rests(p)' <=> Rests(p)
      BY <2>1, <3>1 DEF Sending, Starts, Rests, ReceiverAtRest
    <3>3. ASSUME NEW s, NEW e, Tracks(p, s, e), Received(s) PROVE Tracks(p, s, e)' /\ Received(s)'
      <4>1. Seen(p)' = Seen(p)
        BY <2>1 DEF Seen
      <4> QED BY <2>1, <3>1, <3>3, <4>1 DEF Tracks, Received
    <3> QED BY <2>4, <3>2, <3>3 DEF InFrame
  <2> QED BY <1>0, <2>2, <2>3, <2>4 DEF IInv, Phase
<1> QED BY <1>1, <1>2, <1>3 DEF Next

\* With the last sample the register holds the word.
LEMMA StrobeFacts == IInv => DeliversWhatWasSent
<1> SUFFICES ASSUME IInv, rxDataValid
             PROVE  pending # <<>> /\ rxShiftReg = Head(pending)
  BY DEF DeliversWhatWasSent
<1>1. PICK s \in Samples : Received(s)
  BY DEF IInv, Phase, Idle, InFrame, Starts, Rests, ReceiverAtRest
<1>2. s = dataBitNb + 1 /\ pending = <<txData>>
  BY <1>1 DEF Received
<1>3. txData \in [Bits -> BOOLEAN] /\ rxShiftReg \in [Bits -> BOOLEAN]
  BY DEF IInv, LinkType, TypeOK, TxTypeOK, RxTypeOK, Words
<1>4. ASSUME NEW place \in Bits PROVE rxShiftReg[place] = txData[place]
  <2>1. /\ place + s >= dataBitNb /\ place + s - dataBitNb = place + 1
        /\ place + 1 \in 1 .. dataBitNb /\ place + 1 # 0 /\ (place + 1) - 1 = place
    BY <1>2, DivideFacts DEF Bits
  <2>2. rxShiftReg[place] = FrameBit(place + 1)
    BY <1>1, <2>1 DEF Received
  <2>3. FrameBit(place + 1) = txData[place]
    BY <1>3, <2>1 DEF FrameBit
  <2> QED BY <2>2, <2>3
<1>5. rxShiftReg = txData
  BY <1>3, <1>4
<1> QED BY <1>2, <1>5

\* The counters and registers of both ends keep their widths, and the sender
\* never gives a word before the one before it was received, for every length of
\* the words and every pair of dividers within the tolerance.
THEOREM LinkTypeCorrect == Spec => []TypeOK
<1>1. IInv => TypeOK
  BY DEF IInv, LinkType
<1> QED BY <1>1, InvInit, InvNext, PTL DEF Spec

\* Every strobe of the receiver brings the word that was sent last, whole and
\* once, over a line whose two ends count bits of different lengths: the end flag
\* of the register, the edges that set the divider and the counter that ends a
\* word work together for every word and every pause between two words.
THEOREM LinkDelivers == Spec => []DeliversWhatWasSent
BY InvInit, InvNext, StrobeFacts, PTL DEF Spec
=============================================================================
