--------------------------- MODULE FifoBram_proofs ---------------------------
(***************************************************************************)
(* Theorems about FifoBram for every depth and every set of words, each    *)
(* from the inductive invariant IInv.                                      *)
(***************************************************************************)
EXTENDS FifoBram, TLAPS

\* A FIFO of two words is no FIFO: a read together with the second write leaves
\* sWriteFirst for sReadWrite with the counters equal, and its full is not seen.
MoreThanTwoWords == CounterRange > 2

IInv == TypeOK /\ StateTellsTheLimits

\* The RAM has at least two locations.
LEMMA RangeFacts ==
    /\ CounterRange \in Nat
    /\ CounterRange >= 2
    /\ 0 \in Address
    /\ Address \subseteq Nat
  BY CounterAssumption, DepthAssumption DEF Address

\* A counter stays an address when it is incremented, and never stays in place.
LEMMA IncrementedFacts ==
    ASSUME NEW c \in Address
    PROVE  /\ Incremented(c) \in Address
           /\ Incremented(c) # c
  BY RangeFacts DEF Address, Incremented

\* With more than two locations, neither do two increments come back.
LEMMA IncrementedTwice ==
    ASSUME MoreThanTwoWords, NEW c \in Address
    PROVE  Incremented(Incremented(c)) # c
  BY RangeFacts DEF Address, Incremented, MoreThanTwoWords

\* Incrementing is injective on the addresses.
LEMMA IncrementedInjective ==
    ASSUME NEW c \in Address, NEW d \in Address, c # d
    PROVE  Incremented(c) # Incremented(d)
  BY RangeFacts DEF Address, Incremented

\* The state machine stays in its seven states, whatever the inputs.
LEMMA ControlType ==
    ASSUME NEW write \in BOOLEAN, NEW read \in BOOLEAN
    PROVE  fifoControl(write, read) \in FifoStates
  BY DEF fifoControl, NextOfOperation, FifoStates

LEMMA TypeInit == Init => TypeOK
  BY RangeFacts, DataAssumption DEF Init, TypeOK, FifoStates

LEMMA TypeNext == TypeOK /\ [Next]_vars => TypeOK'
<1> SUFFICES ASSUME TypeOK, [Next]_vars PROVE TypeOK'
  OBVIOUS
<1>1. CASE RisingEdge
  <2>1. PICK write \in BOOLEAN, read \in BOOLEAN, dataIn \in Data : Cycle(write, read, dataIn)
    BY <1>1 DEF RisingEdge
  <2>2. writeCounter' \in Address /\ readCounter' \in Address
    BY <2>1, IncrementedFacts DEF Cycle, TypeOK
  <2>3. memoryArray' \in [Address -> Data \union {Unset}]
    BY <2>1 DEF Cycle, TypeOK
  <2>4. fifoState' \in FifoStates
    BY <2>1, ControlType DEF Cycle
  <2>5. dataOut' \in Data \union {Unset}
    BY <2>1, IncrementedFacts DEF Cycle, TypeOK, readMem
  <2> QED BY <2>2, <2>3, <2>4, <2>5 DEF TypeOK
<1>2. CASE Reset
  BY <1>2, RangeFacts, DataAssumption DEF Reset, TypeOK, FifoStates
<1>3. CASE UNCHANGED vars
  BY <1>3 DEF vars, TypeOK
<1> QED BY <1>1, <1>2, <1>3 DEF Next

LEMMA LimitsInit == Init => StateTellsTheLimits
  BY DEF Init, StateTellsTheLimits

LEMMA LimitsNext ==
    ASSUME MoreThanTwoWords, IInv, [Next]_vars
    PROVE  StateTellsTheLimits'
<1> USE DEF IInv
<1>1. CASE RisingEdge
  <2>1. PICK write \in BOOLEAN, read \in BOOLEAN, dataIn \in Data : Cycle(write, read, dataIn)
    BY <1>1 DEF RisingEdge
  <2>2. /\ Incremented(writeCounter) # writeCounter
        /\ Incremented(readCounter) # readCounter
        /\ Incremented(Incremented(readCounter)) # readCounter
        /\ writeCounter # readCounter => Incremented(writeCounter) # Incremented(readCounter)
    BY IncrementedFacts, IncrementedInjective, IncrementedTwice DEF TypeOK
  <2> USE <2>1, <2>2
          DEF Cycle, StateTellsTheLimits, fifoControl, NextOfOperation, empty_int,
              emptyCondition, fullCondition, TypeOK, FifoStates
  <2>3. CASE fifoState = "sEmpty"
    BY <2>3
  <2>4. CASE fifoState = "sFull"
    BY <2>4
  <2>5. CASE fifoState = "sRead"
    BY <2>5
  <2>6. CASE fifoState = "sWrite"
    BY <2>6
  <2>7. CASE fifoState = "sWriteFirst"
    BY <2>7
  <2>8. CASE fifoState = "sReadWrite" \/ fifoState = "sWait"
    BY <2>8
  <2> QED BY <2>3, <2>4, <2>5, <2>6, <2>7, <2>8
<1>2. CASE Reset
  BY <1>2 DEF Reset, StateTellsTheLimits
<1>3. CASE UNCHANGED vars
  BY <1>3 DEF vars, StateTellsTheLimits
<1> QED BY <1>1, <1>2, <1>3 DEF Next

\* The registers keep their widths and the state machine its states, for any
\* sequence of reads, writes and resets.
THEOREM TypeCorrect == Spec => []TypeOK
<1>1. QED BY TypeInit, TypeNext, PTL DEF Spec

\* With equal counters the state alone tells an empty FIFO from a full one: for
\* every RAM of more than two words, no partly filled state is reached with equal counters.
THEOREM LimitsCorrect ==
    ASSUME MoreThanTwoWords
    PROVE  Spec => []StateTellsTheLimits
<1>1. Init => IInv
  BY TypeInit, LimitsInit DEF IInv
<1>2. IInv /\ [Next]_vars => IInv'
  BY TypeNext, LimitsNext DEF IInv
<1>3. IInv => StateTellsTheLimits
  BY DEF IInv
<1> QED BY <1>1, <1>2, <1>3, PTL DEF Spec
-----------------------------------------------------------------------------
(***************************************************************************)
(* The refinement of Fifo: every step of the circuit is a step of the      *)
(* queue that Fill, Slot and memoryArray stand for.                        *)
(***************************************************************************)

LEMMA SlotFacts ==
    ASSUME TypeOK, NEW i \in 0 .. CounterRange
    PROVE  /\ i < CounterRange => Slot(i) \in Address
           /\ i = 0 => Slot(i) = readCounter
  BY RangeFacts DEF TypeOK, Slot, Address

\* The queue is empty or full exactly when the counters are equal, and a word is
\* written in the slot after its last one.
FillSound ==
    /\ Fill \in 0 .. CounterRange
    /\ Fill = 0 <=> writeCounter = readCounter /\ ~fullCondition
    /\ Fill = CounterRange <=> writeCounter = readCounter /\ fullCondition
    /\ Fill < CounterRange => Slot(Fill) = writeCounter

LEMMA FillFacts == TypeOK => FillSound
  BY RangeFacts DEF TypeOK, Fill, Slot, Address, FillSound

\* The words of the queue are a sequence of Fill memory locations.
QueueSound ==
    /\ Queue \in Seq(Data \union {Unset})
    /\ Len(Queue) = Fill
    /\ \A i \in 1 .. Fill : Queue[i] = memoryArray[Slot(i - 1)]
    /\ Queue = <<>> <=> Fill = 0

LEMMA QueueFacts == TypeOK => QueueSound
<1> SUFFICES ASSUME TypeOK PROVE QueueSound
  OBVIOUS
<1>1. Fill \in Nat /\ Fill <= CounterRange /\ CounterRange \in Nat
  BY FillFacts, RangeFacts DEF FillSound
<1>2. \A i \in 1 .. Fill : Slot(i - 1) \in Address
  <2> TAKE i \in 1 .. Fill
  <2>1. i - 1 \in 0 .. CounterRange /\ i - 1 < CounterRange
    BY <1>1
  <2> QED BY <2>1, SlotFacts
<1>3. \A i \in 1 .. Fill : memoryArray[Slot(i - 1)] \in Data \union {Unset}
  BY <1>2 DEF TypeOK
<1>4. Queue \in Seq(Data \union {Unset})
  BY <1>1, <1>3 DEF Queue
<1>5. Len(Queue) = Fill
  BY <1>1, <1>4 DEF Queue
<1>6. Queue = <<>> <=> Fill = 0
  BY <1>4, <1>5
<1> QED BY <1>4, <1>5, <1>6 DEF Queue, QueueSound

\* The same facts of the state after a step.
LEMMA FillFactsNext == TypeOK' => FillSound'
<1>1. TypeOK => FillSound
  BY FillFacts
<1> QED BY <1>1, PTL

LEMMA FillOneNext ==
    ASSUME writeCounter' \in Address, readCounter' \in Address,
           writeCounter' = Incremented(readCounter')
    PROVE  Fill' = 1
  BY RangeFacts, IncrementedFacts DEF Fill, Incremented, Address

LEMMA QueueFactsNext == TypeOK' => QueueSound'
<1>1. TypeOK => QueueSound
  BY QueueFacts
<1> QED BY <1>1, PTL

\* Whether an edge takes a word out of the queue or puts one in.
Takes(read) == read /\ ~empty_int
Puts(write) == write /\ ~fullCondition

\* A word is taken only from a non-empty queue, one is put only into a queue
\* that is not full.
LEMMA TakesAndPuts ==
    ASSUME IInv, NEW write \in BOOLEAN, NEW read \in BOOLEAN
    PROVE  /\ Takes(read) => Fill >= 1
           /\ Puts(write) => Fill < CounterRange
           /\ full = fullCondition
<1>1. full = fullCondition
  BY DEF full, fullCondition
<1>2. Takes(read) => Fill >= 1
  <2>1. SUFFICES ASSUME Takes(read), Fill = 0 PROVE FALSE
    BY FillFacts, RangeFacts DEF IInv, FillSound
  <2>2. writeCounter = readCounter /\ ~fullCondition
    BY <2>1, FillFacts DEF IInv, FillSound
  <2> QED BY <2>1, <2>2
          DEF IInv, StateTellsTheLimits, Takes, empty_int, emptyCondition, fullCondition
<1>3. Puts(write) => Fill < CounterRange
  BY FillFacts, RangeFacts DEF IInv, Puts, FillSound
<1> QED BY <1>1, <1>2, <1>3

\* The counters and the state follow the length of the queue.
LEMMA FillStep ==
    ASSUME MoreThanTwoWords, IInv, IInv',
           NEW write \in BOOLEAN, NEW read \in BOOLEAN, NEW dataIn \in Data,
           Cycle(write, read, dataIn)
    PROVE  Fill' = Fill - (IF Takes(read) THEN 1 ELSE 0)
                        + (IF Puts(write) THEN 1 ELSE 0)
<1> DEFINE distance(w, r) == IF w >= r THEN w - r ELSE w + CounterRange - r
<1>1. /\ Fill \in 0 .. CounterRange
      /\ Takes(read) => Fill >= 1
      /\ Puts(write) => Fill < CounterRange
  BY FillFacts, TakesAndPuts DEF IInv, FillSound
<1>2. /\ writeCounter \in 0 .. CounterRange - 1
      /\ readCounter \in 0 .. CounterRange - 1
      /\ CounterRange \in Nat
      /\ CounterRange > 2
  BY RangeFacts DEF IInv, TypeOK, Address, MoreThanTwoWords
<1>3. /\ writeCounter' = IF Puts(write) THEN Incremented(writeCounter) ELSE writeCounter
      /\ readCounter' = IF Takes(read) THEN Incremented(readCounter) ELSE readCounter
      /\ fifoState' = fifoControl(write, read)
  BY DEF Cycle, Puts, Takes
<1>4. Fill = IF writeCounter = readCounter /\ fullCondition
             THEN CounterRange ELSE distance(writeCounter, readCounter)
  BY <1>2 DEF Fill
<1>5. Fill' = IF writeCounter' = readCounter' /\ fullCondition'
              THEN CounterRange ELSE distance(writeCounter', readCounter')
  <2>1. writeCounter' \in Address /\ readCounter' \in Address
    BY DEF IInv, TypeOK
  <2> QED BY <2>1, <1>2 DEF Fill, Address
<1>6. ASSUME writeCounter' = readCounter'
      PROVE  fullCondition' <=> Fill - (IF Takes(read) THEN 1 ELSE 0)
                                     + (IF Puts(write) THEN 1 ELSE 0) = CounterRange
  <2>1. fifoState' \in {"sEmpty", "sRead", "sFull", "sWrite"}
    BY <1>6 DEF IInv, StateTellsTheLimits
  <2>2. fullCondition' <=> fifoState' \in {"sFull", "sWrite"}
    BY <1>6, <2>1 DEF fullCondition
  <2>3. CASE Takes(read) /\ Puts(write)
    <3>1. writeCounter = readCounter
      BY <1>6, <1>3, <2>3, IncrementedInjective DEF IInv, TypeOK
    <3>2. FALSE
      BY <3>1, <2>3 DEF IInv, StateTellsTheLimits, Takes, Puts, empty_int,
            emptyCondition, fullCondition
    <3> QED BY <3>2
  <2>4. CASE Takes(read) /\ ~Puts(write)
    <3>1. fifoState' \in {"sRead", "sReadWrite"}
      BY <1>3, <2>4 DEF Takes, Puts, fifoControl, NextOfOperation, empty_int,
            emptyCondition, IInv, TypeOK, FifoStates
    <3> QED BY <3>1, <2>1, <2>2, <2>4, <1>1, <1>2
  <2>5. CASE ~Takes(read) /\ Puts(write)
    <3>1. Fill = CounterRange - 1
      <4>1. Incremented(writeCounter) = readCounter
        BY <1>6, <1>3, <2>5
      <4>2. writeCounter # readCounter
        BY <4>1, <1>2 DEF Incremented
      <4>3. Fill = distance(writeCounter, readCounter)
        BY <4>2, <1>4
      <4> QED BY <4>1, <4>2, <4>3, <1>2 DEF Incremented
    <3>2. Fill > 1
      BY <3>1, <1>2
    <3>3. fifoState # "sEmpty" /\ ~emptyCondition
      BY <3>2, FillFacts DEF IInv, StateTellsTheLimits, emptyCondition, fullCondition, FillSound
    <3>4. fifoState # "sWriteFirst"
      BY <3>2, <1>2, <1>4 DEF IInv, StateTellsTheLimits, Incremented, fullCondition
    <3>5. ~empty_int
      BY <3>3, <3>4 DEF empty_int
    <3>6. ~read /\ write
      BY <2>5, <3>5 DEF Takes, Puts
    <3>7. fifoState' = "sWrite"
      BY <3>6, <3>3, <2>5, <1>3 DEF fifoControl, NextOfOperation, Puts, fullCondition,
            IInv, TypeOK, FifoStates
    <3> QED BY <3>1, <3>7, <2>2, <2>5, <1>2
  <2>6. CASE ~Takes(read) /\ ~Puts(write)
    <3>1. writeCounter = readCounter
      BY <1>6, <1>3, <2>6
    <3>2. CASE fullCondition
      <4>1. Fill = CounterRange
        BY <3>1, <3>2, <1>4
      <4>2. ~empty_int
        BY <3>2 DEF fullCondition, empty_int, emptyCondition
      <4>3. ~read
        BY <4>2, <2>6 DEF Takes
      <4>4. fifoState' = "sFull"
        BY <4>3, <3>2, <1>3 DEF fifoControl, fullCondition
      <4> QED BY <4>1, <4>4, <2>2, <2>6, <1>2
    <3>3. CASE ~fullCondition
      <4>1. Fill = 0
        BY <3>1, <3>3, <1>2, <1>4
      <4>2. fifoState \in {"sEmpty", "sRead"}
        BY <3>1, <3>3 DEF IInv, StateTellsTheLimits, fullCondition
      <4>3. ~write
        BY <3>3, <2>6 DEF Puts
      <4>4. fifoState' = "sEmpty"
        BY <4>2, <4>3, <3>1, <1>3 DEF fifoControl, emptyCondition
      <4> QED BY <4>1, <4>4, <2>2, <2>6, <1>2
    <3> QED BY <3>2, <3>3
  <2> QED BY <2>3, <2>4, <2>5, <2>6
<1>7. CASE Takes(read) /\ Puts(write)
  BY <1>1, <1>2, <1>3, <1>4, <1>5, <1>6, <1>7 DEF Incremented
<1>8. CASE Takes(read) /\ ~Puts(write)
  BY <1>1, <1>2, <1>3, <1>4, <1>5, <1>6, <1>8 DEF Incremented
<1>9. CASE ~Takes(read) /\ Puts(write)
  BY <1>1, <1>2, <1>3, <1>4, <1>5, <1>6, <1>9 DEF Incremented
<1>10. CASE ~Takes(read) /\ ~Puts(write)
  BY <1>1, <1>2, <1>3, <1>4, <1>5, <1>6, <1>10 DEF Incremented
<1> QED BY <1>7, <1>8, <1>9, <1>10

\* Taking a word renumbers the slots, and a word is put in the slot after the
\* last one, which none of the words of the queue occupies.
LEMMA SlotStep ==
    ASSUME TypeOK, NEW taken \in {0, 1}, NEW i \in 0 .. CounterRange - 1,
           i + taken <= CounterRange,
           readCounter' = IF taken = 1 THEN Incremented(readCounter) ELSE readCounter
    PROVE  Slot(i)' = IF i + taken = CounterRange THEN readCounter ELSE Slot(i + taken)
  BY RangeFacts DEF TypeOK, Address, Slot, Incremented

LEMMA SlotTypeNext ==
    ASSUME readCounter' \in Address, NEW i \in 0 .. CounterRange - 1
    PROVE  Slot(i)' \in Address
<1>1. \A c, j \in 0 .. CounterRange - 1 :
        (IF c + j < CounterRange THEN c + j ELSE c + j - CounterRange)
            \in 0 .. CounterRange - 1
  BY RangeFacts
<1>2. readCounter' \in 0 .. CounterRange - 1
  BY DEF Address
<1>3. Slot(i)' = IF readCounter' + i < CounterRange
                 THEN readCounter' + i ELSE readCounter' + i - CounterRange
  BY DEF Slot
<1> QED BY <1>1, <1>2, <1>3 DEF Address

LEMMA SlotsDiffer ==
    ASSUME TypeOK, NEW i \in 0 .. CounterRange - 1, NEW j \in 0 .. CounterRange - 1, i # j
    PROVE  Slot(i) # Slot(j)
  BY RangeFacts DEF TypeOK, Address, Slot

LEMMA QueueStep ==
    ASSUME MoreThanTwoWords, IInv, IInv',
           NEW write \in BOOLEAN, NEW read \in BOOLEAN, NEW dataIn \in Data,
           Cycle(write, read, dataIn)
    PROVE  LET kept == IF Takes(read) THEN Tail(Queue) ELSE Queue
           IN  Queue' = IF Puts(write) THEN Append(kept, dataIn) ELSE kept
<1> DEFINE taken == IF Takes(read) THEN 1 ELSE 0
           kept  == IF Takes(read) THEN Tail(Queue) ELSE Queue
           left  == Fill - taken
           Words == Data \union {Unset}
<1>1. /\ Fill \in Nat /\ Fill <= CounterRange
      /\ Takes(read) => Fill >= 1
      /\ Puts(write) => Fill < CounterRange
      /\ CounterRange \in Nat /\ CounterRange > 2
      /\ taken \in {0, 1}
  BY FillFacts, TakesAndPuts, RangeFacts DEF IInv, MoreThanTwoWords, FillSound
<1>2. left \in Nat /\ left + taken = Fill
  BY <1>1
<1>3. Fill' = left + (IF Puts(write) THEN 1 ELSE 0)
  BY <1>1, FillStep
<1>4. /\ Queue \in Seq(Words) /\ Len(Queue) = Fill
      /\ \A i \in 1 .. Fill : Queue[i] = memoryArray[Slot(i - 1)]
  BY QueueFacts DEF IInv, QueueSound
<1>5. /\ Queue' \in Seq(Words) /\ Len(Queue') = Fill'
      /\ \A i \in 1 .. Fill' : Queue'[i] = memoryArray'[Slot(i - 1)']
  <2>1. Queue' = [i \in 1 .. Fill' |-> memoryArray'[Slot(i - 1)']]
    BY DEF Queue
  <2>2. Fill' \in Nat /\ Fill' <= CounterRange
    BY <1>1, <1>2, <1>3
  <2>3. ASSUME NEW i \in 1 .. Fill' PROVE memoryArray'[Slot(i - 1)'] \in Words
    <3>1. i - 1 \in 0 .. CounterRange - 1
      BY <2>2, <1>1
    <3>2. Slot(i - 1)' \in Address
      BY <3>1, SlotTypeNext DEF IInv, TypeOK
    <3> QED BY <3>2 DEF IInv, TypeOK
  <2> HIDE DEF Words
  <2> QED BY <2>1, <2>2, <2>3
<1>6. /\ kept \in Seq(Words) /\ Len(kept) = left
      /\ \A i \in 1 .. left : kept[i] = memoryArray[Slot(i + taken - 1)]
  <2>1. CASE Takes(read)
    <3>1. Queue # <<>>
      BY <2>1, <1>1, <1>4
    <3>2. Tail(Queue) \in Seq(Words) /\ Len(Tail(Queue)) = Fill - 1
      BY <3>1, <1>4
    <3>3. \A i \in 1 .. Fill - 1 : Tail(Queue)[i] = Queue[i + 1]
      BY <3>1, <1>4
    <3>4. \A i \in 1 .. Fill - 1 : Tail(Queue)[i] = memoryArray[Slot(i + 1 - 1)]
      <4> TAKE i \in 1 .. Fill - 1
      <4>1. i + 1 \in 1 .. Fill
        BY <1>1
      <4> QED BY <4>1, <3>3, <1>4
    <3> QED BY <2>1, <3>2, <3>4
  <2>2. CASE ~Takes(read)
    <3>1. \A i \in 1 .. left : i + taken - 1 = i - 1
      BY <2>2, <1>1
    <3> QED BY <2>2, <3>1, <1>4, <1>1
  <2> QED BY <2>1, <2>2
<1>7. ASSUME NEW i \in 1 .. Fill'
      PROVE  Queue'[i] = IF i <= left THEN kept[i] ELSE dataIn
  <2>1. i \in 1 .. CounterRange /\ i - 1 \in 0 .. CounterRange - 1
    BY <1>1, <1>2, <1>3
  <2>2. readCounter' = IF taken = 1 THEN Incremented(readCounter) ELSE readCounter
    BY DEF Cycle, Takes
  <2>3. i - 1 + taken <= CounterRange
    BY <1>1, <1>2, <1>3, <2>1
  <2>4. i - 1 + taken # CounterRange
    BY <1>1, <1>2, <1>3, <2>1
  <2>5. Slot(i - 1)' = Slot(i - 1 + taken)
    BY <2>1, <2>2, <2>3, <2>4, <1>1, SlotStep DEF IInv
  <2>6. i + taken - 1 = i - 1 + taken
    BY <2>1, <1>1
  <2>7. i - 1 + taken \in 0 .. CounterRange - 1
    BY <2>1, <2>3, <2>4, <1>1
  <2>8. CASE i <= left
    <3>1. kept[i] = memoryArray[Slot(i - 1 + taken)]
      BY <2>8, <2>1, <2>6, <1>2, <1>6
    <3>2. i - 1 + taken < Fill
      BY <2>8, <2>1, <1>2, <1>1
    <3>3. Puts(write) => Slot(i - 1 + taken) # writeCounter
      <4> HAVE Puts(write)
      <4>1. Fill \in 0 .. CounterRange - 1 /\ Slot(Fill) = writeCounter
        BY <1>1, FillFacts DEF IInv, FillSound
      <4> QED BY <4>1, <3>2, <2>7, SlotsDiffer DEF IInv
    <3>4. memoryArray'[Slot(i - 1 + taken)] = memoryArray[Slot(i - 1 + taken)]
      BY <3>3, <2>7, SlotFacts DEF Cycle, Puts, IInv, TypeOK
    <3> QED BY <3>1, <3>4, <2>5, <1>5, <2>8
  <2>9. CASE ~(i <= left)
    <3>1. Puts(write) /\ i = left + 1
      BY <2>9, <2>1, <1>2, <1>3
    <3>2. i - 1 + taken = Fill
      BY <3>1, <1>1, <1>2
    <3>3. Slot(Fill) = writeCounter
      BY <3>1, <1>1, FillFacts DEF IInv, FillSound
    <3>4. memoryArray'[writeCounter] = dataIn
      BY <3>1 DEF Cycle, Puts, IInv, TypeOK
    <3> QED BY <2>5, <2>9, <3>2, <3>3, <3>4, <1>5
  <2> QED BY <2>8, <2>9
<1>8. CASE Puts(write)
  <2>1. dataIn \in Words
    OBVIOUS
  <2>2. /\ Append(kept, dataIn) \in Seq(Words)
        /\ Len(Append(kept, dataIn)) = left + 1
        /\ \A i \in 1 .. left + 1 :
             Append(kept, dataIn)[i] = IF i <= left THEN kept[i] ELSE dataIn
    BY <2>1, <1>2, <1>6
  <2>3. Len(Queue') = left + 1
    BY <1>3, <1>5, <1>8
  <2>4. \A i \in 1 .. left + 1 : Queue'[i] = Append(kept, dataIn)[i]
    BY <2>2, <1>3, <1>7, <1>8
  <2>5. Queue' = Append(kept, dataIn)
    BY <2>2, <2>3, <2>4, <1>5
  <2> QED BY <2>5, <1>8
<1>9. CASE ~Puts(write)
  <2>1. Fill' = left
    BY <1>2, <1>3, <1>9
  <2>2. \A i \in 1 .. left : Queue'[i] = kept[i]
    <3> TAKE i \in 1 .. left
    <3>1. i \in 1 .. Fill' /\ i <= left
      BY <2>1, <1>2
    <3> QED BY <3>1, <1>7
  <2>3. Queue' = kept
    BY <2>1, <2>2, <1>2, <1>5, <1>6
  <2> QED BY <2>3, <1>9
<1> QED BY <1>8, <1>9

LEMMA PromiseInit == Init => Promise!Init
<1> SUFFICES ASSUME Init PROVE Promise!Init
  OBVIOUS
<1>1. TypeOK
  BY TypeInit
<1>2. Fill = 0 /\ empty_int /\ ~full
  BY DEF Init, Fill, fullCondition, emptyCondition, empty_int, full
<1> QED BY <1>1, <1>2, QueueFacts DEF Promise!Init, Init, empty_int, emptyCondition, full, fullCondition, QueueSound

\* One edge of the circuit is one cycle of the promised FIFO.
LEMMA PromiseCycle ==
    ASSUME MoreThanTwoWords, IInv, IInv',
           NEW write \in BOOLEAN, NEW read \in BOOLEAN, NEW dataIn \in Data,
           Cycle(write, read, dataIn)
    PROVE  Promise!Cycle(write, read, dataIn)
<1>1. Queue' = IF write /\ ~full
               THEN Append(IF read /\ ~empty_int THEN Tail(Queue) ELSE Queue, dataIn)
               ELSE IF read /\ ~empty_int THEN Tail(Queue) ELSE Queue
  BY QueueStep, TakesAndPuts DEF Takes, Puts
<1>2. Len(Queue') = Fill' /\ (Queue' = <<>> <=> Fill' = 0)
  BY QueueFactsNext DEF IInv, QueueSound
<1>3. /\ Fill' = 0 <=> writeCounter' = readCounter' /\ ~fullCondition'
      /\ Fill' = CounterRange <=> writeCounter' = readCounter' /\ fullCondition'
  BY FillFactsNext DEF IInv, FillSound
<1>4. full' = (Len(Queue') = CounterRange)
  <2>1. fullCondition' => writeCounter' = readCounter'
    BY DEF IInv, StateTellsTheLimits, fullCondition
  <2>2. full' = fullCondition'
    BY DEF full, fullCondition
  <2> QED BY <2>1, <2>2, <1>2, <1>3 DEF fullCondition
<1>5. empty_int' \in BOOLEAN
  BY DEF empty_int, emptyCondition
<1>6. Queue' = <<>> => empty_int'
  BY <1>2, <1>3 DEF IInv, StateTellsTheLimits, empty_int, emptyCondition, fullCondition
<1>7. ASSUME empty_int', Queue' # <<>>
      PROVE  empty_int /\ Len(Queue') = 1
  <2>1. fifoState' = "sWriteFirst"
    BY <1>2, <1>3, <1>7 DEF empty_int, emptyCondition, fullCondition, IInv, StateTellsTheLimits
  <2>2. fifoState = "sEmpty"
    BY <2>1 DEF Cycle, fifoControl, NextOfOperation, IInv, TypeOK, FifoStates
  <2>3. writeCounter' = Incremented(readCounter')
    BY <2>1 DEF IInv, StateTellsTheLimits
  <2>4. Fill' = 1
    BY <2>3, FillOneNext DEF IInv, TypeOK
  <2> QED BY <2>2, <2>4, <1>2 DEF empty_int, emptyCondition
<1> QED BY <1>1, <1>4, <1>5, <1>6, <1>7 DEF Promise!Cycle

LEMMA PromiseNext ==
    ASSUME MoreThanTwoWords, IInv, IInv', [Next]_vars
    PROVE  [Promise!Next]_Promise!vars
<1>1. CASE RisingEdge
  <2>1. PICK write \in BOOLEAN, read \in BOOLEAN, dataIn \in Data : Cycle(write, read, dataIn)
    BY <1>1 DEF RisingEdge
  <2> QED BY <2>1, PromiseCycle DEF Promise!Next
<1>2. CASE Reset
  <2>1. Queue' = <<>>
    <3>1. writeCounter' = readCounter' /\ ~fullCondition'
      BY <1>2 DEF Reset, fullCondition
    <3> QED BY <3>1, FillFactsNext, QueueFactsNext DEF IInv, FillSound, QueueSound
  <2>2. empty_int' = TRUE /\ full' = FALSE
    BY <1>2 DEF Reset, empty_int, emptyCondition, full, fullCondition
  <2> QED BY <2>1, <2>2 DEF Promise!Next, Promise!Clear
<1>3. CASE UNCHANGED vars
  BY <1>3 DEF vars, Promise!vars, Queue, Fill, Slot, empty_int, emptyCondition, full, fullCondition
<1> QED BY <1>1, <1>2, <1>3 DEF Next

\* The circuit implements the FIFO it promises, for every set of words and every
\* RAM of more than two locations.
THEOREM FifoImplemented ==
    ASSUME MoreThanTwoWords
    PROVE  Spec => ImplementsFifo
<1>1. Init => IInv
  BY TypeInit, LimitsInit DEF IInv
<1>2. IInv /\ [Next]_vars => IInv'
  BY TypeNext, LimitsNext DEF IInv
<1>3. IInv /\ IInv' /\ [Next]_vars => [Promise!Next]_Promise!vars
  BY PromiseNext
<1> QED BY PromiseInit, <1>1, <1>2, <1>3, PTL DEF Spec, ImplementsFifo, Promise!Spec
-----------------------------------------------------------------------------
(***************************************************************************)
(* The registered read port.                                               *)
(***************************************************************************)

\* An edge does not write the location that will be the oldest, if its word is
\* already there.
LEMMA OldestNotWritten ==
    ASSUME IInv, NEW write \in BOOLEAN, NEW read \in BOOLEAN, NEW dataIn \in Data,
           Cycle(write, read, dataIn),
           Fill > 1 \/ (Fill = 1 /\ ~Takes(read))
    PROVE  /\ readMem(read) = memoryArray[readCounter']
           /\ memoryArray'[readCounter'] = memoryArray[readCounter']
<1>1. readCounter' = IF Takes(read) THEN Incremented(readCounter) ELSE readCounter
  BY DEF Cycle, Takes
<1>2. readMem(read) = memoryArray[readCounter']
  BY <1>1 DEF readMem, Takes
<1> DEFINE next == IF Takes(read) THEN 1 ELSE 0
<1>3. /\ Fill \in 0 .. CounterRange /\ next < Fill /\ next \in {0, 1}
      /\ CounterRange \in Nat
  BY FillFacts, RangeFacts DEF IInv, FillSound
<1>4. readCounter' = Slot(next) /\ readCounter' \in Address
  BY <1>1, RangeFacts, IncrementedFacts DEF IInv, TypeOK, Slot, Incremented, Address
<1>5. CASE Puts(write)
  <2>1. Fill < CounterRange /\ Slot(Fill) = writeCounter
    BY <1>5, FillFacts, TakesAndPuts DEF IInv, FillSound
  <2>2. next \in 0 .. CounterRange - 1 /\ Fill \in 0 .. CounterRange - 1 /\ next # Fill
    BY <1>3, <2>1
  <2>3. readCounter' # writeCounter
    BY <1>4, <2>1, <2>2, SlotsDiffer DEF IInv
  <2> QED BY <1>2, <1>4, <2>3 DEF Cycle, IInv, TypeOK
<1>6. CASE ~Puts(write)
  BY <1>2, <1>6 DEF Cycle, Puts
<1> QED BY <1>5, <1>6

\* The head of the queue is where the read counter points.
LEMMA HeadFacts == TypeOK /\ Fill > 0 => Head(Queue) = memoryArray[readCounter]
<1> SUFFICES ASSUME TypeOK, Fill > 0 PROVE Head(Queue) = memoryArray[readCounter]
  OBVIOUS
<1>1. /\ Queue \in Seq(Data \union {Unset}) /\ Len(Queue) = Fill /\ Fill \in Nat
      /\ \A i \in 1 .. Fill : Queue[i] = memoryArray[Slot(i - 1)]
  BY QueueFacts, FillFacts, RangeFacts DEF QueueSound, FillSound
<1>2. Head(Queue) = Queue[1] /\ 1 \in 1 .. Fill
  BY <1>1
<1>3. Slot(1 - 1) = readCounter
  BY RangeFacts DEF TypeOK, Slot, Address
<1> QED BY <1>1, <1>2, <1>3

LEMMA HeadFactsNext == (TypeOK /\ Fill > 0)' => (Head(Queue) = memoryArray[readCounter])'
<1>1. TypeOK /\ Fill > 0 => Head(Queue) = memoryArray[readCounter]
  BY HeadFacts
<1> QED BY <1>1, PTL

\* What an edge puts on the output.
LEMMA ShowsNext ==
    ASSUME MoreThanTwoWords, IInv, IInv', RisingEdge,
           ~empty_int', Fill > 1 \/ (Fill = 1 /\ readCounter' = readCounter)
    PROVE  dataOut' = Head(Queue')
<1>1. PICK write \in BOOLEAN, read \in BOOLEAN, dataIn \in Data : Cycle(write, read, dataIn)
  BY DEF RisingEdge
<1>2. readCounter' = readCounter => ~Takes(read)
  BY <1>1, IncrementedFacts DEF Cycle, Takes, IInv, TypeOK
<1>3. Fill > 1 \/ (Fill = 1 /\ ~Takes(read))
  BY <1>2
<1>4. dataOut' = memoryArray'[readCounter']
  BY <1>1, <1>3, OldestNotWritten DEF Cycle
<1>5. Fill' > 0
  <2>1. Fill \in Nat
    BY FillFacts, RangeFacts DEF IInv, FillSound
  <2> QED BY <1>1, <1>3, <2>1, FillStep
<1> QED BY <1>4, <1>5, HeadFactsNext DEF IInv

\* A word that waits behind another one, or alone, is shown from the edge on at
\* which it becomes the oldest: the look-ahead of the registered port is right in
\* every state of the counters, for every depth.
THEOREM OldestShown ==
    ASSUME MoreThanTwoWords
    PROVE  Spec => ShowsTheOldestWord
<1>1. Init => IInv
  BY TypeInit, LimitsInit DEF IInv
<1>2. IInv /\ [Next]_vars => IInv'
  BY TypeNext, LimitsNext DEF IInv
<1>3. IInv /\ IInv' /\ [Next]_vars =>
        [ ~empty_int' /\ (Fill > 1 \/ (Fill = 1 /\ readCounter' = readCounter))
              => dataOut' = Head(Queue') ]_vars
  <2>1. Reset => empty_int'
    BY DEF Reset, empty_int, emptyCondition
  <2> QED BY <2>1, ShowsNext DEF Next
<1> QED BY <1>1, <1>2, <1>3, PTL DEF Spec, ShowsTheOldestWord
=============================================================================
