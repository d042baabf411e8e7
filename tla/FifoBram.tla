------------------------------ MODULE FifoBram ------------------------------
(***************************************************************************)
(* The FIFO in a block RAM (architecture RTL of Memory.FIFO_bram): two     *)
(* address counters, the memory with its registered read port and a state  *)
(* machine that remembers the last operation, which is how it tells a full *)
(* FIFO from an empty one when the counters are equal. A step is one       *)
(* rising edge of the clock with the inputs of that edge, or the           *)
(* asynchronous reset. The initial state is the one after a reset.         *)
(***************************************************************************)
EXTENDS Naturals, Sequences, CommonLib

CONSTANTS Data,      \* the words: dataIn is one of them at every edge
          Zero,      \* the word with all bits at '0'
          Unset,     \* the contents of a RAM location before its first write
          depth      \* the generic depth

ASSUME DataAssumption == Zero \in Data /\ Unset \notin Data
ASSUME DepthAssumption == depth \in Nat /\ depth >= 2

VARIABLES writeCounter, readCounter, memoryArray, fifoState, dataOut

vars == <<writeCounter, readCounter, memoryArray, fifoState, dataOut>>

FifoStates ==
    {"sEmpty", "sFull", "sRead", "sWrite", "sWriteFirst", "sReadWrite", "sWait"}

\* The counters have requiredBitNb(depth-1) bits and address a RAM of as many
\* locations, of which memory_type declares the first depth ones.
CounterRange == 2 ^ requiredBitNb(depth - 1)
ASSUME CounterAssumption == CounterRange \in Nat /\ depth <= CounterRange

Address == 0 .. CounterRange - 1

\* Mutant: the counter is an integer that does not wrap.
IncrementedWithoutWrap(counter) == counter + 1

\* counter + 1 on an unsigned of that width.
Incremented(counter) == IF counter = CounterRange - 1 THEN 0 ELSE counter + 1
-----------------------------------------------------------------------------
\* Mutant: the FIFO is empty one edge after the read that empties it.
emptyConditionLate == fifoState = "sEmpty"

emptyCondition ==
    \/ fifoState = "sRead" /\ writeCounter = readCounter
    \/ fifoState = "sEmpty"

\* Mutant: the FIFO is full one edge after the write that fills it.
fullConditionLate == fifoState = "sFull"

fullCondition ==
    \/ fifoState = "sWrite" /\ writeCounter = readCounter
    \/ fifoState = "sFull"

full == fifoState = "sFull" \/ fullCondition

empty_int == emptyCondition \/ fifoState = "sWriteFirst"

\* The next state after an edge with these inputs: it names the operation
\* done, except at the two limits.
NextOfOperation(write, read) ==
    CASE read /\ write   -> "sReadWrite"
      [] ~read /\ write  -> "sWrite"
      [] read /\ ~write  -> "sRead"
      [] ~read /\ ~write -> "sWait"

\* Mutant: sWrite does not go to sFull when no more operation comes.
fifoControlWithoutFull(write, read) ==
    CASE fifoState = "sEmpty" -> IF write THEN "sWriteFirst" ELSE "sEmpty"
      [] fifoState = "sRead" /\ emptyCondition /\ ~write -> "sEmpty"
      [] OTHER -> NextOfOperation(write, read)

\* Mutant: sWriteFirst waits for an operation.
fifoControlStuckFirst(write, read) ==
    CASE fifoState = "sEmpty" -> IF write THEN "sWriteFirst" ELSE "sEmpty"
      [] fifoState = "sFull"  -> IF read THEN "sRead" ELSE "sFull"
      [] fifoState = "sRead" /\ emptyCondition /\ ~write -> "sEmpty"
      [] fifoState = "sWrite" /\ fullCondition /\ ~read  -> "sFull"
      [] fifoState = "sWriteFirst" /\ ~write /\ ~read    -> "sWriteFirst"
      [] OTHER -> NextOfOperation(write, read)

\* fifoControl: the case statement on fifoState.
fifoControl(write, read) ==
    CASE fifoState = "sEmpty" -> IF write THEN "sWriteFirst" ELSE "sEmpty"
      [] fifoState = "sFull"  -> IF read THEN "sRead" ELSE "sFull"
      [] fifoState = "sRead" /\ emptyCondition /\ ~write -> "sEmpty"
      [] fifoState = "sWrite" /\ fullCondition /\ ~read  -> "sFull"
      [] OTHER -> NextOfOperation(write, read)

\* Mutant: the read port keeps the address of the word just taken.
readMemWithoutLookAhead(read) == memoryArray[readCounter]

\* readMem: the registered output takes the word that will be the oldest after
\* this edge, from the memory as it was before the edge.
readMem(read) ==
    IF ~read \/ empty_int THEN memoryArray[readCounter]
    ELSE memoryArray[Incremented(readCounter)]

Init ==
    /\ writeCounter = 0
    /\ readCounter = 0
    /\ memoryArray = [a \in Address |-> Unset]
    /\ fifoState = "sEmpty"
    /\ dataOut = Zero

\* One rising edge: the five clocked processes read the same old values.
Cycle(write, read, dataIn) ==
    /\ writeCounter' =
         IF write /\ ~fullCondition THEN Incremented(writeCounter) ELSE writeCounter
    /\ readCounter' =
         IF read /\ ~empty_int THEN Incremented(readCounter) ELSE readCounter
    /\ memoryArray' =
         IF write /\ ~fullCondition
         THEN [memoryArray EXCEPT ![writeCounter] = dataIn] ELSE memoryArray
    /\ dataOut' = readMem(read)
    /\ fifoState' = fifoControl(write, read)

\* The asynchronous reset leaves the memory alone.
Reset ==
    /\ writeCounter' = 0
    /\ readCounter' = 0
    /\ dataOut' = Zero
    /\ fifoState' = "sEmpty"
    /\ UNCHANGED memoryArray

\* A rising edge of the clock, with any inputs.
RisingEdge ==
    \E write, read \in BOOLEAN, dataIn \in Data : Cycle(write, read, dataIn)

Next == RisingEdge \/ Reset

Spec == Init /\ [][Next]_vars

\* An edge while nobody writes or reads.
Idle == \E dataIn \in Data : Cycle(FALSE, FALSE, dataIn)

\* The clock never stops: an edge that would change a FIFO with idle inputs does
\* not stay away for ever. Nothing is assumed of the writer and the reader.
FairSpec == Spec /\ WF_vars(empty_int /\ Idle)
-----------------------------------------------------------------------------
(* The queue that the counters, the state and the memory stand for.        *)

Fill ==
    CASE writeCounter = readCounter -> IF fullCondition THEN CounterRange ELSE 0
      [] writeCounter > readCounter -> writeCounter - readCounter
      [] writeCounter < readCounter -> writeCounter + CounterRange - readCounter

\* The address of the i-th oldest word, counting from 0.
Slot(i) ==
    IF readCounter + i < CounterRange THEN readCounter + i
    ELSE readCounter + i - CounterRange

Queue == [i \in 1 .. Fill |-> memoryArray[Slot(i - 1)]]

Promise == INSTANCE Fifo
    WITH Capacity <- CounterRange, queue <- Queue, empty <- empty_int

-----------------------------------------------------------------------------
TypeOK ==
    /\ writeCounter \in Address
    /\ readCounter \in Address
    /\ memoryArray \in [Address -> Data \union {Unset}]
    /\ fifoState \in FifoStates
    /\ dataOut \in Data \union {Unset}

\* Equal counters mean an empty or a full FIFO, and the state alone has to tell
\* which: no state that stands for a partly filled FIFO may be reached with
\* equal counters, nor sEmpty or sFull with different ones (lines 72 to 80 and
\* the branches of fifoControl).
StateTellsTheLimits ==
    /\ writeCounter = readCounter =>
         fifoState \in {"sEmpty", "sRead", "sFull", "sWrite"}
    /\ fifoState \in {"sEmpty", "sFull"} => writeCounter = readCounter
    /\ fifoState = "sWriteFirst" => writeCounter = Incremented(readCounter)

\* The circuit is a FIFO of CounterRange words, whatever is written and read at
\* whatever edge: every word of the queue is in the RAM at its place, writes
\* are dropped only when full is '1' and reads only when empty is '1'.
ImplementsFifo == Promise!Spec

\* When a word was waiting before the edge and stays or becomes the oldest, and
\* the FIFO does not call itself empty, dataOut shows that word at once: the
\* registered read port looks one word ahead (lines 57 to 68).
ShowsTheOldestWord ==
    [][ ~empty_int' /\ (Fill > 1 \/ (Fill = 1 /\ readCounter' = readCounter))
            => dataOut' = Head(Queue') ]_vars

\* What the FIFO's users and its test bench rely on: dataOut is the oldest word
\* whenever empty is '0'.
DataValidWhenNotEmpty == ~empty_int => dataOut = Head(Queue)

\* The addresses are indices of the array memory_type declares.
CountersInMemory == writeCounter < depth /\ readCounter < depth

\* A word written into an empty FIFO is eventually offered to the reader, unless
\* a reset drops it: sWriteFirst is left by the clock alone.
FirstWordOffered == Fill > 0 ~> ~empty_int \/ Fill = 0
=============================================================================
