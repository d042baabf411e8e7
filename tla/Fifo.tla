-------------------------------- MODULE Fifo --------------------------------
(***************************************************************************)
(* What a clocked FIFO promises to the circuits on its two sides: the      *)
(* words come out in the order in which they went in, none is lost or      *)
(* repeated, a write is taken exactly when full was '0' and a read takes a *)
(* word exactly when empty was '0'. The flag full is exact; the flag empty *)
(* may stay '1' while the FIFO holds its first word, but not for ever.     *)
(***************************************************************************)
EXTENDS Naturals, Sequences

CONSTANTS Data,      \* the words that can be written
          Capacity   \* the number of words the FIFO holds

VARIABLES queue,     \* the words written and not yet read, oldest first
          empty,     \* the flag seen by the reader
          full       \* the flag seen by the writer

vars == <<queue, empty, full>>

Init ==
    /\ queue = <<>>
    /\ empty = TRUE
    /\ full = FALSE

\* One clock period with the inputs write, read and dataIn.
Cycle(write, read, dataIn) ==
    LET kept == IF read /\ ~empty THEN Tail(queue) ELSE queue
    IN  /\ queue' = IF write /\ ~full THEN Append(kept, dataIn) ELSE kept
        /\ full' = (Len(queue') = Capacity)
        /\ empty' \in BOOLEAN
        /\ queue' = <<>> => empty'
        /\ empty' => queue' = <<>> \/ (empty /\ Len(queue') = 1)

\* The asynchronous reset empties the FIFO.
Clear ==
    /\ queue' = <<>>
    /\ empty' = TRUE
    /\ full' = FALSE

Next ==
    \/ \E write, read \in BOOLEAN, dataIn \in Data : Cycle(write, read, dataIn)
    \/ Clear

Spec == Init /\ [][Next]_vars
=============================================================================
