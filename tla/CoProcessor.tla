---------------------------- MODULE CoProcessor ----------------------------
(***************************************************************************)
(* The interface that the arbiter of the ALU asks of every co-processor:   *)
(* valid for one period, one period before the output data, and data 0     *)
(* unless the co-processor was started. A start that finds it working may  *)
(* be lost; what was started is never forgotten.                           *)
(***************************************************************************)
EXTENDS Integers

VARIABLES
    start, valid, result,
    owes     \* it was started and has not yet answered

vars == <<start, valid, result, owes>>

Init == ~start /\ ~valid /\ result = 0 /\ ~owes

Next ==
    /\ owes' => owes \/ start
    /\ owes /\ ~valid => owes'
    /\ start /\ ~valid => owes'
    /\ valid' => owes' \/ start'
    /\ valid /\ valid' => start \/ start'
    /\ result' # 0 => valid

Spec == Init /\ [][Next]_vars
=============================================================================
