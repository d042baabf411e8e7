--------------------------- MODULE NanoBlazeCalls ---------------------------
(***************************************************************************)
(* NanoBlaze with a record of the subroutines that are active, kept beside *)
(* the circuit and not by it: where each taken CALL stood, so that what    *)
(* the branch stack returns can be compared with it. A program is regular  *)
(* as long as it never leaves a conditional CALL or RETURN untaken (the    *)
(* stack pointer moves all the same), never nests more calls than the      *)
(* stack has places and never returns without having been called.          *)
(***************************************************************************)
EXTENDS NanoBlaze, SequencesExt

VARIABLES callers,   \* the addresses to return to, innermost last
          regular    \* the program has been regular up to now

callsVars == <<vars, callers, regular>>

\* The instruction is executed in this period, and it branches.
Taken(op) == en1 /\ branchEnable /\ instruction.op = op

Untaken ==
    en1 /\ ~discardOpCode /\ ~branchEnable /\ instruction.op \in {"Call", "Ret"}

\* The steps after which the stack of the circuit and the calls part.
Irregular ==
    \/ Untaken
    \/ Taken("Call") /\ Len(callers) = StackRange
    \/ Taken("Ret") /\ callers = <<>>

CallsInit == Init /\ callers = <<>> /\ regular = TRUE

\* The record of the calls, under the step of the processor.
Record ==
    CASE ~regular \/ Irregular -> <<>>
      [] regular /\ ~Irregular /\ Taken("Call") -> Append(callers, NextAddress(fetched))
      [] regular /\ ~Irregular /\ Taken("Ret")  -> Front(callers)
      [] OTHER -> callers

CallsNext ==
    /\ Next
    /\ regular' = (regular /\ ~Irregular)
    /\ callers' = Record

CallsSpec == CallsInit /\ [][CallsNext]_callsVars
-----------------------------------------------------------------------------
\* The addresses of the active subroutines are on the branch stack, in order,
\* as long as the program is regular (branchStack lines 13 to 38): the write
\* pointer is one behind when all places are taken, and no place is overwritten.
CallersOnStack ==
    /\ Len(callers) <= StackRange
    /\ regular => writePointer = IF Len(callers) = StackRange THEN 0 ELSE Len(callers)
    /\ \A n \in 1 .. Len(callers) : progCounterArray[n - 1] = callers[n]

\* A RETURN that is executed goes back behind the CALL that is still to be
\* answered, although the stack's output is registered and lags the stack by a
\* period: in regular programs a taken branch always lies between.
ReturnsToCaller ==
    [][regular' /\ Taken("Ret") => pCounter' = Last(callers)]_callsVars
=============================================================================
