--------------------------- MODULE MCMorseListener ---------------------------
(***************************************************************************)
(* MorseListener for all the words of seven bits, with a unit of six clock *)
(* periods: the edges that the machines spend between two symbols (five)   *)
(* are less than a unit, as they are in the circuit, where it has 6.6      *)
(* million periods.                                                        *)
(***************************************************************************)
EXTENDS MorseListener

MCCharacters == 0 .. 127
=============================================================================
