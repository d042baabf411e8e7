--------------------------- MODULE MCMorseEncoder ---------------------------
(***************************************************************************)
(* MorseEncoder with the characters e, n and space, a FIFO of four places  *)
(* and a unit of two clock periods.                                        *)
(***************************************************************************)
EXTENDS MorseEncoder

MCData == {101, 110, 32}
=============================================================================
