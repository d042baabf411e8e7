----------------------------- MODULE SerialWord -----------------------------
(***************************************************************************)
(* The words of a serial port, on both of its ends: dataBitNb bits, of     *)
(* which bit 0 is sent first. TRUE is '1'.                                 *)
(***************************************************************************)
EXTENDS Naturals

CONSTANT dataBitNb

ASSUME DataBitAssumption == dataBitNb \in Nat \ {0}

Bits == 0 .. dataBitNb - 1
Words == [Bits -> BOOLEAN]
=============================================================================
