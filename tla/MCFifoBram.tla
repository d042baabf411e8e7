----------------------------- MODULE MCFifoBram -----------------------------
(***************************************************************************)
(* FifoBram with two different words and RAMs of a few locations.          *)
(***************************************************************************)
EXTENDS FifoBram

CONSTANTS w0, w1, none

MCData == {w0, w1}
=============================================================================
