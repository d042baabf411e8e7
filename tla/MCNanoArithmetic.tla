-------------------------- MODULE MCNanoArithmetic --------------------------
(***************************************************************************)
(* NanoArithmetic with words of three bits: all the numbers of six bits.   *)
(***************************************************************************)
EXTENDS NanoArithmetic

MCRegister == 0 .. 6
MCSpadAddress == {0}
MCSpad(word) == 0
MCPowerUpScratchpads == {[address \in MCSpadAddress |-> 0]}
MCPowerUpStacks == {[address \in 0 .. 1 |-> 0]}
=============================================================================
