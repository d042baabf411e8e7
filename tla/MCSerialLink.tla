---------------------------- MODULE MCSerialLink ----------------------------
(***************************************************************************)
(* SerialLink with words of four bits; a bit of the receiver has twelve    *)
(* clock periods, one of the sender eleven to thirteen.                    *)
(***************************************************************************)
EXTENDS SerialLink

MCTxDivides == {11, 12, 13}
=============================================================================
