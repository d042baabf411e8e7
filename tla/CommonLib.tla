------------------------------ MODULE CommonLib ------------------------------
(***************************************************************************)
(* The functions of the package CommonLib that size the counters and the   *)
(* addresses of the other blocks, and the std_ulogic conventions the       *)
(* modules of this project share: '1' is TRUE and '0' is FALSE, and an     *)
(* unsigned of w bits is a number of 0..2^w-1 whose sums wrap.             *)
(***************************************************************************)
EXTENDS Naturals

\* The number of bits needed to write val: the while loop doubles powerOfTwo
\* as long as it is not larger than val.
requiredBitNb(val) ==
    LET bitNb[powerOfTwo \in Nat] ==
            IF powerOfTwo <= val THEN 1 + bitNb[2 * powerOfTwo] ELSE 0
    IN  bitNb[1]

\* The number of bits of a counter with val values (the comparison is strict).
counterBitNb(val) ==
    LET bitNb[powerOfTwo \in Nat] ==
            IF powerOfTwo < val THEN 1 + bitNb[2 * powerOfTwo] ELSE 0
    IN  bitNb[1]
=============================================================================
