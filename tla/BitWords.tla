------------------------------- MODULE BitWords -------------------------------
(***************************************************************************)
(* Words of XLEN bits, as numbers of 0..2^XLEN-1, with the operations that *)
(* C's uint32_t and VHDL's std_ulogic_vector give them. XLEN is 32 in the  *)
(* source; a byte has BYTE bits and a word four bytes.                     *)
(***************************************************************************)
EXTENDS Integers, FiniteSets, FiniteSetsExt

CONSTANTS XLEN, BYTE

ASSUME WordSizes == /\ BYTE \in Nat \ {0}
                    /\ XLEN = 4 * BYTE

\* Powers of two are what they are.
ASSUME PowersOfTwo ==
    \A n \in 0 .. XLEN :
       2 ^ n \in Nat \ {0} /\ \A m \in 0 .. n : 2 ^ n = 2 ^ m * 2 ^ (n - m)

Words == 0 .. 2 ^ XLEN - 1
Positions == 0 .. XLEN - 1

Bit(word, j) == (word \div 2 ^ j) % 2
Ones(word) == {j \in Positions : Bit(word, j) = 1}

\* The sum of the powers of two at these positions.
WordOf(ones) ==
    LET sum[n \in 0 .. XLEN] ==
          IF n = 0 THEN 0 ELSE sum[n - 1] + (IF n - 1 \in ones THEN 2 ^ (n - 1) ELSE 0)
    IN  sum[XLEN]

Not(word) == 2 ^ XLEN - 1 - word
And(a, b) == WordOf(Ones(a) \intersect Ones(b))
Or(a, b) == WordOf(Ones(a) \union Ones(b))
Xor(a, b) == WordOf((Ones(a) \ Ones(b)) \union (Ones(b) \ Ones(a)))

\* The low n bits.
Low(word, n) == word % 2 ^ n
ShiftLeft(word, n) == Low(word, XLEN - n) * 2 ^ n
ShiftRight(word, n) == word \div 2 ^ n
Reversed(word) == WordOf({XLEN - 1 - j : j \in Ones(word)})

\* (int32_t)word, signed(word)
Signed(word) == IF Bit(word, XLEN - 1) = 1 THEN word - 2 ^ XLEN ELSE word

\* The low n bits of which the highest is a sign.
SignExtended(word, n) ==
    IF Bit(word, n - 1) = 1 THEN (Low(word, n) - 2 ^ n) % 2 ^ XLEN ELSE Low(word, n)
=============================================================================
