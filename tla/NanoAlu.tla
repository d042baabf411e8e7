------------------------------- MODULE NanoAlu -------------------------------
(***************************************************************************)
(* The arithmetic and logic unit of the NanoBlaze (architecture RTL of     *)
(* alu): what aluOut and cOut are for an operation of the instruction, the *)
(* saved carry and the two operands. A word of w bits is a number of       *)
(* 0..2^w-1; the arithmetic runs on w+1 bits (aArith, bArith, yArith).     *)
(***************************************************************************)
EXTENDS Integers, FiniteSets, FiniteSetsExt

CONSTANT w          \* the generic dataBitNb

Words == 0 .. 2 ^ w - 1
Positions == 0 .. w - 1

Bit(word, j) == (word \div 2 ^ j) % 2
Ones(word) == {j \in Positions : Bit(word, j) = 1}
WordOf(ones) == MapThenSumSet(LAMBDA j : 2 ^ j, ones)

Number(cIn) == IF cIn THEN 1 ELSE 0

\* Mutant: the borrow of SUBCY is added.
yArithAddsBorrow(op, cIn, a, b) ==
    (CASE op = "Add"            -> a + b
       [] op = "AddCy"          -> a + b + Number(cIn)
       [] op \in {"Sub", "Comp"} -> a - b
       [] op = "SubCy"          -> a - b + Number(cIn)) % 2 ^ (w + 1)

\* Sums and differences modulo 2^(w+1): the highest bit is the carry or borrow.
yArith(op, cIn, a, b) ==
    (CASE op = "Add"            -> a + b
       [] op = "AddCy"          -> a + b + Number(cIn)
       [] op \in {"Sub", "Comp"} -> a - b
       [] op = "SubCy"          -> a - b - Number(cIn)) % 2 ^ (w + 1)

ArithOps == {"Add", "AddCy", "Sub", "SubCy", "Comp"}

\* Mutant: the bit shifted in is always the saved carry.
cInShiftCarryOnly(shift, cIn, a) == Number(cIn)

\* The bit a shift or a rotation brings in.
cInShift(shift, cIn, a) ==
    CASE shift.bit = "cIn"  -> Number(cIn)
      [] shift.bit = "high" -> Bit(a, w - 1)
      [] shift.bit = "low"  -> Bit(a, 0)
      [] shift.bit = "0"    -> 0
      [] shift.bit = "1"    -> 1

aluOut(i, cIn, a, b) ==
    CASE i.op \in ArithOps        -> yArith(i.op, cIn, a, b) % 2 ^ w
      [] i.op \in {"And", "Test"} -> WordOf(Ones(a) \intersect Ones(b))
      [] i.op = "Or"              -> WordOf(Ones(a) \union Ones(b))
      [] i.op = "Xor"  -> WordOf((Ones(a) \ Ones(b)) \union (Ones(b) \ Ones(a)))
      [] i.op = "ShRot" /\ ~i.shift.right -> ((2 * a) % 2 ^ w) + cInShift(i.shift, cIn, a)
      [] i.op = "ShRot" /\ i.shift.right  ->
           a \div 2 + 2 ^ (w - 1) * cInShift(i.shift, cIn, a)
      [] OTHER                    -> b

\* Mutant: a shift to the right leaves the highest bit in the carry.
cOutHighBit(i, cIn, a, b) ==
    CASE i.op \in ArithOps -> yArith(i.op, cIn, a, b) >= 2 ^ w
      [] i.op = "Test"     -> Cardinality(Ones(a) \intersect Ones(b)) % 2 = 1
      [] i.op = "ShRot"    -> Bit(a, w - 1) = 1
      [] OTHER             -> FALSE

\* The carry of TEST is the parity of the word tested.
cOut(i, cIn, a, b) ==
    CASE i.op \in ArithOps -> yArith(i.op, cIn, a, b) >= 2 ^ w
      [] i.op = "Test"     -> Cardinality(Ones(a) \intersect Ones(b)) % 2 = 1
      [] i.op = "ShRot"    -> Bit(a, IF i.shift.right THEN 0 ELSE w - 1) = 1
      [] OTHER             -> FALSE
=============================================================================
