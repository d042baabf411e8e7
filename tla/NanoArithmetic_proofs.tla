------------------------ MODULE NanoArithmetic_proofs ------------------------
(***************************************************************************)
(* Proofs about the programs of NanoArithmetic, for words of every width.  *)
(* They are led on the sequential machine: NanoBlaze_proofs shows that a   *)
(* period of the circuit is an instruction of that machine or nothing.     *)
(***************************************************************************)
EXTENDS NanoArithmetic, NanoBlaze_proofs, SequenceTheorems

-----------------------------------------------------------------------------
(* The invariant: what is in the registers where an instruction stands.    *)

M == 2 ^ w

\* The first number is copied.
Copied ==
    /\ IsaPc = 5 => registers[4] = registers[0]
    /\ IsaPc = 6 => registers[4] = registers[0] /\ registers[5] = registers[1]

\* What the carry is worth above a word.
C == Number(IsaCarry)

SumHolds ==
    /\ IsaPc = 7 => registers[5] = registers[1]
                    /\ registers[0] + M * C = registers[4] + registers[2]
    /\ IsaPc = 8 => Result + Range2 * C = First + Second

DifferenceHolds ==
    /\ IsaPc = 7 => registers[5] = registers[1]
                    /\ registers[0] - M * C = registers[4] - registers[2]
    /\ IsaPc = 8 => Result - Range2 * C = First - Second

LeftHolds ==
    /\ IsaPc = 7 => registers[5] = registers[1]
                    /\ registers[0] + M * C = 2 * registers[4]
    /\ IsaPc = 8 => Result + Range2 * C = 2 * First

RightHolds ==
    /\ IsaPc = 7 => registers[4] = registers[0]
                    /\ 2 * registers[1] + C = registers[5]
    /\ IsaPc = 8 => 2 * Result + C = First

\* The sign of a word.
Sign(word) == IF 2 * word >= M THEN 1 ELSE 0

SignedHolds ==
    /\ IsaPc = 7 => registers[4] = registers[0]
                    /\ 2 * registers[1] + C = registers[5] + M * Sign(registers[5])
    /\ IsaPc = 8 => 2 * Result + C = First + Range2 * Sign(registers[5])

RotatedHolds ==
    /\ IsaPc \in {7, 8} => registers[5] = registers[1]
    /\ IsaPc = 7 => 2 * registers[0] = registers[4] + (M - 1) * (registers[4] % 2)
    /\ IsaPc \in {8, 9, 10} => registers[4] = registers[0]
    /\ IsaPc = 9 => registers[1] + (M - 1) * Sign(registers[5]) = 2 * registers[5]
    /\ IsaPc = 10 => registers[5] = registers[1]

\* Where a multiplication has k steps to go, s5 holds the k high bits of the first
\* factor, s0 the same below the l of the product, and s1 what is above of it; r are
\* the bits of the factor that were multiplied.
Multiplying(regs, k, high) ==
    \E p, l, r \in 0 .. M :
        /\ p * 2 ^ k = M /\ l < p /\ r < p
        /\ regs[5] < 2 ^ k
        /\ regs[4] = regs[5] * p + r
        /\ regs[0] = l * 2 ^ k + regs[5]
        /\ high * p + l = regs[2] * r

\* Within a step: the next bit has left s5; it is added or not.
Step(regs, k, bit, added, high) ==
    \E p, l, r \in 0 .. M :
        /\ p * 2 ^ k = M /\ l < p /\ r < p
        /\ 2 * regs[5] + bit < 2 ^ k
        /\ regs[4] = (2 * regs[5] + bit) * p + r
        /\ regs[0] = l * 2 ^ k + 2 * regs[5] + bit
        /\ high * p + l = regs[2] * (r + added * p)

ProductHolds ==
    /\ IsaPc \in {7, 8} => registers[5] = registers[0] /\ registers[4] = registers[0]
    /\ IsaPc = 8 => registers[3] = w
    /\ IsaPc \in 9 .. 17 => IsaPc # 13 /\ registers[3] \in 1 .. w
    /\ IsaPc = 9 => Multiplying(registers, registers[3], registers[1])
    /\ IsaPc = 10 => Step(registers, registers[3], C, 0, registers[1])
    /\ IsaPc = 11 => Step(registers, registers[3], 1, 0, registers[1])
    /\ IsaPc = 14 => Step(registers, registers[3], 0, 0, registers[1])
    /\ IsaPc \in {12, 15} => \E bit \in {0, 1} :
          Step(registers, registers[3], bit, bit, registers[1] + M * C)
    /\ IsaPc = 16 => \E bit \in {0, 1} :
          Step(registers, registers[3], bit, bit, 2 * registers[1] + C)
    /\ IsaPc = 17 => Multiplying(registers, registers[3] - 1, registers[1])
    /\ IsaPc = 18 => registers[3] \in 0 .. w - 1
                     /\ Multiplying(registers, registers[3], registers[1])
                     /\ IsaZero = (registers[3] = 0)
    /\ IsaPc = 19 => Result = registers[4] * registers[2]

Holding(name) ==
    CASE name = "sum"        -> SumHolds
      [] name = "difference" -> DifferenceHolds
      [] name = "left"       -> LeftHolds
      [] name = "right"      -> RightHolds
      [] name = "signed"     -> SignedHolds
      [] name = "rotated"    -> RotatedHolds
      [] name = "product"    -> ProductHolds

ArithmeticInv ==
    /\ TypeOK /\ Pipeline
    /\ IsaRepeat => IsaPc = 0
    /\ \A name \in DOMAIN Bodies : rom = ProgramOf[name] =>
          IsaPc \in 0 .. Halt(name) /\ Copied /\ Holding(name)
-----------------------------------------------------------------------------
(* Words and their arithmetic.                                             *)

LEMMA PowerFacts ==
    /\ M \in Nat /\ M >= 2 /\ Words = 0 .. M - 1
    /\ 2 ^ (w + 1) = 2 * M
    /\ 2 ^ (w - 1) \in Nat /\ M = 2 * 2 ^ (w - 1)
    /\ Range2 = M * M
    /\ \A k \in 0 .. w : 2 ^ k \in Nat /\ 2 ^ k >= 1
    /\ \A k \in 1 .. w : 2 ^ k = 2 * 2 ^ (k - 1)
    /\ 2 ^ 0 = 1
<1>1. w \in Nat /\ w >= 1 /\ w \in 0 .. w /\ w - 1 \in 0 .. w /\ 0 \in 0 .. w
  BY PowersAssumption
<1>2. \A n \in 0 .. w : 2 ^ n \in Nat \ {0} /\ 2 ^ (n + 1) = 2 * 2 ^ n
  BY PowersAssumption
<1>3. \A k \in 1 .. w : 2 ^ k = 2 * 2 ^ (k - 1)
  <2> TAKE k \in 1 .. w
  <2>1. k - 1 \in 0 .. w /\ (k - 1) + 1 = k
    BY <1>1
  <2> QED BY <2>1, <1>2
<1>4. 2 ^ 0 = 1
  OBVIOUS
<1>5. w \in 1 .. w
  BY <1>1
<1>6. M \in Nat /\ M = 2 * 2 ^ (w - 1) /\ 2 ^ (w - 1) \in Nat \ {0} /\ 2 ^ (w + 1) = 2 * M
  BY <1>1, <1>2, <1>3, <1>5 DEF M
<1>7. M >= 2
  BY <1>6
<1>8. \A k \in 0 .. w : 2 ^ k \in Nat /\ 2 ^ k >= 1
  BY <1>2
<1> QED BY <1>3, <1>4, <1>6, <1>7, <1>8, PowersAssumption DEF M, Words

\* The remainder of what exceeds its divisor by less than the divisor.
LEMMA Remainders ==
    ASSUME NEW m \in Nat, m >= 1, NEW x \in Int
    PROVE  /\ x \in 0 .. m - 1 => x % m = x
           /\ x >= m /\ x < 2 * m => x % m = x - m
           /\ x < 0 /\ x >= -m => x % m = x + m
<1>1. ASSUME x \in 0 .. m - 1 PROVE x % m = x
  BY <1>1
<1>2. ASSUME x >= m, x < 2 * m PROVE x % m = x - m
  BY <1>2
<1>3. ASSUME x < 0, x >= -m PROVE x % m = x + m
  BY <1>3
<1> QED BY <1>1, <1>2, <1>3

\* The first bit of what is less than twice its weight.
LEMMA Quotient ==
    ASSUME NEW m \in Nat, m >= 1, NEW x \in Nat, x < 2 * m
    PROVE  x \div m = IF x >= m THEN 1 ELSE 0
OBVIOUS

\* Sums and differences on w + 1 bits: the highest is the carry or the borrow.
LEMMA SumWord ==
    ASSUME NEW x \in 0 .. 2 * M - 1
    PROVE  /\ x % (2 * M) = x
           /\ x % M = IF x >= M THEN x - M ELSE x
           /\ x % M \in Words
           /\ (x % M) + M * Number(x >= M) = x
<1>1. M \in Nat /\ M >= 1 /\ Words = 0 .. M - 1
  BY PowerFacts
<1>2. 2 * M \in Nat /\ 2 * M >= 1 /\ x \in Int /\ x >= 0 /\ x < 2 * M
  BY <1>1
<1>3. x % (2 * M) = x
  BY <1>2, Remainders
<1>4. CASE x >= M
  <2>1. x % M = x - M
    BY <1>1, <1>2, <1>4, Remainders
  <2>2. M * Number(x >= M) = M
    BY <1>1, <1>4 DEF Number
  <2> QED BY <1>1, <1>2, <1>3, <1>4, <2>1, <2>2
<1>5. CASE x < M
  <2>1. x % M = x
    BY <1>1, <1>2, <1>5, Remainders
  <2>2. M * Number(x >= M) = 0
    BY <1>1, <1>2, <1>5 DEF Number
  <2> QED BY <1>1, <1>2, <1>3, <1>5, <2>1, <2>2
<1> QED BY <1>1, <1>2, <1>4, <1>5

LEMMA DifferenceWord ==
    ASSUME NEW x \in -M .. M - 1
    PROVE  /\ (x % (2 * M)) % M \in Words
           /\ ((x % (2 * M)) % M) - M * Number(x % (2 * M) >= M) = x
<1>1. M \in Nat /\ M >= 1 /\ Words = 0 .. M - 1
  BY PowerFacts
<1>2. 2 * M \in Nat /\ 2 * M >= 1 /\ x \in Int /\ x >= -M /\ x < M
  BY <1>1
<1>3. CASE x >= 0
  <2>1. x % (2 * M) = x
    BY <1>1, <1>2, <1>3, Remainders
  <2>2. x % M = x
    BY <1>1, <1>2, <1>3, Remainders
  <2>3. M * Number(x >= M) = 0
    BY <1>1, <1>2 DEF Number
  <2> QED BY <1>1, <1>2, <1>3, <2>1, <2>2, <2>3
<1>4. CASE x < 0
  <2>1. x >= -(2 * M)
    BY <1>1, <1>2
  <2>2. x % (2 * M) = x + 2 * M
    BY <1>2, <1>4, <2>1, Remainders
  <2>3. x + 2 * M >= M /\ x + 2 * M < 2 * M /\ x + 2 * M \in Int
    BY <1>1, <1>2, <1>4
  <2>4. (x + 2 * M) % M = (x + 2 * M) - M
    BY <1>1, <2>3, Remainders
  <2>5. M * Number(x + 2 * M >= M) = M
    BY <1>1, <2>3 DEF Number
  <2> QED BY <1>1, <1>2, <1>4, <2>2, <2>4, <2>5
<1> QED BY <1>1, <1>2, <1>3, <1>4

\* The arithmetic operations of the ALU.
LEMMA Arithmetic ==
    ASSUME NEW i, NEW cIn \in BOOLEAN, NEW a \in Words, NEW b \in Words
    PROVE  /\ i.op \in {"Add", "AddCy", "Sub", "SubCy"} => aluOut(i, cIn, a, b) \in Words
           /\ i.op = "Add" =>
                aluOut(i, cIn, a, b) + M * Number(cOut(i, cIn, a, b)) = a + b
           /\ i.op = "AddCy" =>
                aluOut(i, cIn, a, b) + M * Number(cOut(i, cIn, a, b)) = a + b + Number(cIn)
           /\ i.op = "Sub" =>
                aluOut(i, cIn, a, b) - M * Number(cOut(i, cIn, a, b)) = a - b
           /\ i.op = "SubCy" =>
                aluOut(i, cIn, a, b) - M * Number(cOut(i, cIn, a, b)) = a - b - Number(cIn)
<1>1. M \in Nat /\ a \in Nat /\ a < M /\ b \in Nat /\ b < M
  BY PowerFacts
<1>2. Number(cIn) \in {0, 1}
  BY DEF Number
<1>3. 2 ^ w = M /\ 2 ^ (w + 1) = 2 * M
  BY PowerFacts DEF M
<1>4. i.op \in {"Add", "AddCy", "Sub", "SubCy"} =>
        /\ aluOut(i, cIn, a, b) = yArith(i.op, cIn, a, b) % M
        /\ cOut(i, cIn, a, b) = (yArith(i.op, cIn, a, b) >= M)
  BY <1>3 DEF aluOut, cOut, ArithOps
<1>5. ASSUME i.op = "Add" PROVE yArith(i.op, cIn, a, b) = (a + b) % (2 * M)
  BY <1>3, <1>5 DEF yArith
<1>6. ASSUME i.op = "AddCy" PROVE yArith(i.op, cIn, a, b) = (a + b + Number(cIn)) % (2 * M)
  BY <1>3, <1>6 DEF yArith
<1>7. ASSUME i.op = "Sub" PROVE yArith(i.op, cIn, a, b) = (a - b) % (2 * M)
  BY <1>3, <1>7 DEF yArith
<1>8. ASSUME i.op = "SubCy" PROVE yArith(i.op, cIn, a, b) = (a - b - Number(cIn)) % (2 * M)
  BY <1>3, <1>8 DEF yArith
<1>9. a + b \in 0 .. 2 * M - 1 /\ a + b + Number(cIn) \in 0 .. 2 * M - 1
  BY <1>1, <1>2
<1>10. a - b \in -M .. M - 1 /\ a - b - Number(cIn) \in -M .. M - 1
  BY <1>1, <1>2
<1>11. CASE i.op = "Add"
  BY <1>4, <1>5, <1>9, <1>11, SumWord
<1>12. CASE i.op = "AddCy"
  BY <1>4, <1>6, <1>9, <1>12, SumWord
<1>13. CASE i.op = "Sub"
  BY <1>4, <1>7, <1>10, <1>13, DifferenceWord
<1>14. CASE i.op = "SubCy"
  BY <1>4, <1>8, <1>10, <1>14, DifferenceWord
<1> QED BY <1>11, <1>12, <1>13, <1>14

LEMMA Halves ==
    ASSUME NEW a \in Nat
    PROVE  a = 2 * (a \div 2) + (a % 2) /\ a % 2 \in {0, 1} /\ a \div 2 \in Nat
OBVIOUS

\* The outermost bits of a word.
LEMMA OuterBits ==
    ASSUME NEW a \in Words
    PROVE  /\ Bit(a, 0) = a % 2
           /\ Bit(a, w - 1) = Sign(a)
           /\ a = 2 * (a \div 2) + (a % 2) /\ a % 2 \in {0, 1} /\ a \div 2 \in Nat
<1>1. M \in Nat /\ a \in Nat /\ a < M /\ 2 ^ (w - 1) \in Nat /\ M = 2 * 2 ^ (w - 1) /\ M >= 2
  BY PowerFacts
<1> DEFINE half == 2 ^ (w - 1)
<1>2. half \in Nat /\ half >= 1 /\ a < 2 * half /\ M = 2 * half
  BY <1>1
<1>3. Bit(a, 0) = a % 2
  <2>1. 2 ^ 0 = 1 /\ a \div 1 = a
    BY <1>1, PowerFacts
  <2> QED BY <2>1 DEF Bit
<1>4. Bit(a, w - 1) = (a \div half) % 2
  BY DEF Bit
<1> HIDE DEF half
<1>5. a \div half = IF a >= half THEN 1 ELSE 0
  BY <1>1, <1>2, Quotient
<1>6. Bit(a, w - 1) = Sign(a)
  BY <1>1, <1>2, <1>4, <1>5 DEF Sign
<1>7. a = 2 * (a \div 2) + (a % 2) /\ a % 2 \in {0, 1} /\ a \div 2 \in Nat
  BY <1>1, Halves
<1> QED BY <1>3, <1>6, <1>7

\* The bit that a shift or a rotation brings in.
LEMMA ShiftedIn ==
    ASSUME NEW i, NEW cIn \in BOOLEAN, NEW a \in Words,
           i.shift.bit \in {"0", "cIn", "high", "low"}
    PROVE  /\ cInShift(i.shift, cIn, a) \in {0, 1}
           /\ i.shift.bit = "0" => cInShift(i.shift, cIn, a) = 0
           /\ i.shift.bit = "cIn" => cInShift(i.shift, cIn, a) = Number(cIn)
           /\ i.shift.bit = "high" => cInShift(i.shift, cIn, a) = Sign(a)
           /\ i.shift.bit = "low" => cInShift(i.shift, cIn, a) = a % 2
<1>1. /\ i.shift.bit = "0" => cInShift(i.shift, cIn, a) = 0
      /\ i.shift.bit = "cIn" => cInShift(i.shift, cIn, a) = Number(cIn)
      /\ i.shift.bit = "high" => cInShift(i.shift, cIn, a) = Sign(a)
      /\ i.shift.bit = "low" => cInShift(i.shift, cIn, a) = a % 2
  BY OuterBits DEF cInShift
<1> QED BY <1>1, OuterBits DEF Number, Sign

\* The shifts and rotations of the ALU: a bit leaves and that one comes in.
LEMMA Shifting ==
    ASSUME NEW i, NEW cIn \in BOOLEAN, NEW a \in Words, NEW b, i.op = "ShRot",
           i.shift.right \in BOOLEAN, i.shift.bit \in {"0", "cIn", "high", "low"}
    PROVE  /\ aluOut(i, cIn, a, b) \in Words
           /\ ~i.shift.right =>
                aluOut(i, cIn, a, b) + M * Number(cOut(i, cIn, a, b))
                  = 2 * a + cInShift(i.shift, cIn, a)
           /\ i.shift.right =>
                2 * aluOut(i, cIn, a, b) + Number(cOut(i, cIn, a, b))
                  = a + M * cInShift(i.shift, cIn, a)
<1> DEFINE bit == cInShift(i.shift, cIn, a)
           half == 2 ^ (w - 1)
<1>1. /\ M \in Nat /\ a \in Nat /\ a < M /\ half \in Nat /\ M = 2 * half /\ M >= 2
      /\ 2 ^ w = M /\ Words = 0 .. M - 1
  BY PowerFacts DEF M
<1>2. bit \in {0, 1}
  BY ShiftedIn
<1>3. CASE ~i.shift.right
  <2>1. aluOut(i, cIn, a, b) = ((2 * a) % M) + bit
    BY <1>1, <1>3 DEF aluOut, ArithOps
  <2>2. cOut(i, cIn, a, b) = (Bit(a, w - 1) = 1)
    BY <1>3 DEF cOut, ArithOps
  <2>3. Number(cOut(i, cIn, a, b)) = Sign(a)
    BY <2>2, OuterBits DEF Number, Sign
  <2> HIDE DEF bit, half
  <2>4. 2 * a \in 0 .. 2 * M - 1
    BY <1>1
  <2>5. (2 * a) % M = 2 * a - M * Sign(a)
    <3>1. (2 * a) % M = IF 2 * a >= M THEN 2 * a - M ELSE 2 * a
      BY <2>4, SumWord
    <3>2. M * Sign(a) = IF 2 * a >= M THEN M ELSE 0
      BY <1>1 DEF Sign
    <3> DEFINE rest == (2 * a) % M
               weight == M * Sign(a)
    <3>3. rest = (IF 2 * a >= M THEN 2 * a - M ELSE 2 * a)
      BY <3>1
    <3>4. weight = (IF 2 * a >= M THEN M ELSE 0)
      BY <3>2
    <3> HIDE DEF rest, weight
    <3>5. rest = 2 * a - weight
      BY <1>1, <3>3, <3>4
    <3> QED BY <3>5 DEF rest, weight
  <2>6. 2 * a - M * Sign(a) <= M - 2 /\ 2 * a - M * Sign(a) >= 0
    BY <1>1 DEF Sign
  <2>7. Sign(a) \in {0, 1}
    BY DEF Sign
  <2>8. aluOut(i, cIn, a, b) = 2 * a - M * Sign(a) + bit
    BY <2>1, <2>5
  <2>9. M * Sign(a) \in Int
    BY <2>7, <1>1
  <2> DEFINE weight == M * Sign(a)
  <2>10. weight \in Int /\ 2 * a - weight <= M - 2 /\ 2 * a - weight >= 0
         /\ aluOut(i, cIn, a, b) = 2 * a - weight + bit
    BY <2>6, <2>8, <2>9
  <2>11. M * Number(cOut(i, cIn, a, b)) = weight
    BY <2>3
  <2> HIDE DEF weight
  <2>12. aluOut(i, cIn, a, b) \in 0 .. M - 1
    BY <1>1, <1>2, <2>10
  <2>13. aluOut(i, cIn, a, b) + M * Number(cOut(i, cIn, a, b)) = 2 * a + bit
    BY <1>1, <1>2, <2>10, <2>11
  <2> QED BY <1>1, <1>3, <2>12, <2>13 DEF bit
<1>4. CASE i.shift.right
  <2>1. aluOut(i, cIn, a, b) = a \div 2 + half * bit
    BY <1>1, <1>4 DEF aluOut, ArithOps
  <2>2. cOut(i, cIn, a, b) = (Bit(a, 0) = 1)
    BY <1>4 DEF cOut, ArithOps
  <2>3. a = 2 * (a \div 2) + (a % 2) /\ a % 2 \in {0, 1} /\ a \div 2 \in Nat
    BY OuterBits
  <2>4. Number(cOut(i, cIn, a, b)) = a % 2
    BY <2>2, <2>3, OuterBits DEF Number
  <2> HIDE DEF bit, half
  <2>5. half * bit = IF bit = 0 THEN 0 ELSE half
    BY <1>1, <1>2
  <2>6. M * bit = IF bit = 0 THEN 0 ELSE M
    BY <1>1, <1>2
  <2>7. aluOut(i, cIn, a, b) \in 0 .. M - 1
    BY <1>1, <2>1, <2>3, <2>5
  <2>8. 2 * aluOut(i, cIn, a, b) + Number(cOut(i, cIn, a, b)) = a + M * bit
    BY <1>1, <2>1, <2>3, <2>4, <2>5, <2>6
  <2> QED BY <1>1, <1>2, <1>4, <2>7, <2>8 DEF bit
<1> QED BY <1>3, <1>4
-----------------------------------------------------------------------------
(* The programs.                                                           *)

Names == {"sum", "difference", "left", "right", "signed", "rotated", "product"}

LEMMA Lengths ==
    /\ DOMAIN Bodies = Names
    /\ Halt("sum") = 8 /\ Halt("difference") = 8 /\ Halt("left") = 8 /\ Halt("right") = 8
    /\ Halt("signed") = 8 /\ Halt("rotated") = 10 /\ Halt("product") = 19
<1>1. DOMAIN Bodies = Names
  BY DEF Bodies, Names
<1>2. Len(ReadNumbers) = 6
  BY DEF ReadNumbers
<1>3. /\ Len(Bodies["sum"]) = 2 /\ Len(Bodies["difference"]) = 2
      /\ Len(Bodies["left"]) = 2 /\ Len(Bodies["right"]) = 2
      /\ Len(Bodies["signed"]) = 2 /\ Len(Bodies["rotated"]) = 4
      /\ Len(Bodies["product"]) = 13
  BY DEF Bodies, Multiplication
<1> QED BY <1>1, <1>2, <1>3 DEF Halt

\* Every address of a program up to the place behind its end is in the memory.
LEMMA InMemory ==
    ASSUME NEW name \in Names, NEW n \in 0 .. Halt(name)
    PROVE  /\ n \in Address /\ n + 1 \in Address /\ NextAddress(n) = n + 1
           /\ Halt(name) \in 8 .. 19
<1>1. Halt(name) \in 8 .. 19
  BY Lengths DEF Names
<1>2. Halt(name) + 1 < AddressRange
  BY CircuitAssumption, Lengths
<1> QED BY <1>1, <1>2, WidthAssumption DEF Address, NextAddress

LEMMA ImmediateFields ==
    ASSUME NEW op, NEW a, NEW k
    PROVE  /\ Immediate(op, a, k).op = op /\ ~Immediate(op, a, k).two
           /\ Immediate(op, a, k).a = a /\ Immediate(op, a, k).k = k
BY DEF Immediate

LEMMA TwoRegistersFields ==
    ASSUME NEW op, NEW a, NEW b
    PROVE  /\ TwoRegisters(op, a, b).op = op /\ TwoRegisters(op, a, b).two
           /\ TwoRegisters(op, a, b).a = a /\ TwoRegisters(op, a, b).b = b
BY DEF Immediate, TwoRegisters

LEMMA JumpFields ==
    ASSUME NEW cond, NEW target
    PROVE  /\ JumpTo(cond, target).op = "Jump" /\ JumpTo(cond, target).cond = cond
           /\ JumpTo(cond, target).address = target
BY DEF Immediate, JumpTo

\* A tuple is a sequence.
LEMMA TupleType ==
    ASSUME NEW n \in Nat, NEW tuple, tuple = [m \in 1 .. n |-> tuple[m]]
    PROVE  \E S : tuple \in Seq(S)
<1>1. tuple \in [1 .. n -> {tuple[m] : m \in 1 .. n}]
  OBVIOUS
<1> QED BY <1>1, SeqDef

LEMMA CodeTypes ==
    /\ \E S : ReadNumbers \in Seq(S)
    /\ \A name \in Names : \E S : Bodies[name] \in Seq(S)
<1>1. ReadNumbers = [m \in 1 .. 6 |-> ReadNumbers[m]]
  BY DEF ReadNumbers
<1>2. Multiplication = [m \in 1 .. 13 |-> Multiplication[m]]
  BY DEF Multiplication
<1>3. \A a, b : <<a, b>> = [m \in 1 .. 2 |-> <<a, b>>[m]]
  OBVIOUS
<1>4. \A a, b : \E S : <<a, b>> \in Seq(S)
  BY <1>3, TupleType
<1>5. \A name \in {"sum", "difference", "left", "right", "signed"} :
         \E a, b : Bodies[name] = <<a, b>>
  BY DEF Bodies
<1>6. \A name \in {"sum", "difference", "left", "right", "signed"} :
         \E S : Bodies[name] \in Seq(S)
  <2> TAKE name \in {"sum", "difference", "left", "right", "signed"}
  <2>1. PICK a, b : Bodies[name] = <<a, b>>
    BY <1>5
  <2>2. PICK S : <<a, b>> \in Seq(S)
    BY <1>4
  <2> QED BY <2>1, <2>2
<1>7. Bodies["rotated"] = [m \in 1 .. 4 |-> Bodies["rotated"][m]]
  BY DEF Bodies
<1>8. Bodies["product"] = Multiplication
  BY DEF Bodies
<1>9. /\ \E S : ReadNumbers \in Seq(S)
      /\ \E S : Multiplication \in Seq(S)
      /\ \E S : Bodies["rotated"] \in Seq(S)
  BY <1>1, <1>2, <1>7, TupleType
<1> QED BY <1>6, <1>8, <1>9 DEF Names

\* What stands at the addresses of a program.
LEMMA CodeAt ==
    ASSUME NEW name \in Names, NEW n \in 0 .. Halt(name) + 1
    PROVE  /\ n < 6 => ProgramOf[name][n] = ReadNumbers[n + 1]
           /\ n >= 6 /\ n < Halt(name) => ProgramOf[name][n] = Bodies[name][n - 5]
           /\ n >= Halt(name) => ProgramOf[name][n] = JumpTo("Aw", Halt(name))
<1>1. n \in Address /\ name \in DOMAIN Bodies /\ Halt(name) \in 8 .. 19 /\ n \in Nat
  <2>1. Halt(name) \in 8 .. 19 /\ Halt(name) \in 0 .. Halt(name)
    BY Lengths DEF Names
  <2>2. n \in Address
    BY <2>1, InMemory DEF Address
  <2> QED BY <2>1, <2>2, Lengths
<1>2. ProgramOf[name][n] =
        IF n < Halt(name) THEN (ReadNumbers \o Bodies[name])[n + 1]
        ELSE JumpTo("Aw", Halt(name))
  BY <1>1 DEF ProgramOf
<1>3. Len(ReadNumbers) = 6
  BY DEF ReadNumbers
<1>4. Len(Bodies[name]) \in Nat /\ Halt(name) = 6 + Len(Bodies[name])
  BY <1>3, <1>1, Lengths DEF Halt, Names
<1>5. \A m \in 1 .. 6 + Len(Bodies[name]) :
         (ReadNumbers \o Bodies[name])[m] =
           IF m <= 6 THEN ReadNumbers[m] ELSE Bodies[name][m - 6]
  <2>1. PICK S, T : ReadNumbers \in Seq(S) /\ Bodies[name] \in Seq(T)
    BY <1>1, CodeTypes
  <2>2. Len(ReadNumbers) \in Nat /\ Len(Bodies[name]) \in Nat
    BY <2>1, LenProperties
  <2>3. \A m \in 1 .. Len(ReadNumbers) + Len(Bodies[name]) :
           (ReadNumbers \o Bodies[name])[m] =
             IF m <= Len(ReadNumbers) THEN ReadNumbers[m]
             ELSE Bodies[name][m - Len(ReadNumbers)]
    BY <2>1
  <2> QED BY <1>3, <2>3
<1>6. n < Halt(name) => (ReadNumbers \o Bodies[name])[n + 1] =
         IF n < 6 THEN ReadNumbers[n + 1] ELSE Bodies[name][n - 5]
  <2> HAVE n < Halt(name)
  <2>1. n + 1 \in 1 .. 6 + Len(Bodies[name]) /\ (n + 1) - 6 = n - 5 /\ (n + 1 <= 6 <=> n < 6)
    BY <1>1, <1>4
  <2> QED BY <2>1, <1>5
<1>7. n < 6 => n < Halt(name)
  BY <1>1
<1>8. n >= 6 => ~(n < 6)
  BY <1>1
<1>9. n >= Halt(name) => ~(n < Halt(name))
  BY <1>1
<1> QED BY <1>2, <1>6, <1>7, <1>8, <1>9

\* The numbers are read and the first one is copied.
LEMMA ReadingCode ==
    ASSUME NEW name \in Names
    PROVE  /\ \A n \in 0 .. 3 : ProgramOf[name][n] = Immediate("Input", n, 0)
           /\ ProgramOf[name][4] = TwoRegisters("Load", 4, 0)
           /\ ProgramOf[name][5] = TwoRegisters("Load", 5, 1)
           /\ ProgramOf[name][Halt(name)] = JumpTo("Aw", Halt(name))
           /\ ProgramOf[name][Halt(name) + 1] = JumpTo("Aw", Halt(name))
<1>1. Halt(name) \in 8 .. 19
  BY Lengths DEF Names
<1>2. \A n \in 0 .. 5 : n \in 0 .. Halt(name) + 1 /\ n < 6
  BY <1>1
<1>3. \A n \in 0 .. 5 : ProgramOf[name][n] = ReadNumbers[n + 1]
  BY <1>2, CodeAt
<1>4. /\ ReadNumbers[1] = Immediate("Input", 0, 0) /\ ReadNumbers[2] = Immediate("Input", 1, 0)
      /\ ReadNumbers[3] = Immediate("Input", 2, 0) /\ ReadNumbers[4] = Immediate("Input", 3, 0)
      /\ ReadNumbers[5] = TwoRegisters("Load", 4, 0)
      /\ ReadNumbers[6] = TwoRegisters("Load", 5, 1)
  BY DEF ReadNumbers
<1>5. /\ ProgramOf[name][0] = ReadNumbers[1] /\ ProgramOf[name][1] = ReadNumbers[2]
      /\ ProgramOf[name][2] = ReadNumbers[3] /\ ProgramOf[name][3] = ReadNumbers[4]
      /\ ProgramOf[name][4] = ReadNumbers[5] /\ ProgramOf[name][5] = ReadNumbers[6]
  BY <1>3
<1>6. \A n \in 0 .. 3 : ProgramOf[name][n] = Immediate("Input", n, 0)
  <2> TAKE n \in 0 .. 3
  <2>1. n = 0 \/ n = 1 \/ n = 2 \/ n = 3
    OBVIOUS
  <2> QED BY <2>1, <1>4, <1>5
<1>7. /\ Halt(name) \in 0 .. Halt(name) + 1 /\ Halt(name) >= Halt(name)
      /\ Halt(name) + 1 \in 0 .. Halt(name) + 1 /\ Halt(name) + 1 >= Halt(name)
  BY <1>1
<1> QED BY <1>4, <1>5, <1>6, <1>7, CodeAt

LEMMA BodyCode ==
    /\ ProgramOf["sum"][6] = TwoRegisters("Add", 0, 2)
    /\ ProgramOf["sum"][7] = TwoRegisters("AddCy", 1, 3)
    /\ ProgramOf["difference"][6] = TwoRegisters("Sub", 0, 2)
    /\ ProgramOf["difference"][7] = TwoRegisters("SubCy", 1, 3)
    /\ ProgramOf["left"][6] = ShiftBy(FALSE, "0", 0)
    /\ ProgramOf["left"][7] = ShiftBy(FALSE, "cIn", 1)
    /\ ProgramOf["right"][6] = ShiftBy(TRUE, "0", 1)
    /\ ProgramOf["right"][7] = ShiftBy(TRUE, "cIn", 0)
    /\ ProgramOf["signed"][6] = ShiftBy(TRUE, "high", 1)
    /\ ProgramOf["signed"][7] = ShiftBy(TRUE, "cIn", 0)
    /\ ProgramOf["rotated"][6] = ShiftBy(TRUE, "low", 0)
    /\ ProgramOf["rotated"][7] = ShiftBy(FALSE, "high", 0)
    /\ ProgramOf["rotated"][8] = ShiftBy(FALSE, "high", 1)
    /\ ProgramOf["rotated"][9] = ShiftBy(TRUE, "low", 1)
<1>1. \A name \in Names : \A n \in 0 .. Halt(name) + 1 :
         n >= 6 /\ n < Halt(name) => ProgramOf[name][n] = Bodies[name][n - 5]
  BY CodeAt
<1>2. \A name \in {"sum", "difference", "left", "right", "signed"} :
         /\ ProgramOf[name][6] = Bodies[name][1]
         /\ ProgramOf[name][7] = Bodies[name][2]
  <2> TAKE name \in {"sum", "difference", "left", "right", "signed"}
  <2>1. name \in Names /\ Halt(name) = 8
    BY Lengths DEF Names
  <2> QED BY <1>1, <2>1
<1>3. /\ ProgramOf["rotated"][6] = Bodies["rotated"][1]
      /\ ProgramOf["rotated"][7] = Bodies["rotated"][2]
      /\ ProgramOf["rotated"][8] = Bodies["rotated"][3]
      /\ ProgramOf["rotated"][9] = Bodies["rotated"][4]
  <2>1. "rotated" \in Names /\ Halt("rotated") = 10
    BY Lengths DEF Names
  <2> QED BY <1>1, <2>1
<1> QED BY <1>2, <1>3 DEF Bodies

LEMMA ProductCode ==
    /\ ProgramOf["product"][6] = TwoRegisters("Load", 5, 0)
    /\ ProgramOf["product"][7] = Immediate("Load", 3, w)
    /\ ProgramOf["product"][8] = Immediate("Load", 1, 0)
    /\ ProgramOf["product"][9] = ShiftBy(TRUE, "0", 5)
    /\ ProgramOf["product"][10] = JumpTo("NC", 14)
    /\ ProgramOf["product"][11] = TwoRegisters("Add", 1, 2)
    /\ ProgramOf["product"][12] = JumpTo("Aw", 15)
    /\ ProgramOf["product"][13] = Immediate("Load", 6, 0)
    /\ ProgramOf["product"][14] = Immediate("Add", 1, 0)
    /\ ProgramOf["product"][15] = ShiftBy(TRUE, "cIn", 1)
    /\ ProgramOf["product"][16] = ShiftBy(TRUE, "cIn", 0)
    /\ ProgramOf["product"][17] = Immediate("Sub", 3, 1)
    /\ ProgramOf["product"][18] = JumpTo("NZ", 9)
<1>1. "product" \in Names /\ Halt("product") = 19
  BY Lengths DEF Names
<1>2. \A n \in 6 .. 18 : n \in 0 .. Halt("product") + 1 /\ n >= 6 /\ n < Halt("product")
  BY <1>1
<1>3. \A n \in 6 .. 18 : ProgramOf["product"][n] = Multiplication[n - 5]
  BY <1>1, <1>2, CodeAt DEF Bodies
<1>4. /\ ProgramOf["product"][6] = Multiplication[1]
      /\ ProgramOf["product"][7] = Multiplication[2]
      /\ ProgramOf["product"][8] = Multiplication[3]
      /\ ProgramOf["product"][9] = Multiplication[4]
      /\ ProgramOf["product"][10] = Multiplication[5]
      /\ ProgramOf["product"][11] = Multiplication[6]
      /\ ProgramOf["product"][12] = Multiplication[7]
      /\ ProgramOf["product"][13] = Multiplication[8]
      /\ ProgramOf["product"][14] = Multiplication[9]
      /\ ProgramOf["product"][15] = Multiplication[10]
      /\ ProgramOf["product"][16] = Multiplication[11]
      /\ ProgramOf["product"][17] = Multiplication[12]
      /\ ProgramOf["product"][18] = Multiplication[13]
  BY <1>3
<1> QED BY <1>4 DEF Multiplication
-----------------------------------------------------------------------------
(* The steps of the sequential machine.                                    *)

IsaShape ==
    /\ IsaPc \in Address /\ IsaCarry \in BOOLEAN /\ IsaZero \in BOOLEAN
    /\ registers \in [Register -> Words] /\ 0 .. 6 \subseteq Register
    /\ C \in {0, 1} /\ rom \in Programs

LEMMA IsaTypes == TypeOK => IsaShape
<1> HAVE TypeOK
<1>1. Word # {} /\ Word = Words
  BY WordAssumption, CircuitAssumption
<1>2. PICK portIn \in Word : TRUE
  BY <1>1
<1>3. CarryAfter(instruction, registers, carrySaved) \in BOOLEAN /\
      ZeroAfter(instruction, registers, carrySaved, zeroSaved) \in BOOLEAN
  BY <1>2, EffectTypes
<1> QED BY <1>1, <1>3, CircuitAssumption DEF IsaShape, TypeOK, IsaPc, IsaCarry, IsaZero, C, Number

LEMMA IsaTypesNext == TypeOK' => IsaShape'
BY IsaTypes, PTL

\* Where the machine goes on if it does not branch.
Goes == IsaPc' = IF IsaRepeat THEN IsaPc ELSE NextAddress(IsaPc)

\* An instruction of a program that is no branch, with the ALU of the circuit.
LEMMA OrdinaryStep ==
    ASSUME TypeOK, Machine!Next, NEW i, i = rom[IsaPc], i.op \notin BranchOps
    PROVE  /\ Goes /\ rom' = rom /\ ~IsaRepeat'
           /\ \E portIn \in Words :
                LET b == OpB(i, registers, IsaScratchpad, portIn)
                IN  i.op \in RegWriteOps =>
                      registers' = [registers EXCEPT ![i.a] =
                                      aluOut(i, IsaCarry, registers[i.a], b)]
           /\ i.op \in FlagOps =>
                LET b == RegisterOrImmediate(i, registers)
                IN  /\ IsaCarry' = cOut(i, IsaCarry, registers[i.a], b)
                    /\ IsaZero' = (aluOut(i, IsaCarry, registers[i.a], b) = 0)
           /\ i.op \notin FlagOps => IsaCarry' = IsaCarry /\ IsaZero' = IsaZero
<1>1. ~IsBranch(i)
  BY DEF IsBranch
<1>2. PICK portIn \in Word : Machine!Execute(portIn)
  <2>1. ~Machine!IsBranch(rom[IsaPc])
    BY <1>1, SameBranches
  <2> QED BY <2>1 DEF Machine!Next, Machine!BranchSlot
<1>3. rom' = rom /\ ~IsaRepeat'
  BY DEF Machine!Next
<1>4. rom \in Programs /\ IsaPc \in Address /\ registers \in [Register -> Words]
      /\ IsaCarry \in BOOLEAN /\ Word = Words /\ ZeroWord = 0
  BY IsaTypes, CircuitAssumption DEF IsaShape
<1>5. i \in InstructionsOver(Address)
  BY <1>4, ProgramsAssumption
<1>6. i.a \in Register /\ i.b \in Register /\ i.k \in Word
  BY <1>5 DEF InstructionsOver
<1>7. registers[i.a] \in Word /\ RegisterOrImmediate(i, registers) \in Word
  BY <1>4, <1>6 DEF RegisterOrImmediate
<1>8. \A b \in Word :
         /\ AluResult(i, IsaCarry, registers[i.a], b) = aluOut(i, IsaCarry, registers[i.a], b)
         /\ AluCarry(i, IsaCarry, registers[i.a], b) = cOut(i, IsaCarry, registers[i.a], b)
  BY <1>4, <1>7, CircuitAssumption
<1>9. SpadAddressOf(i, registers) \in SpadAddress
  BY <1>4, <1>6, SpadAssumption DEF SpadAddressOf
<1>10. IsaScratchpad \in [SpadAddress -> Word]
  BY <1>2, EffectTypes DEF IsaScratchpad, TypeOK
<1>11. OpB(i, registers, IsaScratchpad, portIn) \in Word
  BY <1>7, <1>9, <1>10 DEF OpB
<1>12. /\ registers' = RegistersAfter(i, registers, IsaCarry, IsaScratchpad, portIn)
       /\ IsaCarry' = CarryAfter(i, registers, IsaCarry)
       /\ IsaZero' = ZeroAfter(i, registers, IsaCarry, IsaZero)
       /\ IsaPc' = IF IsaRepeat THEN IsaPc ELSE Machine!NextAddress(IsaPc)
  BY <1>2, SameEffects DEF Machine!Execute
<1>13. Machine!NextAddress(IsaPc) = NextAddress(IsaPc)
  BY SameCounters
<1>14. i.op \in RegWriteOps =>
         registers' = [registers EXCEPT ![i.a] =
            aluOut(i, IsaCarry, registers[i.a], OpB(i, registers, IsaScratchpad, portIn))]
  BY <1>8, <1>11, <1>12 DEF RegistersAfter
<1>15. i.op \in FlagOps =>
         /\ IsaCarry' = cOut(i, IsaCarry, registers[i.a], RegisterOrImmediate(i, registers))
         /\ IsaZero' = (aluOut(i, IsaCarry, registers[i.a],
                               RegisterOrImmediate(i, registers)) = 0)
  BY <1>4, <1>7, <1>8, <1>12 DEF CarryAfter, ZeroAfter
<1>16. i.op \notin FlagOps => IsaCarry' = IsaCarry /\ IsaZero' = IsaZero
  BY <1>12 DEF CarryAfter, ZeroAfter
<1> QED BY <1>3, <1>4, <1>12, <1>13, <1>14, <1>15, <1>16 DEF Goes

\* LOAD and INPUT.
LEMMA LoadStep ==
    ASSUME TypeOK, Machine!Next, NEW a \in 0 .. 6, NEW b \in 0 .. 6, NEW k,
           rom[IsaPc] \in {TwoRegisters("Load", a, b), Immediate("Load", a, k)}
    PROVE  /\ Goes /\ IsaCarry' = IsaCarry /\ IsaZero' = IsaZero
           /\ rom[IsaPc] = TwoRegisters("Load", a, b) =>
                registers' = [registers EXCEPT ![a] = registers[b]]
           /\ rom[IsaPc] = Immediate("Load", a, k) =>
                registers' = [registers EXCEPT ![a] = k]
<1>1. /\ rom[IsaPc].op = "Load" /\ rom[IsaPc].a = a
      /\ rom[IsaPc] = TwoRegisters("Load", a, b) => rom[IsaPc].two /\ rom[IsaPc].b = b
      /\ rom[IsaPc] = Immediate("Load", a, k) => ~rom[IsaPc].two /\ rom[IsaPc].k = k
  BY TwoRegistersFields, ImmediateFields
<1>2. /\ rom[IsaPc].op \notin BranchOps /\ rom[IsaPc].op \notin FlagOps
      /\ rom[IsaPc].op \in RegWriteOps
  BY <1>1 DEF BranchOps, FlagOps, AluOps, RegWriteOps
<1>3. PICK portIn \in Words :
         registers' = [registers EXCEPT ![a] = aluOut(rom[IsaPc], IsaCarry, registers[a],
                         OpB(rom[IsaPc], registers, IsaScratchpad, portIn))]
  BY <1>1, <1>2, OrdinaryStep
<1>4. OpB(rom[IsaPc], registers, IsaScratchpad, portIn) = RegisterOrImmediate(rom[IsaPc], registers)
  BY <1>1 DEF OpB
<1>5. \A x : aluOut(rom[IsaPc], IsaCarry, registers[a], x) = x
  BY <1>1 DEF aluOut, ArithOps
<1>6. registers' = [registers EXCEPT ![a] = RegisterOrImmediate(rom[IsaPc], registers)]
  BY <1>3, <1>4, <1>5
<1> QED BY <1>1, <1>2, <1>6, OrdinaryStep DEF RegisterOrImmediate

LEMMA InputStep ==
    ASSUME TypeOK, Machine!Next, NEW a \in 0 .. 6, rom[IsaPc] = Immediate("Input", a, 0)
    PROVE  Goes
<1>1. rom[IsaPc].op = "Input"
  BY ImmediateFields
<1>2. rom[IsaPc].op \notin BranchOps
  BY <1>1 DEF BranchOps
<1> QED BY <1>2, OrdinaryStep

\* The operations of the ALU.
LEMMA AluStep ==
    ASSUME TypeOK, Machine!Next, NEW a \in 0 .. 6, NEW i, i = rom[IsaPc], i.a = a,
           i.op \in AluOps
    PROVE  /\ Goes
           /\ registers' = [registers EXCEPT ![a] = aluOut(i, IsaCarry, registers[a],
                                                   RegisterOrImmediate(i, registers))]
           /\ C' = Number(cOut(i, IsaCarry, registers[a], RegisterOrImmediate(i, registers)))
           /\ IsaZero' = (registers'[a] = 0)
<1>1. /\ rom[IsaPc].op \notin BranchOps /\ rom[IsaPc].op \in FlagOps
      /\ rom[IsaPc].op \in RegWriteOps
  BY DEF BranchOps, FlagOps, AluOps, RegWriteOps
<1>2. PICK portIn \in Words :
         registers' = [registers EXCEPT ![a] = aluOut(i, IsaCarry, registers[a],
                         OpB(i, registers, IsaScratchpad, portIn))]
  BY <1>1, OrdinaryStep
<1>3. OpB(i, registers, IsaScratchpad, portIn) = RegisterOrImmediate(i, registers)
  BY DEF OpB, AluOps
<1>4. a \in Register /\ registers \in [Register -> Words]
  BY IsaTypes DEF IsaShape
<1>5. registers'[a] = aluOut(i, IsaCarry, registers[a], RegisterOrImmediate(i, registers))
  BY <1>2, <1>3, <1>4
<1>6. /\ IsaCarry' = cOut(i, IsaCarry, registers[a], RegisterOrImmediate(i, registers))
      /\ IsaZero' = (registers'[a] = 0)
      /\ Goes
  BY <1>1, <1>5, OrdinaryStep
<1>7. C' = Number(IsaCarry')
  BY DEF C
<1> QED BY <1>2, <1>3, <1>6, <1>7

\* Nothing but register a changes.
Only(a) == registers'[a] \in Words /\ \A r \in 0 .. 6 \ {a} : registers'[r] = registers[r]

LEMMA OnlyOne ==
    ASSUME TypeOK, NEW a \in 0 .. 6, NEW x, registers' = [registers EXCEPT ![a] = x]
    PROVE  registers'[a] = x /\ (x \in Words => Only(a))
BY IsaTypes DEF IsaShape, Only

LEMMA RegisterTypes ==
    ASSUME TypeOK, NEW a \in 0 .. 6
    PROVE  registers[a] \in Words /\ registers[a] \in Nat /\ registers[a] < M
<1>1. Words = 0 .. M - 1 /\ M \in Nat
  BY PowerFacts
<1>2. registers[a] \in Words
  BY IsaTypes DEF IsaShape
<1> QED BY <1>1, <1>2

LEMMA ArithmeticEffect ==
    ASSUME TypeOK, Machine!Next, NEW a \in 0 .. 6, NEW i, i = rom[IsaPc], i.a = a,
           i.op \in {"Add", "AddCy", "Sub", "SubCy"},
           NEW b \in Words, RegisterOrImmediate(i, registers) = b
    PROVE  /\ Goes /\ Only(a) /\ IsaZero' = (registers'[a] = 0)
           /\ i.op = "Add" => registers'[a] + M * C' = registers[a] + b
           /\ i.op = "AddCy" => registers'[a] + M * C' = registers[a] + b + C
           /\ i.op = "Sub" => registers'[a] - M * C' = registers[a] - b
           /\ i.op = "SubCy" => registers'[a] - M * C' = registers[a] - b - C
<1>1. i.op \in AluOps
  BY DEF AluOps
<1>2. /\ Goes /\ IsaZero' = (registers'[a] = 0)
      /\ registers' = [registers EXCEPT ![a] = aluOut(i, IsaCarry, registers[a], b)]
      /\ C' = Number(cOut(i, IsaCarry, registers[a], b))
  BY <1>1, AluStep
<1>3. IsaCarry \in BOOLEAN /\ registers[a] \in Words /\ C = Number(IsaCarry)
  BY IsaTypes, RegisterTypes DEF IsaShape, C
<1>4. aluOut(i, IsaCarry, registers[a], b) \in Words
  BY <1>3, Arithmetic
<1>5. registers'[a] = aluOut(i, IsaCarry, registers[a], b) /\ Only(a)
  BY <1>2, <1>4, OnlyOne
<1> QED BY <1>2, <1>3, <1>5, Arithmetic

LEMMA TwoRegistersStep ==
    ASSUME TypeOK, Machine!Next, NEW a \in 0 .. 6, NEW b \in 0 .. 6,
           NEW op \in {"Add", "AddCy", "Sub", "SubCy"}, rom[IsaPc] = TwoRegisters(op, a, b)
    PROVE  /\ Goes /\ Only(a)
           /\ op = "Add" => registers'[a] + M * C' = registers[a] + registers[b]
           /\ op = "AddCy" => registers'[a] + M * C' = registers[a] + registers[b] + C
           /\ op = "Sub" => registers'[a] - M * C' = registers[a] - registers[b]
           /\ op = "SubCy" => registers'[a] - M * C' = registers[a] - registers[b] - C
<1>1. rom[IsaPc].op = op /\ rom[IsaPc].a = a /\ rom[IsaPc].b = b /\ rom[IsaPc].two
  BY TwoRegistersFields
<1>2. RegisterOrImmediate(rom[IsaPc], registers) = registers[b]
  BY <1>1 DEF RegisterOrImmediate
<1>3. registers[b] \in Words
  BY RegisterTypes
<1> QED BY <1>1, <1>2, <1>3, ArithmeticEffect

LEMMA ImmediateStep ==
    ASSUME TypeOK, Machine!Next, NEW a \in 0 .. 6, NEW k \in Words,
           NEW op \in {"Add", "Sub"}, rom[IsaPc] = Immediate(op, a, k)
    PROVE  /\ Goes /\ Only(a) /\ IsaZero' = (registers'[a] = 0)
           /\ op = "Add" => registers'[a] + M * C' = registers[a] + k
           /\ op = "Sub" => registers'[a] - M * C' = registers[a] - k
<1>1. rom[IsaPc].op = op /\ rom[IsaPc].a = a /\ rom[IsaPc].k = k /\ ~rom[IsaPc].two
  BY ImmediateFields
<1>2. RegisterOrImmediate(rom[IsaPc], registers) = k
  BY <1>1 DEF RegisterOrImmediate
<1> QED BY <1>1, <1>2, ArithmeticEffect

\* The bit that comes in.
In(bit, word) ==
    CASE bit = "0"    -> 0
      [] bit = "cIn"  -> C
      [] bit = "high" -> Sign(word)
      [] bit = "low"  -> word % 2

LEMMA InBits ==
    \A word : /\ In("0", word) = 0 /\ In("cIn", word) = C
              /\ In("high", word) = Sign(word) /\ In("low", word) = word % 2
BY DEF In

LEMMA ShiftEffect ==
    ASSUME TypeOK, Machine!Next, NEW a \in 0 .. 6, NEW bit \in {"0", "cIn", "high", "low"},
           NEW i, i = rom[IsaPc], i.op = "ShRot", i.a = a, i.shift.right \in BOOLEAN,
           i.shift.bit = bit
    PROVE  /\ Goes /\ Only(a)
           /\ ~i.shift.right =>
                registers'[a] + M * C' = 2 * registers[a] + In(bit, registers[a])
           /\ i.shift.right =>
                2 * registers'[a] + C' = registers[a] + M * In(bit, registers[a])
<1>1. i.op \in AluOps
  BY DEF AluOps
<1>2. PICK b : b = RegisterOrImmediate(i, registers)
  OBVIOUS
<1>3. /\ Goes
      /\ registers' = [registers EXCEPT ![a] = aluOut(i, IsaCarry, registers[a], b)]
      /\ C' = Number(cOut(i, IsaCarry, registers[a], b))
  BY <1>1, <1>2, AluStep
<1>4. IsaCarry \in BOOLEAN /\ registers[a] \in Words /\ C = Number(IsaCarry)
  BY IsaTypes, RegisterTypes DEF IsaShape, C
<1>5. aluOut(i, IsaCarry, registers[a], b) \in Words
  BY <1>4, Shifting
<1>6. registers'[a] = aluOut(i, IsaCarry, registers[a], b) /\ Only(a)
  BY <1>3, <1>5, OnlyOne
<1>7. cInShift(i.shift, IsaCarry, registers[a]) = In(bit, registers[a])
  BY <1>4, ShiftedIn DEF In
<1>8. /\ ~i.shift.right => registers'[a] + M * C' = 2 * registers[a] + In(bit, registers[a])
      /\ i.shift.right => 2 * registers'[a] + C' = registers[a] + M * In(bit, registers[a])
  BY <1>3, <1>4, <1>6, <1>7, Shifting
<1> QED BY <1>3, <1>6, <1>8

LEMMA LeftShiftStep ==
    ASSUME TypeOK, Machine!Next, NEW a \in 0 .. 6, NEW bit \in {"0", "cIn", "high", "low"},
           rom[IsaPc] = ShiftBy(FALSE, bit, a)
    PROVE  /\ Goes /\ Only(a)
           /\ registers'[a] + M * C' = 2 * registers[a] + In(bit, registers[a])
<1>1. rom[IsaPc].op = "ShRot" /\ rom[IsaPc].a = a /\ rom[IsaPc].shift.bit = bit
  BY DEF ShiftBy, Immediate
<1>2. rom[IsaPc].shift.right = FALSE
  BY DEF ShiftBy, Immediate
<1>3. ~rom[IsaPc].shift.right /\ rom[IsaPc].shift.right \in BOOLEAN
  BY <1>2
<1> QED BY <1>1, <1>3, ShiftEffect

LEMMA RightShiftStep ==
    ASSUME TypeOK, Machine!Next, NEW a \in 0 .. 6, NEW bit \in {"0", "cIn", "high", "low"},
           rom[IsaPc] = ShiftBy(TRUE, bit, a)
    PROVE  /\ Goes /\ Only(a)
           /\ 2 * registers'[a] + C' = registers[a] + M * In(bit, registers[a])
<1>1. rom[IsaPc].op = "ShRot" /\ rom[IsaPc].a = a /\ rom[IsaPc].shift.bit = bit
  BY DEF ShiftBy, Immediate
<1>2. rom[IsaPc].shift.right = TRUE
  BY DEF ShiftBy, Immediate
<1>3. rom[IsaPc].shift.right /\ rom[IsaPc].shift.right \in BOOLEAN
  BY <1>2
<1> QED BY <1>1, <1>3, ShiftEffect

\* Jumps: the place behind a taken one may change the flags, but nothing else.
LEMMA JumpStep ==
    ASSUME TypeOK, Machine!Next, NEW cond, NEW target, rom[IsaPc] = JumpTo(cond, target)
    PROVE  /\ registers' = registers
           /\ ~Holds(cond, IsaCarry, IsaZero) =>
                Goes /\ IsaCarry' = IsaCarry /\ IsaZero' = IsaZero
           /\ Holds(cond, IsaCarry, IsaZero) =>
                /\ IsaPc' = target
                /\ rom[NextAddress(IsaPc)].op \notin FlagOps =>
                      IsaCarry' = IsaCarry /\ IsaZero' = IsaZero
<1>1. rom[IsaPc].op = "Jump" /\ rom[IsaPc].cond = cond /\ rom[IsaPc].address = target
  BY JumpFields
<1>2. IsBranch(rom[IsaPc])
  BY <1>1 DEF IsBranch, BranchOps
<1>3. CASE ~Holds(cond, IsaCarry, IsaZero)
  <2>1. PICK portIn \in Word : Machine!Execute(portIn)
    <3>1. ~Machine!Holds(rom[IsaPc].cond, IsaCarry, IsaZero)
      BY <1>1, <1>3, SameBranches
    <3> QED BY <3>1 DEF Machine!Next, Machine!BranchSlot
  <2>2. /\ registers' = RegistersAfter(rom[IsaPc], registers, IsaCarry, IsaScratchpad, portIn)
        /\ IsaCarry' = CarryAfter(rom[IsaPc], registers, IsaCarry)
        /\ IsaZero' = ZeroAfter(rom[IsaPc], registers, IsaCarry, IsaZero)
        /\ IsaPc' = IF IsaRepeat THEN IsaPc ELSE Machine!NextAddress(IsaPc)
    BY <2>1, SameEffects DEF Machine!Execute
  <2>3. rom[IsaPc].op \notin RegWriteOps /\ rom[IsaPc].op \notin FlagOps
    BY <1>1 DEF RegWriteOps, FlagOps, AluOps
  <2> QED BY <1>3, <2>2, <2>3, SameCounters DEF RegistersAfter, CarryAfter, ZeroAfter, Goes
<1>4. CASE Holds(cond, IsaCarry, IsaZero)
  <2>1. Machine!IsBranch(rom[IsaPc]) /\ Machine!Holds(rom[IsaPc].cond, IsaCarry, IsaZero)
    BY <1>1, <1>2, <1>4, SameBranches
  <2>2. Machine!BranchSlot
    BY <2>1 DEF Machine!Next, Machine!Execute
  <2>3. /\ IsaPc' = target /\ registers' = registers
        /\ IsaCarry' = CarryAfter(rom[Machine!NextAddress(IsaPc)], registers, IsaCarry)
        /\ IsaZero' = ZeroAfter(rom[Machine!NextAddress(IsaPc)], registers, IsaCarry, IsaZero)
    BY <1>1, <2>2, SameEffects DEF Machine!BranchSlot
  <2> QED BY <1>4, <2>3, SameCounters DEF CarryAfter, ZeroAfter
<1> QED BY <1>3, <1>4
-----------------------------------------------------------------------------
(* What the programs do, instruction by instruction.                       *)

\* Only the very first instruction is executed twice.
LEMMA GoesOn ==
    ASSUME NEW name \in Names, IsaPc \in 0 .. Halt(name), IsaRepeat => IsaPc = 0, Goes
    PROVE  /\ IsaPc' \in {IsaPc, IsaPc + 1}
           /\ IsaPc > 0 => IsaPc' = IsaPc + 1
<1>1. NextAddress(IsaPc) = IsaPc + 1
  BY InMemory
<1> QED BY <1>1 DEF Goes

LEMMA Reading ==
    ASSUME TypeOK, Machine!Next, Copied, IsaRepeat => IsaPc = 0,
           NEW name \in Names, rom = ProgramOf[name], IsaPc \in 0 .. 5
    PROVE  IsaPc' \in 0 .. 6 /\ Copied'
<1>1. IsaPc \in 0 .. Halt(name)
  BY InMemory, Lengths DEF Names
<1>2. CASE IsaPc \in 0 .. 3
  <2>1. rom[IsaPc] = Immediate("Input", IsaPc, 0) /\ IsaPc \in 0 .. 6
    BY <1>2, ReadingCode
  <2>2. Goes
    BY <2>1, InputStep
  <2> QED BY <1>1, <1>2, <2>2, GoesOn DEF Copied
<1>3. CASE IsaPc = 4
  <2>1. rom[IsaPc] = TwoRegisters("Load", 4, 0)
    BY <1>3, ReadingCode
  <2>2. Goes /\ registers' = [registers EXCEPT ![4] = registers[0]]
    BY <2>1, LoadStep
  <2>3. registers'[4] = registers'[0]
    BY <2>2, IsaTypes DEF IsaShape
  <2> QED BY <1>1, <1>3, <2>2, <2>3, GoesOn DEF Copied
<1>4. CASE IsaPc = 5
  <2>1. rom[IsaPc] = TwoRegisters("Load", 5, 1)
    BY <1>4, ReadingCode
  <2>2. Goes /\ registers' = [registers EXCEPT ![5] = registers[1]]
    BY <2>1, LoadStep
  <2>3. registers'[5] = registers'[1] /\ registers'[4] = registers'[0]
    BY <1>4, <2>2, IsaTypes DEF IsaShape, Copied
  <2> QED BY <1>1, <1>4, <2>2, <2>3, GoesOn DEF Copied
<1> QED BY <1>2, <1>3, <1>4

\* The numbers of two words.
LEMMA Numbers ==
    /\ Result = M * registers[1] + registers[0] /\ First = M * registers[5] + registers[4]
    /\ Second = M * registers[3] + registers[2]
BY DEF Result, First, Second, Number2, M

LEMMA NumbersNext ==
    /\ Result' = M * registers'[1] + registers'[0]
    /\ First' = M * registers'[5] + registers'[4]
    /\ Second' = M * registers'[3] + registers'[2]
BY DEF Result, First, Second, Number2, M

\* The high words are added with what the low ones carry.
LEMMA WordsAdded ==
    ASSUME NEW high \in Int, NEW low \in Int, NEW a \in Int, NEW b \in Int,
           NEW c \in Int, NEW d \in Int, NEW e \in Int, NEW carry \in Int,
           low + M * carry = b + d,
           high + M * e = a + c + carry
    PROVE  (M * high + low) + Range2 * e = (M * a + b) + (M * c + d)
<1>1. M \in Int /\ Range2 = M * M
  BY PowerFacts
<1>2. M * (high + M * e) = M * high + Range2 * e
  BY <1>1
<1>3. M * (a + c + carry) = M * a + M * c + M * carry
  BY <1>1
<1> DEFINE mh == M * high
           re == Range2 * e
           ma == M * a
           mc == M * c
           mb == M * carry
<1>4. mh \in Int /\ re \in Int /\ ma \in Int /\ mc \in Int /\ mb \in Int
  BY <1>1
<1>5. mh + re = ma + mc + mb /\ low + mb = b + d
  BY <1>2, <1>3
<1> HIDE DEF mh, re, ma, mc, mb
<1>6. (mh + low) + re = (ma + b) + (mc + d)
  BY <1>4, <1>5
<1> QED BY <1>6 DEF mh, re, ma, mc, mb

LEMMA SumStep ==
    ASSUME TypeOK, TypeOK', Machine!Next, Copied, SumHolds, IsaRepeat => IsaPc = 0,
           rom = ProgramOf["sum"], IsaPc \in {6, 7}
    PROVE  IsaPc' = IsaPc + 1 /\ SumHolds'
<1>1. "sum" \in Names /\ IsaPc \in 0 .. Halt("sum") /\ IsaPc > 0
  BY Lengths DEF Names
<1>2. registers[0] \in Nat /\ registers[1] \in Nat /\ registers[2] \in Nat
      /\ registers[3] \in Nat /\ registers[4] \in Nat /\ registers[5] \in Nat
  BY RegisterTypes
<1>3. CASE IsaPc = 6
  <2>1. rom[IsaPc] = TwoRegisters("Add", 0, 2)
    BY <1>3, BodyCode
  <2>2. Goes /\ Only(0) /\ registers'[0] + M * C' = registers[0] + registers[2]
    BY <2>1, TwoRegistersStep
  <2>3. IsaPc' = 7
    BY <1>1, <1>3, <2>2, GoesOn
  <2>4. /\ registers'[5] = registers'[1]
        /\ registers'[0] + M * C' = registers'[4] + registers'[2]
    BY <1>3, <2>2 DEF Only, Copied
  <2> QED BY <1>3, <2>3, <2>4 DEF SumHolds, M
<1>4. CASE IsaPc = 7
  <2>1. rom[IsaPc] = TwoRegisters("AddCy", 1, 3)
    BY <1>4, BodyCode
  <2>2. Goes /\ Only(1) /\ registers'[1] + M * C' = registers[1] + registers[3] + C
    BY <2>1, TwoRegistersStep
  <2>3. IsaPc' = 8
    BY <1>1, <1>4, <2>2, GoesOn
  <2>4. registers[5] = registers[1] /\ registers[0] + M * C = registers[4] + registers[2]
    BY <1>4 DEF SumHolds
  <2>5. C \in Int /\ C' \in Int /\ registers'[1] \in Int
    <3>1. IsaShape' /\ IsaShape
      BY IsaTypes, IsaTypesNext
    <3>2. registers'[1] \in Words /\ Words = 0 .. M - 1
      BY <2>2, PowerFacts DEF Only
    <3> QED BY <3>1, <3>2, PowerFacts DEF IsaShape
  <2>6. (M * registers'[1] + registers[0]) + Range2 * C'
          = (M * registers[5] + registers[4]) + (M * registers[3] + registers[2])
    BY <1>2, <2>2, <2>4, <2>5, WordsAdded
  <2>7. Result' + Range2 * C' = First' + Second'
    BY <2>2, <2>6, NumbersNext DEF Only
  <2> QED BY <1>4, <2>3, <2>7 DEF SumHolds, Range2
<1> QED BY <1>3, <1>4
\* The borrow of the low words is taken from the high ones.
LEMMA WordsSubtracted ==
    ASSUME NEW high \in Int, NEW low \in Int, NEW a \in Int, NEW b \in Int,
           NEW c \in Int, NEW d \in Int, NEW e \in Int, NEW borrow \in Int,
           low - M * borrow = b - d,
           high - M * e = a - c - borrow
    PROVE  (M * high + low) - Range2 * e = (M * a + b) - (M * c + d)
<1>1. M \in Int /\ Range2 = M * M
  BY PowerFacts
<1>2. M * (high - M * e) = M * high - Range2 * e
  BY <1>1
<1>3. M * (a - c - borrow) = M * a - M * c - M * borrow
  BY <1>1
<1> DEFINE mh == M * high
           re == Range2 * e
           ma == M * a
           mc == M * c
           mb == M * borrow
<1>4. mh \in Int /\ re \in Int /\ ma \in Int /\ mc \in Int /\ mb \in Int
  BY <1>1
<1>5. mh - re = ma - mc - mb /\ low - mb = b - d
  BY <1>2, <1>3
<1> HIDE DEF mh, re, ma, mc, mb
<1>6. (mh + low) - re = (ma + b) - (mc + d)
  BY <1>4, <1>5
<1> QED BY <1>6 DEF mh, re, ma, mc, mb

\* The bit that leaves the high word comes into the low one.
LEMMA WordsHalved ==
    ASSUME NEW high \in Int, NEW low \in Int, NEW a \in Int, NEW b \in Int,
           NEW e \in Int, NEW sign \in Int, NEW carry \in Int,
           2 * high + carry = a + M * sign,
           2 * low + e = b + M * carry
    PROVE  2 * (M * high + low) + e = (M * a + b) + Range2 * sign
<1>1. M \in Int /\ Range2 = M * M
  BY PowerFacts
<1>2. M * (2 * high + carry) = 2 * (M * high) + M * carry
  BY <1>1
<1>3. M * (a + M * sign) = M * a + Range2 * sign
  BY <1>1
<1> DEFINE mh == M * high
           rs == Range2 * sign
           ma == M * a
           mc == M * carry
<1>4. mh \in Int /\ rs \in Int /\ ma \in Int /\ mc \in Int
  BY <1>1
<1>5. 2 * mh + mc = ma + rs /\ 2 * low + e = b + mc
  BY <1>2, <1>3
<1> HIDE DEF mh, rs, ma, mc
<1>6. 2 * (mh + low) + e = (ma + b) + rs
  BY <1>4, <1>5
<1> QED BY <1>6 DEF mh, rs, ma, mc

\* What the registers and the carry hold are integers, after a step too.
LEMMA Integers ==
    ASSUME TypeOK, TypeOK'
    PROVE  /\ \A a \in 0 .. 6 : registers[a] \in Nat /\ registers[a] < M
           /\ \A a \in 0 .. 6 : registers'[a] \in Nat /\ registers'[a] < M
           /\ C \in {0, 1} /\ C' \in {0, 1} /\ C \in Int /\ C' \in Int
<1>1. IsaShape /\ IsaShape'
  BY IsaTypes, IsaTypesNext
<1>2. Words = 0 .. M - 1 /\ M \in Nat
  BY PowerFacts
<1>3. \A a \in 0 .. 6 : registers[a] \in Words /\ registers'[a] \in Words
  BY <1>1 DEF IsaShape
<1>4. \A word \in Words : word \in Nat /\ word < M
  BY <1>2
<1>5. \A a \in 0 .. 6 : registers[a] \in Nat /\ registers[a] < M
  BY <1>3, <1>4
<1>6. \A a \in 0 .. 6 : registers'[a] \in Nat /\ registers'[a] < M
  BY <1>3, <1>4
<1> QED BY <1>1, <1>5, <1>6 DEF IsaShape

LEMMA NumberTypes ==
    ASSUME TypeOK, TypeOK'
    PROVE  First' \in Int /\ Result' \in Int
<1>1. \A a \in 0 .. 6 : registers'[a] \in Nat
  BY Integers
<1>2. M \in Int /\ registers'[0] \in Int /\ registers'[1] \in Int
      /\ registers'[4] \in Int /\ registers'[5] \in Int
  <2>1. 0 \in 0 .. 6 /\ 1 \in 0 .. 6 /\ 4 \in 0 .. 6 /\ 5 \in 0 .. 6
    OBVIOUS
  <2>2. M \in Int
    BY PowerFacts
  <2> QED BY <1>1, <2>1, <2>2
<1>3. \A x, y \in Int : M * x + y \in Int
  BY <1>2
<1> QED BY <1>2, <1>3, NumbersNext

LEMMA DifferenceStep ==
    ASSUME TypeOK, TypeOK', Machine!Next, Copied, DifferenceHolds, IsaRepeat => IsaPc = 0,
           rom = ProgramOf["difference"], IsaPc \in {6, 7}
    PROVE  IsaPc' = IsaPc + 1 /\ DifferenceHolds'
<1>1. "difference" \in Names /\ IsaPc \in 0 .. Halt("difference") /\ IsaPc > 0
  BY Lengths DEF Names
<1>2. CASE IsaPc = 6
  <2>1. rom[IsaPc] = TwoRegisters("Sub", 0, 2)
    BY <1>2, BodyCode
  <2>2. Goes /\ Only(0) /\ registers'[0] - M * C' = registers[0] - registers[2]
    BY <2>1, TwoRegistersStep
  <2>3. IsaPc' = 7
    BY <1>1, <1>2, <2>2, GoesOn
  <2>4. /\ registers'[5] = registers'[1]
        /\ registers'[0] - M * C' = registers'[4] - registers'[2]
    BY <1>2, <2>2 DEF Only, Copied
  <2> QED BY <1>2, <2>3, <2>4 DEF DifferenceHolds, M
<1>3. CASE IsaPc = 7
  <2>1. rom[IsaPc] = TwoRegisters("SubCy", 1, 3)
    BY <1>3, BodyCode
  <2>2. Goes /\ Only(1) /\ registers'[1] - M * C' = registers[1] - registers[3] - C
    BY <2>1, TwoRegistersStep
  <2>3. IsaPc' = 8
    BY <1>1, <1>3, <2>2, GoesOn
  <2>4. registers[5] = registers[1] /\ registers[0] - M * C = registers[4] - registers[2]
    BY <1>3 DEF DifferenceHolds
  <2>5. (M * registers'[1] + registers[0]) - Range2 * C'
          = (M * registers[5] + registers[4]) - (M * registers[3] + registers[2])
    BY <2>2, <2>4, Integers, WordsSubtracted
  <2>6. Result' - Range2 * C' = First' - Second'
    BY <2>2, <2>5, NumbersNext DEF Only
  <2> QED BY <1>3, <2>3, <2>6 DEF DifferenceHolds, Range2
<1> QED BY <1>2, <1>3

LEMMA LeftStep ==
    ASSUME TypeOK, TypeOK', Machine!Next, Copied, LeftHolds, IsaRepeat => IsaPc = 0,
           rom = ProgramOf["left"], IsaPc \in {6, 7}
    PROVE  IsaPc' = IsaPc + 1 /\ LeftHolds'
<1>1. "left" \in Names /\ IsaPc \in 0 .. Halt("left") /\ IsaPc > 0
  BY Lengths DEF Names
<1>2. CASE IsaPc = 6
  <2>1. rom[IsaPc] = ShiftBy(FALSE, "0", 0)
    BY <1>2, BodyCode
  <2>2. Goes /\ Only(0) /\ registers'[0] + M * C' = 2 * registers[0] + 0
    BY <2>1, LeftShiftStep, InBits
  <2>3. IsaPc' = 7
    BY <1>1, <1>2, <2>2, GoesOn
  <2>4. /\ registers'[5] = registers'[1]
        /\ registers'[0] + M * C' = 2 * registers'[4]
    BY <1>2, <2>2, Integers DEF Only, Copied
  <2> QED BY <1>2, <2>3, <2>4 DEF LeftHolds, M
<1>3. CASE IsaPc = 7
  <2>1. rom[IsaPc] = ShiftBy(FALSE, "cIn", 1)
    BY <1>3, BodyCode
  <2>2. Goes /\ Only(1) /\ registers'[1] + M * C' = 2 * registers[1] + C
    BY <2>1, LeftShiftStep, InBits
  <2>3. IsaPc' = 8
    BY <1>1, <1>3, <2>2, GoesOn
  <2>4. registers[5] = registers[1] /\ registers[0] + M * C = 2 * registers[4]
    BY <1>3 DEF LeftHolds
  <2>5. /\ registers[0] + M * C = registers[4] + registers[4]
        /\ registers'[1] + M * C' = registers[5] + registers[5] + C
    BY <2>2, <2>4, Integers
  <2>6. (M * registers'[1] + registers[0]) + Range2 * C'
          = (M * registers[5] + registers[4]) + (M * registers[5] + registers[4])
    BY <2>5, Integers, WordsAdded
  <2>7. Result' + Range2 * C' = First' + First' /\ First' \in Int
    BY <2>2, <2>6, NumbersNext, NumberTypes DEF Only
  <2>8. Result' + Range2 * C' = 2 * First'
    BY <2>7
  <2> QED BY <1>3, <2>3, <2>8 DEF LeftHolds, Range2
<1> QED BY <1>2, <1>3

LEMMA RightStep ==
    ASSUME TypeOK, TypeOK', Machine!Next, Copied, RightHolds, IsaRepeat => IsaPc = 0,
           rom = ProgramOf["right"], IsaPc \in {6, 7}
    PROVE  IsaPc' = IsaPc + 1 /\ RightHolds'
<1>1. "right" \in Names /\ IsaPc \in 0 .. Halt("right") /\ IsaPc > 0
  BY Lengths DEF Names
<1>2. M \in Int /\ M * 0 = 0 /\ Range2 \in Int /\ Range2 * 0 = 0
  BY PowerFacts
<1>3. CASE IsaPc = 6
  <2>1. rom[IsaPc] = ShiftBy(TRUE, "0", 1)
    BY <1>3, BodyCode
  <2>2. Goes /\ Only(1) /\ 2 * registers'[1] + C' = registers[1] + M * 0
    BY <2>1, RightShiftStep, InBits
  <2>3. IsaPc' = 7
    BY <1>1, <1>3, <2>2, GoesOn
  <2>4. registers'[4] = registers'[0] /\ 2 * registers'[1] + C' = registers'[5]
    BY <1>2, <1>3, <2>2, Integers DEF Only, Copied
  <2> QED BY <1>3, <2>3, <2>4 DEF RightHolds
<1>4. CASE IsaPc = 7
  <2>1. rom[IsaPc] = ShiftBy(TRUE, "cIn", 0)
    BY <1>4, BodyCode
  <2>2. Goes /\ Only(0) /\ 2 * registers'[0] + C' = registers[0] + M * C
    BY <2>1, RightShiftStep, InBits
  <2>3. IsaPc' = 8
    BY <1>1, <1>4, <2>2, GoesOn
  <2>4. registers[4] = registers[0] /\ 2 * registers[1] + C = registers[5]
    BY <1>4 DEF RightHolds
  <2>5. 2 * registers[1] + C = registers[5] + M * 0
    BY <1>2, <2>4, Integers
  <2>6. 2 * (M * registers[1] + registers'[0]) + C'
          = (M * registers[5] + registers[0]) + Range2 * 0
    BY <2>2, <2>5, Integers, WordsHalved
  <2>7. 2 * Result' + C' = First' + Range2 * 0 /\ First' \in Int
    BY <2>2, <2>4, <2>6, NumbersNext, NumberTypes DEF Only
  <2>8. 2 * Result' + C' = First'
    BY <1>2, <2>7
  <2> QED BY <1>4, <2>3, <2>8 DEF RightHolds
<1> QED BY <1>3, <1>4

LEMMA SignedStep ==
    ASSUME TypeOK, TypeOK', Machine!Next, Copied, SignedHolds, IsaRepeat => IsaPc = 0,
           rom = ProgramOf["signed"], IsaPc \in {6, 7}
    PROVE  IsaPc' = IsaPc + 1 /\ SignedHolds'
<1>1. "signed" \in Names /\ IsaPc \in 0 .. Halt("signed") /\ IsaPc > 0
  BY Lengths DEF Names
<1>2. Sign(registers[5]) \in Int
  BY DEF Sign
<1>3. CASE IsaPc = 6
  <2>1. rom[IsaPc] = ShiftBy(TRUE, "high", 1)
    BY <1>3, BodyCode
  <2>2. /\ Goes /\ Only(1)
        /\ 2 * registers'[1] + C' = registers[1] + M * Sign(registers[1])
    BY <2>1, RightShiftStep, InBits
  <2>3. IsaPc' = 7
    BY <1>1, <1>3, <2>2, GoesOn
  <2>4. /\ registers'[4] = registers'[0]
        /\ 2 * registers'[1] + C' = registers'[5] + M * Sign(registers'[5])
    BY <1>3, <2>2 DEF Only, Copied
  <2> QED BY <1>3, <2>3, <2>4 DEF SignedHolds, M, Sign
<1>4. CASE IsaPc = 7
  <2>1. rom[IsaPc] = ShiftBy(TRUE, "cIn", 0)
    BY <1>4, BodyCode
  <2>2. Goes /\ Only(0) /\ 2 * registers'[0] + C' = registers[0] + M * C
    BY <2>1, RightShiftStep, InBits
  <2>3. IsaPc' = 8
    BY <1>1, <1>4, <2>2, GoesOn
  <2>4. /\ registers[4] = registers[0]
        /\ 2 * registers[1] + C = registers[5] + M * Sign(registers[5])
    BY <1>4 DEF SignedHolds
  <2>5. 2 * (M * registers[1] + registers'[0]) + C'
          = (M * registers[5] + registers[0]) + Range2 * Sign(registers[5])
    BY <1>2, <2>2, <2>4, Integers, WordsHalved
  <2>6. 2 * Result' + C' = First' + Range2 * Sign(registers'[5])
    BY <2>2, <2>4, <2>5, NumbersNext DEF Only
  <2> QED BY <1>4, <2>3, <2>6 DEF SignedHolds, Range2, Sign, M
<1> QED BY <1>3, <1>4

\* A word rotated right and then left: the bit that left comes back.
LEMMA RotatedBack ==
    ASSUME NEW a \in Nat, a < M, NEW b \in Nat, b < M, NEW c \in {0, 1}
    PROVE  /\ 2 * b + c = a + M * (a % 2) => 2 * b = a + (M - 1) * (a % 2)
           /\ \A word \in Nat : word < M /\ 2 * a = word + (M - 1) * (word % 2)
                                /\ b + M * c = 2 * a + Sign(a) => b = word
<1>1. M \in Nat /\ M >= 2 /\ 2 ^ (w - 1) \in Nat /\ M = 2 * 2 ^ (w - 1)
  BY PowerFacts
<1> DEFINE half == 2 ^ (w - 1)
<1>2. half \in Nat /\ M = 2 * half
  BY <1>1
<1> HIDE DEF half
<1>3. \A word \in Nat : /\ word % 2 \in {0, 1} /\ word \div 2 \in Nat
                        /\ word = 2 * (word \div 2) + (word % 2)
  BY Halves
<1>4. ASSUME 2 * b + c = a + M * (a % 2) PROVE 2 * b = a + (M - 1) * (a % 2)
  <2> DEFINE low == a % 2
             rest == a \div 2
  <2>1. low \in {0, 1} /\ rest \in Nat /\ a = 2 * rest + low
    BY <1>3
  <2>2. 2 * b + c = a + M * low
    BY <1>4
  <2> HIDE DEF low, rest
  <2>3. CASE low = 0
    <3>1. c = 0
      BY <1>1, <2>1, <2>2, <2>3
    <3> QED BY <1>1, <2>2, <2>3, <3>1 DEF low
  <2>4. CASE low = 1
    <3>1. 2 * b + c = 2 * rest + 1 + 2 * half
      BY <1>2, <2>1, <2>2, <2>4
    <3>2. c = 1
      BY <1>2, <2>1, <3>1
    <3> QED BY <1>1, <2>2, <2>4, <3>2 DEF low
  <2> QED BY <2>1, <2>3, <2>4
<1>5. ASSUME NEW word \in Nat, word < M, 2 * a = word + (M - 1) * (word % 2),
             b + M * c = 2 * a + Sign(a)
      PROVE  b = word
  <2> DEFINE low == word % 2
             rest == word \div 2
  <2>1. low \in {0, 1} /\ rest \in Nat /\ word = 2 * rest + low
    BY <1>3
  <2>2. 2 * a = word + (M - 1) * low
    BY <1>5
  <2> HIDE DEF low, rest
  <2>3. CASE low = 0
    <3>1. 2 * a = word
      BY <1>1, <2>2, <2>3
    <3>2. Sign(a) = 0
      BY <1>1, <1>5, <3>1 DEF Sign
    <3> QED BY <1>1, <1>5, <3>1, <3>2
  <2>4. CASE low = 1
    <3>1. 2 * a = word + M - 1 /\ word >= 1
      BY <1>1, <2>1, <2>2, <2>4
    <3>2. Sign(a) = 1
      BY <1>1, <3>1 DEF Sign
    <3> QED BY <1>1, <1>5, <3>1, <3>2
  <2> QED BY <2>1, <2>3, <2>4
<1> QED BY <1>4, <1>5

\* A word rotated left and then right.
LEMMA RotatedForth ==
    ASSUME NEW a \in Nat, a < M, NEW b \in Nat, b < M, NEW c \in {0, 1}
    PROVE  /\ b + M * c = 2 * a + Sign(a) => b + (M - 1) * Sign(a) = 2 * a
           /\ \A word \in Nat : word < M /\ a + (M - 1) * Sign(word) = 2 * word
                                /\ 2 * b + c = a + M * (a % 2) => b = word
<1>1. M \in Nat /\ M >= 2 /\ 2 ^ (w - 1) \in Nat /\ M = 2 * 2 ^ (w - 1)
  BY PowerFacts
<1> DEFINE half == 2 ^ (w - 1)
<1>2. half \in Nat /\ M = 2 * half
  BY <1>1
<1> HIDE DEF half
<1>3. a % 2 \in {0, 1} /\ a \div 2 \in Nat /\ a = 2 * (a \div 2) + (a % 2)
  BY Halves
<1>4. ASSUME b + M * c = 2 * a + Sign(a) PROVE b + (M - 1) * Sign(a) = 2 * a
  <2>1. CASE 2 * a >= M
    <3>1. Sign(a) = 1
      BY <2>1 DEF Sign
    <3>2. b + M * c = 2 * a + 1
      BY <1>4, <3>1
    <3>3. c = 1
      BY <1>1, <2>1, <3>2
    <3> QED BY <1>1, <3>1, <3>2, <3>3
  <2>2. CASE 2 * a < M
    BY <1>1, <1>4, <2>2 DEF Sign
  <2> QED BY <1>1, <2>1, <2>2
<1>5. ASSUME NEW word \in Nat, word < M, a + (M - 1) * Sign(word) = 2 * word,
             2 * b + c = a + M * (a % 2)
      PROVE  b = word
  <2> DEFINE low == a % 2
             rest == a \div 2
  <2>1. low \in {0, 1} /\ rest \in Nat /\ a = 2 * rest + low /\ 2 * b + c = a + M * low
    BY <1>3, <1>5
  <2> HIDE DEF low, rest
  <2>2. CASE Sign(word) = 0
    <3>1. a = 2 * word
      BY <1>1, <1>5, <2>2
    <3>2. low = 0
      BY <2>1, <3>1
    <3> QED BY <1>1, <2>1, <3>1, <3>2
  <2>3. CASE Sign(word) = 1
    <3>1. a + 2 * half = 2 * word + 1
      BY <1>2, <1>5, <2>3
    <3>2. low = 1
      BY <1>2, <2>1, <3>1
    <3> QED BY <1>2, <2>1, <3>1, <3>2
  <2> QED BY <2>2, <2>3 DEF Sign
<1> QED BY <1>4, <1>5

LEMMA RotatedStep ==
    ASSUME TypeOK, TypeOK', Machine!Next, Copied, RotatedHolds, IsaRepeat => IsaPc = 0,
           rom = ProgramOf["rotated"], IsaPc \in 6 .. 9
    PROVE  IsaPc' = IsaPc + 1 /\ RotatedHolds'
<1>1. "rotated" \in Names /\ IsaPc \in 0 .. Halt("rotated") /\ IsaPc > 0
  BY Lengths DEF Names
<1>2. /\ registers[0] \in Nat /\ registers[0] < M /\ registers[1] \in Nat /\ registers[1] < M
      /\ registers[4] \in Nat /\ registers[4] < M /\ registers[5] \in Nat /\ registers[5] < M
      /\ registers'[0] \in Nat /\ registers'[0] < M
      /\ registers'[1] \in Nat /\ registers'[1] < M /\ C' \in {0, 1}
  BY Integers
<1>3. CASE IsaPc = 6
  <2>1. rom[IsaPc] = ShiftBy(TRUE, "low", 0)
    BY <1>3, BodyCode
  <2>2. /\ Goes /\ Only(0)
        /\ 2 * registers'[0] + C' = registers[0] + M * (registers[0] % 2)
    BY <2>1, RightShiftStep, InBits
  <2>3. IsaPc' = 7
    BY <1>1, <1>3, <2>2, GoesOn
  <2>4. 2 * registers'[0] = registers[0] + (M - 1) * (registers[0] % 2)
    BY <1>2, <2>2, RotatedBack
  <2>5. registers'[5] = registers'[1] /\ registers'[4] = registers[0]
    BY <1>3, <2>2 DEF Only, Copied
  <2> QED BY <1>3, <2>3, <2>4, <2>5 DEF RotatedHolds, M
<1>4. CASE IsaPc = 7
  <2>1. rom[IsaPc] = ShiftBy(FALSE, "high", 0)
    BY <1>4, BodyCode
  <2>2. /\ Goes /\ Only(0)
        /\ registers'[0] + M * C' = 2 * registers[0] + Sign(registers[0])
    BY <2>1, LeftShiftStep, InBits
  <2>3. IsaPc' = 8
    BY <1>1, <1>4, <2>2, GoesOn
  <2>4. /\ registers[5] = registers[1]
        /\ 2 * registers[0] = registers[4] + (M - 1) * (registers[4] % 2)
    BY <1>4 DEF RotatedHolds
  <2>5. registers'[0] = registers[4]
    BY <1>2, <2>2, <2>4, RotatedBack
  <2>6. registers'[5] = registers'[1] /\ registers'[4] = registers'[0]
    BY <2>2, <2>4, <2>5 DEF Only
  <2> QED BY <1>4, <2>3, <2>6 DEF RotatedHolds
<1>5. CASE IsaPc = 8
  <2>1. rom[IsaPc] = ShiftBy(FALSE, "high", 1)
    BY <1>5, BodyCode
  <2>2. /\ Goes /\ Only(1)
        /\ registers'[1] + M * C' = 2 * registers[1] + Sign(registers[1])
    BY <2>1, LeftShiftStep, InBits
  <2>3. IsaPc' = 9
    BY <1>1, <1>5, <2>2, GoesOn
  <2>4. registers[5] = registers[1] /\ registers[4] = registers[0]
    BY <1>5 DEF RotatedHolds
  <2>5. registers'[1] + (M - 1) * Sign(registers[1]) = 2 * registers[1]
    BY <1>2, <2>2, RotatedForth
  <2>6. /\ registers'[4] = registers'[0]
        /\ registers'[1] + (M - 1) * Sign(registers'[5]) = 2 * registers'[5]
    BY <2>2, <2>4, <2>5 DEF Only
  <2> QED BY <1>5, <2>3, <2>6 DEF RotatedHolds, Sign, M
<1>6. CASE IsaPc = 9
  <2>1. rom[IsaPc] = ShiftBy(TRUE, "low", 1)
    BY <1>6, BodyCode
  <2>2. /\ Goes /\ Only(1)
        /\ 2 * registers'[1] + C' = registers[1] + M * (registers[1] % 2)
    BY <2>1, RightShiftStep, InBits
  <2>3. IsaPc' = 10
    BY <1>1, <1>6, <2>2, GoesOn
  <2>4. /\ registers[4] = registers[0]
        /\ registers[1] + (M - 1) * Sign(registers[5]) = 2 * registers[5]
    BY <1>6 DEF RotatedHolds
  <2>5. registers'[1] = registers[5]
    BY <1>2, <2>2, <2>4, RotatedForth
  <2>6. registers'[5] = registers'[1] /\ registers'[4] = registers'[0]
    BY <2>2, <2>4, <2>5 DEF Only
  <2> QED BY <1>6, <2>3, <2>6 DEF RotatedHolds
<1> QED BY <1>3, <1>4, <1>5, <1>6
-----------------------------------------------------------------------------
(* The multiplication.                                                     *)

\* What s1 and s3 hold is not of these statements.
LEMMA StepKept ==
    ASSUME NEW regs, NEW next, NEW k, NEW bit, NEW added, NEW high,
           \A r \in {0, 2, 4, 5} : next[r] = regs[r]
    PROVE  /\ Multiplying(regs, k, high) => Multiplying(next, k, high)
           /\ Step(regs, k, bit, added, high) => Step(next, k, bit, added, high)
<1>1. next[0] = regs[0] /\ next[2] = regs[2] /\ next[4] = regs[4] /\ next[5] = regs[5]
  OBVIOUS
<1> QED BY <1>1 DEF Multiplying, Step

\* The values that the registers have.
Values(regs) == \A r \in 0 .. 6 : regs[r] \in Nat /\ regs[r] < M

\* Before the first step.
LEMMA FirstStep ==
    ASSUME NEW regs, Values(regs), regs[5] = regs[0], regs[4] = regs[0]
    PROVE  Multiplying(regs, w, 0)
<1>1. M \in Nat /\ M >= 2 /\ 2 ^ w = M
  BY PowerFacts DEF M
<1>2. regs[0] \in Nat /\ regs[0] < M /\ regs[2] \in Nat
  BY DEF Values
<1>3. 1 * M = M /\ 1 \in 0 .. M /\ 0 \in 0 .. M
  BY <1>1
<1>4. 0 * M + regs[0] = regs[0] /\ regs[0] * 1 + 0 = regs[0] /\ 0 * 1 + 0 = regs[2] * 0
  BY <1>1, <1>2
<1>5. \E p, l, r \in 0 .. M :
        /\ p * M = M /\ l < p /\ r < p
        /\ regs[5] < M
        /\ regs[4] = regs[5] * p + r
        /\ regs[0] = l * M + regs[5]
        /\ 0 * p + l = regs[2] * r
  BY <1>2, <1>3, <1>4
<1> QED BY <1>1, <1>5 DEF Multiplying

\* The next bit leaves the factor.
LEMMA BitTaken ==
    ASSUME NEW regs, NEW next, Values(regs), Values(next), NEW k, NEW bit, NEW high \in Int,
           Multiplying(regs, k, high), 2 * next[5] + bit = regs[5],
           \A r \in {0, 2, 4} : next[r] = regs[r], bit \in {0, 1}, k \in 0 .. w
    PROVE  Step(next, k, bit, 0, high)
<1>1. next[0] = regs[0] /\ next[2] = regs[2] /\ next[4] = regs[4]
  OBVIOUS
<1>2. PICK p, l, r \in 0 .. M :
        /\ p * 2 ^ k = M /\ l < p /\ r < p
        /\ regs[5] < 2 ^ k
        /\ regs[4] = regs[5] * p + r
        /\ regs[0] = l * 2 ^ k + regs[5]
        /\ high * p + l = regs[2] * r
  BY DEF Multiplying
<1>3. M \in Nat /\ next[5] \in Nat /\ 2 ^ k \in Nat
  BY PowerFacts DEF Values
<1>4. r + 0 * p = r
  BY <1>3
<1>5. l * 2 ^ k + 2 * next[5] + bit = l * 2 ^ k + regs[5]
  BY <1>3
<1>6. /\ 2 * next[5] + bit < 2 ^ k
      /\ next[4] = (2 * next[5] + bit) * p + r
      /\ next[0] = l * 2 ^ k + 2 * next[5] + bit
      /\ high * p + l = next[2] * (r + 0 * p)
  BY <1>1, <1>2, <1>4, <1>5
<1> QED BY <1>2, <1>6 DEF Step

\* The second factor is added where that bit is 1.
LEMMA FactorAdded ==
    ASSUME NEW regs, NEW next, Values(regs), NEW k, NEW high \in Int,
           \A r \in {0, 2, 4, 5} : next[r] = regs[r],
           Step(regs, k, 1, 0, high)
    PROVE  Step(next, k, 1, 1, high + regs[2])
<1>1. next[0] = regs[0] /\ next[2] = regs[2] /\ next[4] = regs[4] /\ next[5] = regs[5]
  OBVIOUS
<1>2. PICK p, l, r \in 0 .. M :
        /\ p * 2 ^ k = M /\ l < p /\ r < p
        /\ 2 * regs[5] + 1 < 2 ^ k
        /\ regs[4] = (2 * regs[5] + 1) * p + r
        /\ regs[0] = l * 2 ^ k + 2 * regs[5] + 1
        /\ high * p + l = regs[2] * (r + 0 * p)
  BY DEF Step
<1>3. M \in Nat /\ regs[2] \in Nat /\ p \in Int /\ l \in Int /\ r \in Int
  BY PowerFacts DEF Values
<1>4. (high + regs[2]) * p + l = high * p + l + regs[2] * p
  BY <1>3
<1>5. regs[2] * (r + 1 * p) = regs[2] * (r + 0 * p) + regs[2] * p
  BY <1>3
<1>6. (high + regs[2]) * p + l = next[2] * (r + 1 * p)
  BY <1>1, <1>2, <1>4, <1>5
<1> QED BY <1>1, <1>2, <1>6 DEF Step

\* Result and carry are shifted: the lowest bit of s1 is one more bit of the product,
\* and the bit of the factor falls out of s0.
LEMMA ProductShifted ==
    ASSUME NEW regs, NEW next, Values(regs), Values(next), NEW k \in 1 .. w,
           NEW bit \in {0, 1}, NEW c \in {0, 1}, NEW e \in {0, 1},
           \A r \in {2, 4, 5} : next[r] = regs[r],
           NEW high \in Nat,
           Step(regs, k, bit, bit, 2 * high + c),
           2 * next[0] + e = regs[0] + M * c
    PROVE  Multiplying(next, k - 1, high)
<1>1. next[2] = regs[2] /\ next[4] = regs[4] /\ next[5] = regs[5]
  OBVIOUS
<1> DEFINE half == 2 ^ (k - 1)
<1>2. M \in Nat /\ half \in Nat /\ half >= 1 /\ 2 ^ k = 2 * half
  <2>1. w \in Nat /\ k - 1 \in 0 .. w
    BY PowersAssumption
  <2> QED BY <2>1, PowerFacts
<1>3. PICK p, l, r \in 0 .. M :
        /\ p * 2 ^ k = M /\ l < p /\ r < p
        /\ 2 * regs[5] + bit < 2 ^ k
        /\ regs[4] = (2 * regs[5] + bit) * p + r
        /\ regs[0] = l * 2 ^ k + 2 * regs[5] + bit
        /\ (2 * high + c) * p + l = regs[2] * (r + bit * p)
  BY DEF Step
<1> HIDE DEF half
<1>4. p \in Nat /\ l \in Nat /\ r \in Nat
  BY <1>2
<1>5. regs[0] \in Nat /\ regs[2] \in Nat /\ regs[4] \in Nat /\ regs[5] \in Nat
      /\ next[0] \in Nat
  BY DEF Values
<1> DEFINE p2 == 2 * p
           cp == c * p
           bp == bit * p
           l2 == l + cp
           r2 == r + bp
<1>6. cp \in Nat /\ cp <= p /\ bp \in Nat /\ bp <= p
  BY <1>4
<1>7. l2 \in Nat /\ l2 < p2 /\ r2 \in Nat /\ r2 < p2 /\ p2 \in Nat
  BY <1>3, <1>4, <1>6
<1>8. p2 * half = M
  BY <1>2, <1>3, <1>4
<1>9. p2 <= M
  <2>1. p2 * half = p2 + p2 * (half - 1) /\ p2 * (half - 1) \in Nat
    BY <1>2, <1>7
  <2> QED BY <1>7, <1>8, <2>1
<1>10. next[5] < half
  BY <1>1, <1>2, <1>3, <1>5
<1>11. next[4] = next[5] * p2 + r2
  <2>1. (2 * regs[5] + bit) * p = regs[5] * (2 * p) + bit * p
    BY <1>4, <1>5
  <2>2. regs[4] = regs[5] * (2 * p) + bit * p + r
    BY <1>3, <2>1
  <2>3. regs[5] * p2 \in Nat
    BY <1>5, <1>7
  <2> QED BY <1>1, <1>4, <1>6, <2>2, <2>3
<1>12. next[0] = l2 * half + next[5]
  <2> DEFINE lh == l * half
             ch == cp * half
  <2>1. M * c = 2 * ch /\ ch \in Nat
    BY <1>2, <1>4, <1>6, <1>8
  <2>2. l * 2 ^ k = 2 * lh /\ lh \in Nat
    BY <1>2, <1>4
  <2>3. l2 * half = lh + ch
    BY <1>2, <1>4, <1>6
  <2> DEFINE lk == l * 2 ^ k
             mc == M * c
             sum == l2 * half
  <2>4. 2 * next[0] + e = lk + 2 * regs[5] + bit + mc
    BY <1>3
  <2>5. mc = 2 * ch /\ lk = 2 * lh /\ sum = lh + ch
    BY <2>1, <2>2, <2>3
  <2> HIDE DEF lh, ch, lk, mc, sum
  <2>6. 2 * next[0] + e = 2 * (sum + regs[5]) + bit /\ sum \in Nat
    BY <1>5, <2>1, <2>2, <2>4, <2>5
  <2>7. next[0] = sum + regs[5]
    BY <1>5, <2>6
  <2> QED BY <1>1, <2>7 DEF sum
<1>13. high * p2 + l2 = next[2] * r2
  <2>1. (2 * high + c) * p + l = high * (2 * p) + (l + c * p)
    BY <1>4
  <2> QED BY <1>1, <1>3, <2>1
<1>14. p2 \in 0 .. M /\ l2 \in 0 .. M /\ r2 \in 0 .. M
  BY <1>2, <1>7, <1>9
<1> HIDE DEF p2, l2, r2
<1>15. \E x, y, z \in 0 .. M :
        /\ x * half = M /\ y < x /\ z < x
        /\ next[5] < half
        /\ next[4] = next[5] * x + z
        /\ next[0] = y * half + next[5]
        /\ high * x + y = next[2] * z
  BY <1>7, <1>8, <1>10, <1>11, <1>12, <1>13, <1>14
<1> QED BY <1>15 DEF half, Multiplying

\* Behind the last step.
LEMMA LastStep ==
    ASSUME NEW regs, Values(regs), NEW high \in Int, Multiplying(regs, 0, high)
    PROVE  M * high + regs[0] = regs[4] * regs[2]
<1>1. 2 ^ 0 = 1 /\ M \in Nat
  BY PowerFacts
<1>2. PICK p, l, r \in 0 .. M :
        /\ p * 1 = M /\ l < p /\ r < p
        /\ regs[5] < 1
        /\ regs[4] = regs[5] * p + r
        /\ regs[0] = l * 1 + regs[5]
        /\ high * p + l = regs[2] * r
  BY <1>1 DEF Multiplying
<1>3. regs[5] = 0 /\ p = M
  BY <1>1, <1>2 DEF Values
<1>4. regs[4] = r /\ regs[0] = l
  BY <1>1, <1>2, <1>3
<1>5. high * M + regs[0] = regs[2] * regs[4]
  BY <1>2, <1>3, <1>4
<1>6. regs[0] \in Int /\ regs[2] \in Int /\ regs[4] \in Int
  BY DEF Values
<1>7. high * M = M * high /\ regs[2] * regs[4] = regs[4] * regs[2]
  BY <1>1, <1>6
<1> QED BY <1>5, <1>7

LEMMA RegisterValues ==
    ASSUME TypeOK, TypeOK'
    PROVE  Values(registers) /\ Values(registers')
BY Integers DEF Values

\* The registers are loaded.
LEMMA ProductLoads ==
    ASSUME TypeOK, TypeOK', Machine!Next, Copied, ProductHolds, IsaRepeat => IsaPc = 0,
           rom = ProgramOf["product"], IsaPc \in 6 .. 8
    PROVE  IsaPc' = IsaPc + 1 /\ ProductHolds'
<1>1. "product" \in Names /\ IsaPc \in 0 .. Halt("product") /\ IsaPc > 0
  BY Lengths DEF Names
<1>2. registers \in [Register -> Words] /\ 0 .. 6 \subseteq Register
  BY IsaTypes DEF IsaShape
<1>3. CASE IsaPc = 6
  <2>1. rom[IsaPc] = TwoRegisters("Load", 5, 0)
    BY <1>3, ProductCode
  <2>2. Goes /\ registers' = [registers EXCEPT ![5] = registers[0]]
    BY <2>1, LoadStep
  <2>3. IsaPc' = 7
    BY <1>1, <1>3, <2>2, GoesOn
  <2>4. registers'[5] = registers'[0] /\ registers'[4] = registers'[0]
    BY <1>2, <1>3, <2>2 DEF Copied
  <2> QED BY <1>3, <2>3, <2>4 DEF ProductHolds
<1>4. CASE IsaPc = 7
  <2>1. rom[IsaPc] = Immediate("Load", 3, w)
    BY <1>4, ProductCode
  <2>2. Goes /\ registers' = [registers EXCEPT ![3] = w]
    BY <2>1, LoadStep
  <2>3. IsaPc' = 8
    BY <1>1, <1>4, <2>2, GoesOn
  <2>4. /\ registers'[5] = registers'[0] /\ registers'[4] = registers'[0]
        /\ registers'[3] = w
    BY <1>2, <1>4, <2>2 DEF ProductHolds
  <2> QED BY <1>4, <2>3, <2>4 DEF ProductHolds
<1>5. CASE IsaPc = 8
  <2>1. rom[IsaPc] = Immediate("Load", 1, 0)
    BY <1>5, ProductCode
  <2>2. Goes /\ registers' = [registers EXCEPT ![1] = 0]
    BY <2>1, LoadStep
  <2>3. IsaPc' = 9
    BY <1>1, <1>5, <2>2, GoesOn
  <2>4. /\ registers'[5] = registers'[0] /\ registers'[4] = registers'[0]
        /\ registers'[3] = w /\ registers'[1] = 0
    BY <1>2, <1>5, <2>2 DEF ProductHolds
  <2>5. Multiplying(registers', registers'[3], registers'[1])
    BY <2>4, RegisterValues, FirstStep
  <2>6. registers'[3] \in 1 .. w
    BY <2>4, PowersAssumption
  <2> QED BY <1>5, <2>3, <2>5, <2>6 DEF ProductHolds
<1> QED BY <1>3, <1>4, <1>5

\* A bit of the factor is looked at, and the other factor is added or not.
LEMMA ProductAdds ==
    ASSUME TypeOK, TypeOK', Machine!Next, ProductHolds, IsaRepeat => IsaPc = 0,
           rom = ProgramOf["product"], IsaPc \in 9 .. 14
    PROVE  IsaPc' \in {10, 11, 12, 14, 15} /\ ProductHolds'
<1>1. "product" \in Names /\ IsaPc \in 0 .. Halt("product") /\ IsaPc > 0
      /\ NextAddress(IsaPc) = IsaPc + 1
  BY Lengths, InMemory DEF Names
<1>2. registers[3] \in 1 .. w /\ registers[3] \in 0 .. w /\ IsaPc # 13
  BY DEF ProductHolds
<1>3. Values(registers) /\ Values(registers')
  BY RegisterValues
<1>4. registers[1] \in Int /\ registers[1] \in Nat /\ registers[2] \in Int
      /\ C \in {0, 1} /\ C' \in {0, 1} /\ M \in Int
  <2>1. registers[1] \in Nat /\ registers[2] \in Nat
    BY <1>3 DEF Values
  <2>2. M \in Nat
    BY PowerFacts
  <2>3. C \in {0, 1} /\ C' \in {0, 1}
    BY Integers
  <2> QED BY <2>1, <2>2, <2>3
<1>5. CASE IsaPc = 9
  <2>1. rom[IsaPc] = ShiftBy(TRUE, "0", 5)
    BY <1>5, ProductCode
  <2>2. Goes /\ Only(5) /\ 2 * registers'[5] + C' = registers[5] + M * 0
    BY <2>1, RightShiftStep, InBits
  <2>3. IsaPc' = 10
    BY <1>1, <1>5, <2>2, GoesOn
  <2>4. /\ registers'[3] = registers[3] /\ registers'[1] = registers[1]
        /\ \A r \in {0, 2, 4} : registers'[r] = registers[r]
    BY <2>2 DEF Only
  <2>5. 2 * registers'[5] + C' = registers[5]
    BY <1>3, <1>4, <2>2 DEF Values
  <2>6. Multiplying(registers, registers[3], registers[1])
    BY <1>5 DEF ProductHolds
  <2>7. Step(registers', registers'[3], C', 0, registers'[1])
    BY <1>2, <1>3, <1>4, <2>4, <2>5, <2>6, BitTaken
  <2> QED BY <1>2, <1>5, <2>3, <2>4, <2>7 DEF ProductHolds
<1>6. CASE IsaPc = 10
  <2>1. rom[IsaPc] = JumpTo("NC", 14)
    BY <1>6, ProductCode
  <2>2. Step(registers, registers[3], C, 0, registers[1])
    BY <1>6 DEF ProductHolds
  <2>3. CASE IsaCarry
    <3>1. ~Holds("NC", IsaCarry, IsaZero)
      BY <2>3 DEF Holds
    <3>2. Goes /\ registers' = registers
      BY <2>1, <3>1, JumpStep
    <3>3. IsaPc' = 11
      BY <1>1, <1>6, <3>2, GoesOn
    <3>4. C = 1
      BY <2>3 DEF C, Number
    <3>5. Step(registers', registers'[3], 1, 0, registers'[1])
      BY <2>2, <3>2, <3>4
    <3> QED BY <1>2, <1>6, <3>2, <3>3, <3>5 DEF ProductHolds
  <2>4. CASE ~IsaCarry
    <3>1. Holds("NC", IsaCarry, IsaZero)
      BY <2>4 DEF Holds
    <3>2. IsaPc' = 14 /\ registers' = registers
      BY <2>1, <3>1, JumpStep
    <3>3. C = 0
      BY <2>4 DEF C, Number
    <3>4. Step(registers', registers'[3], 0, 0, registers'[1])
      BY <2>2, <3>2, <3>3
    <3> QED BY <1>2, <1>6, <3>2, <3>4 DEF ProductHolds
  <2> QED BY <2>3, <2>4
<1>7. CASE IsaPc = 11
  <2>1. rom[IsaPc] = TwoRegisters("Add", 1, 2)
    BY <1>7, ProductCode
  <2>2. Goes /\ Only(1) /\ registers'[1] + M * C' = registers[1] + registers[2]
    BY <2>1, TwoRegistersStep
  <2>3. IsaPc' = 12
    BY <1>1, <1>7, <2>2, GoesOn
  <2>4. /\ registers'[3] = registers[3]
        /\ \A r \in {0, 2, 4, 5} : registers'[r] = registers[r]
    BY <2>2 DEF Only
  <2>5. Step(registers, registers[3], 1, 0, registers[1])
    BY <1>7 DEF ProductHolds
  <2>6. Step(registers', registers[3], 1, 1, registers[1] + registers[2])
    BY <1>3, <1>4, <2>4, <2>5, FactorAdded
  <2>7. \E bit \in {0, 1} : Step(registers', registers'[3], bit, bit, registers'[1] + M * C')
    BY <2>2, <2>4, <2>6
  <2> QED BY <1>2, <1>7, <2>3, <2>4, <2>7 DEF ProductHolds, M
<1>8. CASE IsaPc = 12
  <2>1. rom[IsaPc] = JumpTo("Aw", 15) /\ rom[13] = Immediate("Load", 6, 0)
    BY <1>8, ProductCode
  <2>2. Holds("Aw", IsaCarry, IsaZero)
    BY DEF Holds
  <2>3. rom[NextAddress(IsaPc)].op = "Load"
    BY <1>1, <1>8, <2>1, ImmediateFields
  <2>4. rom[NextAddress(IsaPc)].op \notin FlagOps
    BY <2>3 DEF FlagOps, AluOps
  <2>5. IsaPc' = 15 /\ registers' = registers /\ IsaCarry' = IsaCarry
    BY <2>1, <2>2, <2>4, JumpStep
  <2>6. C' = C
    BY <2>5 DEF C
  <2>7. \E bit \in {0, 1} : Step(registers, registers[3], bit, bit, registers[1] + M * C)
    BY <1>8 DEF ProductHolds
  <2>8. \E bit \in {0, 1} : Step(registers', registers'[3], bit, bit, registers'[1] + M * C')
    BY <2>5, <2>6, <2>7
  <2> QED BY <1>2, <1>8, <2>5, <2>8 DEF ProductHolds, M
<1>9. CASE IsaPc = 14
  <2>1. rom[IsaPc] = Immediate("Add", 1, 0)
    BY <1>9, ProductCode
  <2>2. 0 \in Words
    BY PowerFacts
  <2>3. Goes /\ Only(1) /\ registers'[1] + M * C' = registers[1] + 0
    BY <2>1, <2>2, ImmediateStep
  <2>4. IsaPc' = 15
    BY <1>1, <1>9, <2>3, GoesOn
  <2>5. /\ registers'[3] = registers[3]
        /\ \A r \in {0, 2, 4, 5} : registers'[r] = registers[r]
    BY <2>3 DEF Only
  <2>6. Step(registers, registers[3], 0, 0, registers[1])
    BY <1>9 DEF ProductHolds
  <2>7. Step(registers', registers[3], 0, 0, registers[1])
    BY <2>5, <2>6, StepKept
  <2>8. registers'[1] + M * C' = registers[1]
    BY <1>4, <2>3
  <2>9. \E bit \in {0, 1} : Step(registers', registers'[3], bit, bit, registers'[1] + M * C')
    BY <2>5, <2>7, <2>8
  <2> QED BY <1>2, <1>9, <2>4, <2>5, <2>9 DEF ProductHolds, M
<1> QED BY <1>2, <1>5, <1>6, <1>7, <1>8, <1>9

\* The product is shifted and the step is counted.
LEMMA ProductShifts ==
    ASSUME TypeOK, TypeOK', Machine!Next, ProductHolds, IsaRepeat => IsaPc = 0,
           rom = ProgramOf["product"], IsaPc \in 15 .. 18
    PROVE  IsaPc' \in {9, 16, 17, 18, 19} /\ ProductHolds'
<1>1. "product" \in Names /\ IsaPc \in 0 .. Halt("product") /\ IsaPc > 0
      /\ NextAddress(IsaPc) = IsaPc + 1
  BY Lengths, InMemory DEF Names
<1>2. IsaPc # 18 => registers[3] \in 1 .. w
  BY DEF ProductHolds
<1>3. Values(registers) /\ Values(registers')
  BY RegisterValues
<1>4. registers[1] \in Int /\ registers[1] \in Nat
      /\ C \in {0, 1} /\ C' \in {0, 1} /\ M \in Nat
  <2>1. registers[1] \in Nat
    BY <1>3 DEF Values
  <2>2. M \in Nat
    BY PowerFacts
  <2>3. C \in {0, 1} /\ C' \in {0, 1}
    BY Integers
  <2> QED BY <2>1, <2>2, <2>3
<1>5. CASE IsaPc = 15
  <2>1. rom[IsaPc] = ShiftBy(TRUE, "cIn", 1)
    BY <1>5, ProductCode
  <2>2. Goes /\ Only(1) /\ 2 * registers'[1] + C' = registers[1] + M * C
    BY <2>1, RightShiftStep, InBits
  <2>3. IsaPc' = 16
    BY <1>1, <1>5, <2>2, GoesOn
  <2>4. /\ registers'[3] = registers[3]
        /\ \A r \in {0, 2, 4, 5} : registers'[r] = registers[r]
    BY <2>2 DEF Only
  <2>5. PICK bit \in {0, 1} : Step(registers, registers[3], bit, bit, registers[1] + M * C)
    BY <1>5 DEF ProductHolds
  <2>6. Step(registers', registers[3], bit, bit, registers[1] + M * C)
    BY <2>4, <2>5, StepKept
  <2>7. \E b \in {0, 1} : Step(registers', registers'[3], b, b, 2 * registers'[1] + C')
    BY <2>2, <2>4, <2>6
  <2> QED BY <1>2, <1>5, <2>3, <2>4, <2>7 DEF ProductHolds
<1>6. CASE IsaPc = 16
  <2>1. rom[IsaPc] = ShiftBy(TRUE, "cIn", 0)
    BY <1>6, ProductCode
  <2>2. Goes /\ Only(0) /\ 2 * registers'[0] + C' = registers[0] + M * C
    BY <2>1, RightShiftStep, InBits
  <2>3. IsaPc' = 17
    BY <1>1, <1>6, <2>2, GoesOn
  <2>4. /\ registers'[3] = registers[3] /\ registers'[1] = registers[1]
        /\ \A r \in {2, 4, 5} : registers'[r] = registers[r]
    BY <2>2 DEF Only
  <2>5. PICK bit \in {0, 1} : Step(registers, registers[3], bit, bit, 2 * registers[1] + C)
    BY <1>6 DEF ProductHolds
  <2>6. Multiplying(registers', registers[3] - 1, registers[1])
    BY <1>2, <1>3, <1>4, <1>6, <2>2, <2>4, <2>5, ProductShifted
  <2> QED BY <1>2, <1>6, <2>3, <2>4, <2>6 DEF ProductHolds
<1>7. CASE IsaPc = 17
  <2>1. rom[IsaPc] = Immediate("Sub", 3, 1)
    BY <1>7, ProductCode
  <2>2. 1 \in Words
    BY PowerFacts
  <2>3. /\ Goes /\ Only(3) /\ registers'[3] - M * C' = registers[3] - 1
        /\ IsaZero' = (registers'[3] = 0)
    BY <2>1, <2>2, ImmediateStep
  <2>4. IsaPc' = 18
    BY <1>1, <1>7, <2>3, GoesOn
  <2>5. /\ registers'[1] = registers[1]
        /\ \A r \in {0, 2, 4, 5} : registers'[r] = registers[r]
    BY <2>3 DEF Only
  <2>6. registers'[3] = registers[3] - 1 /\ registers'[3] \in 0 .. w - 1
    <3>1. registers'[3] \in Nat /\ registers'[3] < M /\ registers[3] < M /\ w \in Nat
      BY <1>3, PowersAssumption DEF Values
    <3>2. C' = 0
      BY <1>2, <1>4, <1>7, <2>3, <3>1
    <3> QED BY <1>2, <1>4, <1>7, <2>3, <3>1, <3>2
  <2>7. Multiplying(registers, registers[3] - 1, registers[1])
    BY <1>7 DEF ProductHolds
  <2>8. Multiplying(registers', registers'[3], registers'[1])
    BY <2>5, <2>6, <2>7, StepKept
  <2> QED BY <1>7, <2>3, <2>4, <2>6, <2>8 DEF ProductHolds
<1>8. CASE IsaPc = 18
  <2>1. rom[IsaPc] = JumpTo("NZ", 9)
    BY <1>8, ProductCode
  <2>2. /\ Multiplying(registers, registers[3], registers[1])
        /\ IsaZero = (registers[3] = 0) /\ registers[3] \in 0 .. w - 1
    BY <1>8 DEF ProductHolds
  <2>3. CASE registers[3] # 0
    <3>1. Holds("NZ", IsaCarry, IsaZero)
      BY <2>2, <2>3 DEF Holds
    <3>2. IsaPc' = 9 /\ registers' = registers
      BY <2>1, <3>1, JumpStep
    <3>3. registers'[3] \in 1 .. w
      BY <2>2, <2>3, <3>2, PowersAssumption
    <3>4. Multiplying(registers', registers'[3], registers'[1])
      BY <2>2, <3>2
    <3> QED BY <1>8, <3>2, <3>3, <3>4 DEF ProductHolds
  <2>4. CASE registers[3] = 0
    <3>1. ~Holds("NZ", IsaCarry, IsaZero)
      BY <2>2, <2>4 DEF Holds
    <3>2. Goes /\ registers' = registers
      BY <2>1, <3>1, JumpStep
    <3>3. IsaPc' = 19
      BY <1>1, <1>8, <3>2, GoesOn
    <3>4. M * registers[1] + registers[0] = registers[4] * registers[2]
      BY <1>3, <1>4, <2>2, <2>4, LastStep
    <3>5. Result' = registers'[4] * registers'[2]
      BY <3>2, <3>4, NumbersNext
    <3> QED BY <1>8, <3>3, <3>5 DEF ProductHolds
  <2> QED BY <2>3, <2>4
<1> QED BY <1>5, <1>6, <1>7, <1>8
-----------------------------------------------------------------------------
(* The invariant and the theorems.                                         *)

\* Nothing is said of the result while the numbers are read.
LEMMA HoldingEarly ==
    ASSUME NEW name \in Names
    PROVE  /\ IsaPc \in 0 .. 6 => Holding(name)
           /\ IsaPc' \in 0 .. 6 => Holding(name)'
<1>1. ASSUME IsaPc \in 0 .. 6 PROVE Holding(name)
  <2>1. SumHolds /\ DifferenceHolds /\ LeftHolds /\ RightHolds /\ SignedHolds
    BY <1>1 DEF SumHolds, DifferenceHolds, LeftHolds, RightHolds, SignedHolds
  <2>2. RotatedHolds
    BY <1>1 DEF RotatedHolds
  <2>3. ProductHolds
    BY <1>1 DEF ProductHolds
  <2> QED BY <2>1, <2>2, <2>3 DEF Holding, Names
<1>2. ASSUME IsaPc' \in 0 .. 6 PROVE Holding(name)'
  <2>1. SumHolds' /\ DifferenceHolds' /\ LeftHolds' /\ RightHolds' /\ SignedHolds'
    BY <1>2 DEF SumHolds, DifferenceHolds, LeftHolds, RightHolds, SignedHolds
  <2>2. RotatedHolds'
    BY <1>2 DEF RotatedHolds
  <2>3. ProductHolds'
    BY <1>2 DEF ProductHolds
  <2> QED BY <2>1, <2>2, <2>3 DEF Holding, Names
<1> QED BY <1>1, <1>2

\* It depends on the registers, the flags and the place in the program.
LEMMA HoldingKept ==
    ASSUME IsaPc' = IsaPc, registers' = registers, IsaCarry' = IsaCarry, IsaZero' = IsaZero,
           NEW name \in Names, Holding(name)
    PROVE  Holding(name)'
<1>1. C' = C
  BY DEF C
<1>2. Result' = Result /\ First' = First /\ Second' = Second
  BY DEF Result, First, Second, Number2
<1>3. Range2' = Range2 /\ M' = M
  BY DEF Range2, M
<1>4. SumHolds => SumHolds'
  BY <1>1, <1>2, <1>3 DEF SumHolds
<1>5. DifferenceHolds => DifferenceHolds'
  BY <1>1, <1>2, <1>3 DEF DifferenceHolds
<1>6. LeftHolds => LeftHolds'
  BY <1>1, <1>2, <1>3 DEF LeftHolds
<1>7. RightHolds => RightHolds'
  BY <1>1, <1>2, <1>3 DEF RightHolds
<1>8. SignedHolds => SignedHolds'
  BY <1>1, <1>2, <1>3 DEF SignedHolds, Sign
<1>9. RotatedHolds => RotatedHolds'
  BY <1>3 DEF RotatedHolds, Sign
<1>10. ProductHolds => ProductHolds'
  BY <1>1, <1>2, <1>3 DEF ProductHolds
<1> QED BY <1>4, <1>5, <1>6, <1>7, <1>8, <1>9, <1>10 DEF Holding, Names

\* At its end a program loops in place, and so does what it leaves.
LEMMA Halted ==
    ASSUME TypeOK, TypeOK', Machine!Next, NEW name \in Names, rom = ProgramOf[name],
           IsaPc = Halt(name), Holding(name)
    PROVE  IsaPc' = Halt(name) /\ Copied' /\ Holding(name)'
<1>1. /\ rom[IsaPc] = JumpTo("Aw", Halt(name))
      /\ rom[NextAddress(IsaPc)] = JumpTo("Aw", Halt(name))
  <2>1. NextAddress(IsaPc) = Halt(name) + 1
    <3>1. Halt(name) \in 0 .. Halt(name)
      BY Lengths DEF Names
    <3> QED BY <3>1, InMemory
  <2> QED BY <2>1, ReadingCode
<1>2. Holds("Aw", IsaCarry, IsaZero)
  BY DEF Holds
<1>3. rom[NextAddress(IsaPc)].op \notin FlagOps
  <2>1. rom[NextAddress(IsaPc)].op = "Jump"
    BY <1>1, JumpFields
  <2> QED BY <2>1 DEF FlagOps, AluOps
<1>4. /\ IsaPc' = IsaPc /\ registers' = registers
      /\ IsaCarry' = IsaCarry /\ IsaZero' = IsaZero
  BY <1>1, <1>2, <1>3, JumpStep
<1>5. Halt(name) \in 8 .. 19
  BY Lengths DEF Names
<1>6. Copied'
  BY <1>4, <1>5 DEF Copied
<1>7. Holding(name)'
  BY <1>4, HoldingKept
<1> QED BY <1>4, <1>6, <1>7

\* An instruction of a program.
LEMMA ProgramStep ==
    ASSUME TypeOK, TypeOK', Machine!Next, IsaRepeat => IsaPc = 0,
           NEW name \in Names, rom = ProgramOf[name], IsaPc \in 0 .. Halt(name),
           Copied, Holding(name)
    PROVE  IsaPc' \in 0 .. Halt(name) /\ Copied' /\ Holding(name)'
<1>1. Halt(name) \in 8 .. 19
  BY Lengths DEF Names
<1>2. CASE IsaPc \in 0 .. 5
  <2>1. IsaPc' \in 0 .. 6 /\ Copied'
    BY <1>2, Reading
  <2> QED BY <1>1, <2>1, HoldingEarly
<1>3. CASE IsaPc = Halt(name)
  BY <1>1, <1>3, Halted
<1>4. CASE IsaPc \in 6 .. Halt(name) - 1
  <2>1. IsaPc' \in 7 .. Halt(name) /\ Holding(name)'
    <3>1. CASE name = "sum"
      <4>1. SumHolds /\ IsaPc \in {6, 7}
        BY <1>4, <3>1, Lengths DEF Holding
      <4>2. IsaPc' = IsaPc + 1 /\ SumHolds'
        BY <3>1, <4>1, SumStep
      <4> QED BY <3>1, <4>1, <4>2, Lengths DEF Holding
    <3>2. CASE name = "difference"
      <4>1. DifferenceHolds /\ IsaPc \in {6, 7}
        BY <1>4, <3>2, Lengths DEF Holding
      <4>2. IsaPc' = IsaPc + 1 /\ DifferenceHolds'
        BY <3>2, <4>1, DifferenceStep
      <4> QED BY <3>2, <4>1, <4>2, Lengths DEF Holding
    <3>3. CASE name = "left"
      <4>1. LeftHolds /\ IsaPc \in {6, 7}
        BY <1>4, <3>3, Lengths DEF Holding
      <4>2. IsaPc' = IsaPc + 1 /\ LeftHolds'
        BY <3>3, <4>1, LeftStep
      <4> QED BY <3>3, <4>1, <4>2, Lengths DEF Holding
    <3>4. CASE name = "right"
      <4>1. RightHolds /\ IsaPc \in {6, 7}
        BY <1>4, <3>4, Lengths DEF Holding
      <4>2. IsaPc' = IsaPc + 1 /\ RightHolds'
        BY <3>4, <4>1, RightStep
      <4> QED BY <3>4, <4>1, <4>2, Lengths DEF Holding
    <3>5. CASE name = "signed"
      <4>1. SignedHolds /\ IsaPc \in {6, 7}
        BY <1>4, <3>5, Lengths DEF Holding
      <4>2. IsaPc' = IsaPc + 1 /\ SignedHolds'
        BY <3>5, <4>1, SignedStep
      <4> QED BY <3>5, <4>1, <4>2, Lengths DEF Holding
    <3>6. CASE name = "rotated"
      <4>1. RotatedHolds /\ IsaPc \in 6 .. 9
        BY <1>4, <3>6, Lengths DEF Holding
      <4>2. IsaPc' = IsaPc + 1 /\ RotatedHolds'
        BY <3>6, <4>1, RotatedStep
      <4> QED BY <3>6, <4>1, <4>2, Lengths DEF Holding
    <3>7. CASE name = "product"
      <4>1. ProductHolds /\ IsaPc \in 6 .. 18
        BY <1>4, <3>7, Lengths DEF Holding
      <4>2. CASE IsaPc \in 6 .. 8
        <5>1. IsaPc' = IsaPc + 1 /\ ProductHolds'
          BY <3>7, <4>1, <4>2, ProductLoads
        <5> QED BY <3>7, <4>2, <5>1, Lengths DEF Holding
      <4>3. CASE IsaPc \in 9 .. 14
        <5>1. IsaPc' \in {10, 11, 12, 14, 15} /\ ProductHolds'
          BY <3>7, <4>1, <4>3, ProductAdds
        <5> QED BY <3>7, <5>1, Lengths DEF Holding
      <4>4. CASE IsaPc \in 15 .. 18
        <5>1. IsaPc' \in {9, 16, 17, 18, 19} /\ ProductHolds'
          BY <3>7, <4>1, <4>4, ProductShifts
        <5> QED BY <3>7, <5>1, Lengths DEF Holding
      <4> QED BY <4>1, <4>2, <4>3, <4>4
    <3> QED BY <3>1, <3>2, <3>3, <3>4, <3>5, <3>6, <3>7 DEF Names
  <2>2. Copied'
    BY <2>1 DEF Copied
  <2> QED BY <1>1, <2>1, <2>2
<1> QED BY <1>1, <1>2, <1>3, <1>4

LEMMA ArithmeticInvInit == Init => ArithmeticInv
<1> SUFFICES ASSUME Init PROVE ArithmeticInv
  OBVIOUS
<1>1. TypeOK /\ Pipeline
  BY TypeInit, PipelineInit
<1>2. IsaPc = 0
  BY DEF Init, IsaPc
<1>3. Copied
  BY <1>2 DEF Copied
<1>4. \A name \in Names : IsaPc \in 0 .. Halt(name) /\ Holding(name)
  <2> TAKE name \in Names
  <2>1. Halt(name) \in 8 .. 19
    BY Lengths DEF Names
  <2> QED BY <1>2, <2>1, HoldingEarly
<1> QED BY <1>1, <1>2, <1>3, <1>4, Lengths DEF ArithmeticInv

LEMMA ArithmeticInvNext == ArithmeticInv /\ [Next]_vars => ArithmeticInv'
<1> SUFFICES ASSUME ArithmeticInv, [Next]_vars PROVE ArithmeticInv'
  OBVIOUS
<1>1. TypeOK /\ Pipeline /\ TypeOK' /\ Pipeline'
  BY TypeNext, PipelineNext DEF ArithmeticInv
<1>2. CASE Machine!Next
  <2>1. rom' = rom /\ ~IsaRepeat'
    BY <1>2 DEF Machine!Next
  <2>2. \A name \in Names : rom = ProgramOf[name] =>
           IsaPc' \in 0 .. Halt(name) /\ Copied' /\ Holding(name)'
    BY <1>1, <1>2, ProgramStep, Lengths DEF ArithmeticInv
  <2> QED BY <1>1, <2>1, <2>2, Lengths DEF ArithmeticInv
<1>3. CASE UNCHANGED Machine!vars
  <2>1. /\ rom' = rom /\ IsaPc' = IsaPc /\ IsaRepeat' = IsaRepeat
        /\ registers' = registers /\ IsaCarry' = IsaCarry /\ IsaZero' = IsaZero
    BY <1>3 DEF Machine!vars
  <2>2. Copied => Copied'
    BY <2>1 DEF Copied
  <2>3. \A name \in Names : Holding(name) => Holding(name)'
    BY <2>1, HoldingKept
  <2>4. \A name \in Names : rom = ProgramOf[name] =>
           IsaPc' \in 0 .. Halt(name) /\ Copied' /\ Holding(name)'
    BY <2>1, <2>2, <2>3, Lengths DEF ArithmeticInv
  <2> QED BY <1>1, <2>1, <2>4, Lengths DEF ArithmeticInv
<1>4. [Machine!Next]_Machine!vars
  BY <1>1, IsaNext
<1> QED BY <1>2, <1>3, <1>4

\* Wherever the sequential machine stands in one of the programs, the registers and
\* the flags hold what the instructions before it compute (alu, controller lines 124
\* to 214).
THEOREM ArithmeticInvariant == Spec => []ArithmeticInv
<1>1. Init => ArithmeticInv
  BY ArithmeticInvInit
<1>2. ArithmeticInv /\ [Next]_vars => ArithmeticInv'
  BY ArithmeticInvNext
<1> QED BY <1>1, <1>2, PTL DEF Spec

\* A program that is through stands at its end, and nothing is discarded.
LEMMA AtEnd ==
    ASSUME ArithmeticInv, NEW name \in Names, Done(name)
    PROVE  IsaPc = Halt(name) /\ C = CarryBit /\ Holding(name)
<1>1. IsaPc = Halt(name) /\ IsaCarry = carrySaved
  BY DEF Done, IsaPc, IsaCarry
<1>2. C = CarryBit
  BY <1>1 DEF C, CarryBit
<1>3. Holding(name)
  BY Lengths DEF ArithmeticInv, Done
<1> QED BY <1>1, <1>2, <1>3

\* A number of two words.
LEMMA NumberRange ==
    ASSUME NEW high \in Nat, NEW low \in Nat, high < M, low < M
    PROVE  /\ M * high + low \in 0 .. Range2 - 1
           /\ M * high + low >= Range2 \div 2 <=> Sign(high) = 1
<1> DEFINE half == 2 ^ (w - 1)
           rest == M - 1 - high
<1>1. M \in Nat /\ M >= 2 /\ half \in Nat /\ M = 2 * half /\ Range2 = M * M
  BY PowerFacts
<1> HIDE DEF half
<1>2. rest \in Nat /\ high + rest + 1 = M
  BY <1>1
<1>3. M * (high + rest + 1) = M * high + M * rest + M
  BY <1>1, <1>2
<1>4. M * rest \in Nat /\ M * high \in Nat
  BY <1>1, <1>2
<1> DEFINE square == M * M
           mh == M * high
           mr == M * rest
<1>5. square = mh + mr + M /\ mh \in Nat /\ mr \in Nat
  BY <1>2, <1>3, <1>4
<1> HIDE DEF square, mh, mr, rest
<1>6. mh + low \in 0 .. square - 1
  BY <1>1, <1>5
<1>7. square \div 2 = M * half
  <2>1. square = 2 * (M * half) /\ M * half \in Nat
    BY <1>1 DEF square
  <2> DEFINE y == M * half
  <2>2. y \in Nat /\ square = 2 * y
    BY <2>1
  <2> HIDE DEF y
  <2>3. square \div 2 = y
    BY <2>2
  <2> QED BY <2>3 DEF y
<1>8. mh + low >= M * half <=> Sign(high) = 1
  <2> DEFINE mhalf == M * half
  <2>1. mhalf \in Nat
    BY <1>1
  <2>2. CASE high >= half
    <3>1. M * (half + (high - half)) = M * half + M * (high - half)
      BY <1>1
    <3>2. M * (high - half) \in Nat /\ half + (high - half) = high
      BY <1>1, <2>2
    <3>3. mh >= mhalf
      BY <1>5, <2>1, <3>1, <3>2 DEF mh
    <3>4. Sign(high) = 1
      BY <1>1, <2>2 DEF Sign
    <3> HIDE DEF mhalf
    <3>5. mh + low >= mhalf
      BY <1>5, <2>1, <3>3
    <3> QED BY <3>4, <3>5 DEF mhalf
  <2>3. CASE high < half
    <3> DEFINE gap == half - high - 1
    <3>1. gap \in Nat /\ half = high + gap + 1
      BY <1>1, <2>3
    <3>2. M * (high + gap + 1) = M * high + M * gap + M /\ M * gap \in Nat
      BY <1>1, <3>1
    <3> DEFINE mg == M * gap
    <3>3. mhalf = mh + mg + M /\ mg \in Nat
      BY <3>1, <3>2 DEF mh
    <3>4. Sign(high) = 0
      BY <1>1, <2>3 DEF Sign
    <3> HIDE DEF mhalf, mg, gap
    <3>5. ~(mh + low >= mhalf)
      BY <1>1, <1>5, <2>1, <3>3
    <3> QED BY <3>4, <3>5 DEF mhalf
  <2> QED BY <1>1, <2>2, <2>3
<1>9. Range2 = square
  BY <1>1 DEF square
<1> QED BY <1>6, <1>7, <1>8, <1>9 DEF mh

LEMMA SumsFollow == ArithmeticInv => SumsAndDifferences
<1> SUFFICES ASSUME ArithmeticInv PROVE SumsAndDifferences
  OBVIOUS
<1>1. "sum" \in Names /\ "difference" \in Names
  BY DEF Names
<1>2. ASSUME Done("sum") PROVE Result + Range2 * CarryBit = First + Second
  <2>1. IsaPc = 8 /\ C = CarryBit /\ SumHolds
    BY <1>1, <1>2, AtEnd, Lengths DEF Holding
  <2> QED BY <2>1 DEF SumHolds
<1>3. ASSUME Done("difference")
      PROVE  Result = (First - Second) % Range2 /\ carrySaved = (First < Second)
  <2>1. IsaPc = 8 /\ C = CarryBit /\ DifferenceHolds
    BY <1>1, <1>3, AtEnd, Lengths DEF Holding
  <2>2. Result - Range2 * CarryBit = First - Second
    BY <2>1 DEF DifferenceHolds
  <2>3. TypeOK /\ carrySaved \in BOOLEAN
    BY DEF ArithmeticInv, TypeOK
  <2>4. /\ Result \in 0 .. Range2 - 1 /\ First \in 0 .. Range2 - 1
        /\ Second \in 0 .. Range2 - 1
    <3>1. \A r \in 0 .. 6 : registers[r] \in Nat /\ registers[r] < M
      BY <2>3, RegisterTypes
    <3> QED BY <3>1, NumberRange, Numbers
  <2>5. Range2 \in Nat /\ Range2 >= 1
    BY PowerFacts
  <2>6. CASE carrySaved
    <3>1. Range2 * CarryBit = Range2
      BY <2>5, <2>6 DEF CarryBit, Number
    <3>2. Result = (First - Second) + Range2
      BY <2>2, <2>4, <2>5, <3>1
    <3>3. First - Second \in Int /\ First - Second < 0 /\ First - Second >= -Range2
      BY <2>4, <2>5, <3>2
    <3>4. (First - Second) % Range2 = (First - Second) + Range2
      BY <2>5, <3>3, Remainders
    <3>5. Result = (First - Second) % Range2
      BY <3>2, <3>4
    <3>6. First < Second
      BY <2>4, <2>5, <3>3
    <3> QED BY <2>3, <2>6, <3>5, <3>6
  <2>7. CASE ~carrySaved
    <3>1. Range2 * CarryBit = 0
      BY <2>5, <2>7 DEF CarryBit, Number
    <3>2. Result = First - Second
      BY <2>2, <2>4, <2>5, <3>1
    <3>3. First - Second \in Int /\ First - Second \in 0 .. Range2 - 1
      BY <2>4, <2>5, <3>2
    <3>4. (First - Second) % Range2 = First - Second
      BY <2>5, <3>3, Remainders
    <3> QED BY <2>3, <2>4, <2>5, <2>7, <3>2, <3>3, <3>4
  <2> QED BY <2>6, <2>7
<1> QED BY <1>2, <1>3 DEF SumsAndDifferences

LEMMA ShiftsFollow == ArithmeticInv => ShiftedNumbers
<1> SUFFICES ASSUME ArithmeticInv PROVE ShiftedNumbers
  OBVIOUS
<1>1. "left" \in Names /\ "right" \in Names /\ "signed" \in Names /\ "rotated" \in Names
  BY DEF Names
<1>2. ASSUME Done("left") PROVE Result + Range2 * CarryBit = 2 * First
  <2>1. IsaPc = 8 /\ C = CarryBit /\ LeftHolds
    BY <1>1, <1>2, AtEnd, Lengths DEF Holding
  <2> QED BY <2>1 DEF LeftHolds
<1>3. ASSUME Done("right") PROVE 2 * Result + CarryBit = First
  <2>1. IsaPc = 8 /\ C = CarryBit /\ RightHolds
    BY <1>1, <1>3, AtEnd, Lengths DEF Holding
  <2> QED BY <2>1 DEF RightHolds
<1>4. ASSUME Done("signed")
      PROVE  2 * Result + CarryBit = First + IF First >= Range2 \div 2 THEN Range2 ELSE 0
  <2>1. IsaPc = 8 /\ C = CarryBit /\ SignedHolds
    BY <1>1, <1>4, AtEnd, Lengths DEF Holding
  <2>2. 2 * Result + CarryBit = First + Range2 * Sign(registers[5])
    BY <2>1 DEF SignedHolds
  <2>3. TypeOK
    BY DEF ArithmeticInv
  <2>4. /\ registers[5] \in Nat /\ registers[5] < M
        /\ registers[4] \in Nat /\ registers[4] < M
    BY <2>3, RegisterTypes
  <2>5. First >= Range2 \div 2 <=> Sign(registers[5]) = 1
    BY <2>4, NumberRange, Numbers
  <2>6. Range2 \in Nat
    BY PowerFacts
  <2>7. Range2 * Sign(registers[5]) = IF First >= Range2 \div 2 THEN Range2 ELSE 0
    <3>1. Sign(registers[5]) \in {0, 1}
      BY DEF Sign
    <3>2. CASE Sign(registers[5]) = 1
      BY <2>5, <2>6, <3>2
    <3>3. CASE Sign(registers[5]) = 0
      BY <2>5, <2>6, <3>3
    <3> QED BY <3>1, <3>2, <3>3
  <2> QED BY <2>2, <2>7
<1>5. ASSUME Done("rotated") PROVE Result = First
  <2>1. IsaPc = 10 /\ RotatedHolds
    BY <1>1, <1>5, AtEnd, Lengths DEF Holding
  <2> QED BY <2>1, Numbers DEF RotatedHolds
<1> QED BY <1>2, <1>3, <1>4, <1>5 DEF ShiftedNumbers

LEMMA ProductsFollow == ArithmeticInv => Products
<1> SUFFICES ASSUME ArithmeticInv, Done("product") PROVE Result = registers[4] * registers[2]
  BY DEF Products
<1>1. "product" \in Names
  BY DEF Names
<1>2. IsaPc = 19 /\ ProductHolds
  BY <1>1, AtEnd, Lengths DEF Holding
<1> QED BY <1>2 DEF ProductHolds

\* Sums and differences of two words are those of the numbers, with their carry and
\* their borrow, for words of every width (alu lines 25 to 29 and 79 to 98,
\* controller lines 143 to 156).
THEOREM SumsOfWords == Spec => []SumsAndDifferences
BY ArithmeticInvariant, SumsFollow, PTL

\* Shifts of two words through the carry halve and double the number, and rotations
\* of a word lose no bit (alu lines 31 to 40 and 99 to 104).
THEOREM ShiftsOfWords == Spec => []ShiftedNumbers
BY ArithmeticInvariant, ShiftsFollow, PTL

\* The multiplication by additions and shifts multiplies: the flags last over the
\* branches, the loads and the loop (controller lines 124 to 214 with the ALU).
THEOREM ProductsOfWords == Spec => []Products
BY ArithmeticInvariant, ProductsFollow, PTL
=============================================================================
