-------------------------------- MODULE Bits --------------------------------
(***************************************************************************)
(* The circuits' range checks and comparisons (circuits/lib/bits.circom).    *)
(*                                                                         *)
(* Bit arrays are little-endian.  Each operator gives the set of what the    *)
(* constraints admit: a prover may assign any bits that satisfy them.  Sums  *)
(* are in the field.                                                        *)
(***************************************************************************)
EXTENDS ScalarField

BitArrays(n) == [1 .. n -> {0, 1}]

\* x >> i.
Shifted(x) ==
  LET shifted[i \in Nat] == IF i = 0 THEN x ELSE shifted[i - 1] \div 2
  IN  shifted

Bit(x, i) == Shifted(x)[i - 1] % 2

\* lc, with e2 doubled in every turn.
Packed(bits, n) ==
  LET lc[i \in 0 .. n] == IF i = 0 THEN 0 ELSE lc[i - 1] + bits[i] * pow2[i - 1]
  IN  lc[n]

Num2Bits(n, x) == {bits \in BitArrays(n) : Mod(Packed(bits, n)) = Mod(x)}

\* For operands of n bits.
LessThan(n, a, b) == {1 - bits[n + 1] : bits \in Num2Bits(n + 1, a + pow2[n] - b)}

LessEqThan(n, a, b) == LessThan(n, a, b + 1)

\* From the top bit down: eq says that all bits above are those of r - 1; where
\* r - 1 has a 0 and eq still holds, a 1 fails.
AliasCheckBLS(bits) ==
  LET eq[i \in 0 .. FR_BITS] ==
        IF i = FR_BITS THEN 1
        ELSE eq[i + 1] * (IF Bit(FR_MODULUS - 1, i + 1) = 1 THEN bits[i + 1] ELSE 1 - bits[i + 1])
  IN  \A i \in 1 .. FR_BITS : Bit(FR_MODULUS - 1, i) = 1 \/ eq[i] * bits[i] = 0

Num2BitsBLS(x) == {bits \in Num2Bits(FR_BITS, x) : AliasCheckBLS(bits)}

\* The first difference from the top decides.
CompareBitsLT(n, a, b) ==
  LET below[i \in 0 .. n] ==
        IF i = n THEN [lt |-> 0, gt |-> 0]
        ELSE LET s == below[i + 1]
                 nd == (1 - s.lt) * (1 - s.gt)
             IN  [lt |-> s.lt + nd * (1 - a[i + 1]) * b[i + 1], gt |-> s.gt + nd * a[i + 1] * (1 - b[i + 1])]
  IN  below[0].lt

\* For all field elements.
LessThanField(a, b) == {CompareBitsLT(FR_BITS, x, y) : x \in Num2BitsBLS(a), y \in Num2BitsBLS(b)}
=============================================================================
