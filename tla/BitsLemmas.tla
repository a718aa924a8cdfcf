----------------------------- MODULE BitsLemmas -----------------------------
(***************************************************************************)
(* What the circuits' range checks and comparisons admit, for every modulus, *)
(* every width and all operands: exactly the bits of the number, and exactly *)
(* the order of the integers.                                               *)
(***************************************************************************)
EXTENDS Bits, MerkleLemmas

----------------------------------------------------------------------------
(* The recursive functions of the gadgets.                                  *)

\* A recursion over the numbers from 1, of which step[i] is one turn.
Turns(h, v, step, n) == h[0] = v /\ \A i \in 1 .. n : h[i] = step[i][h[i - 1]]

LEMMA TurnsTo ==
  ASSUME NEW V, NEW v \in V, NEW step \in [Nat -> [V -> V]]
  PROVE  \A n \in Nat : \E h \in [0 .. n -> V] : Turns(h, v, step, n)
<1> DEFINE S == {n \in Nat : \E h \in [0 .. n -> V] : Turns(h, v, step, n)}
<1>1. 0 \in S
  <2> DEFINE h == [i \in 0 .. 0 |-> v]
  <2>1. h \in [0 .. 0 -> V] /\ Turns(h, v, step, 0)
    BY DEF Turns
  <2> HIDE DEF h
  <2> QED BY <2>1
<1>2. ASSUME NEW n \in Nat, n \in S
      PROVE  n + 1 \in S
  <2>1. PICK h \in [0 .. n -> V] : Turns(h, v, step, n)
    BY <1>2
  <2> DEFINE g == [i \in 0 .. n + 1 |-> IF i = n + 1 THEN step[n + 1][h[n]] ELSE h[i]]
  <2>2. g \in [0 .. n + 1 -> V]
    <3>1. step[n + 1][h[n]] \in V
      OBVIOUS
    <3> QED BY <3>1
  <2>3. Turns(g, v, step, n + 1)
    <3>1. g[0] = v
      BY <2>1 DEF Turns
    <3>2. ASSUME NEW i \in 1 .. n + 1
          PROVE  g[i] = step[i][g[i - 1]]
      <4>1. CASE i = n + 1
        BY <4>1
      <4>2. CASE i # n + 1
        BY <4>2, <2>1 DEF Turns
      <4> QED BY <4>1, <4>2
    <3> HIDE DEF g
    <3> QED BY <3>1, <3>2 DEF Turns
  <2> HIDE DEF g
  <2> QED BY <2>2, <2>3
<1>3. Nat \subseteq S
  <2> HIDE DEF S
  <2> QED BY <1>1, <1>2, NatInduct
<1> QED BY <1>3

TurnsAlways(f, v, step) == f[0] = v /\ \A n \in Nat : f[n + 1] = step[n + 1][f[n]]

LEMMA TurnsForever ==
  ASSUME NEW V, NEW v \in V, NEW step \in [Nat -> [V -> V]]
  PROVE  \E f \in [Nat -> V] : TurnsAlways(f, v, step)
<1> DEFINE G(n) == CHOOSE h \in [0 .. n -> V] : Turns(h, v, step, n)
           f == [n \in Nat |-> G(n)[n]]
<1>1. \A n \in Nat : G(n) \in [0 .. n -> V] /\ Turns(G(n), v, step, n)
  BY TurnsTo
<1> HIDE DEF G
<1>2. ASSUME NEW n \in Nat
      PROVE  G(n + 1)[n] = G(n)[n]
  <2> DEFINE S == {i \in Nat : i <= n => G(n + 1)[i] = G(n)[i]}
  <2>1. 0 \in S
    BY <1>1 DEF Turns
  <2>2. ASSUME NEW i \in Nat, i \in S
        PROVE  i + 1 \in S
    <3> SUFFICES ASSUME i + 1 <= n PROVE G(n + 1)[i + 1] = G(n)[i + 1]
      OBVIOUS
    <3>1. i + 1 \in 1 .. n /\ i + 1 \in 1 .. n + 1 /\ (i + 1) - 1 = i
      OBVIOUS
    <3>2. G(n + 1)[i + 1] = step[i + 1][G(n + 1)[i]] /\ G(n)[i + 1] = step[i + 1][G(n)[i]]
      BY <1>1, <3>1 DEF Turns
    <3> QED BY <2>2, <3>2
  <2>3. Nat \subseteq S
    <3> HIDE DEF S
    <3> QED BY <2>1, <2>2, NatInduct
  <2> QED BY <2>3
<1>3. f \in [Nat -> V]
  BY <1>1
<1>4. f[0] = v
  BY <1>1 DEF Turns
<1>5. ASSUME NEW n \in Nat
      PROVE  f[n + 1] = step[n + 1][f[n]]
  <2>1. G(n + 1)[n + 1] = step[n + 1][G(n + 1)[n]]
    BY <1>1 DEF Turns
  <2> QED BY <1>2, <2>1
<1> HIDE DEF f
<1> QED BY <1>3, <1>4, <1>5 DEF TurnsAlways

\* Doubling (Num2Bits' e2).
LEMMA Pow2Def ==
  /\ pow2[0] = 1
  /\ \A n \in Nat : pow2[n + 1] = 2 * pow2[n]
  /\ \A n \in Nat : pow2[n] \in Nat /\ pow2[n] >= 1
<1> DEFINE step == [i \in Nat |-> [p \in Nat |-> 2 * p]]
           IsPow(p) == p = [n \in Nat |-> IF n = 0 THEN 1 ELSE 2 * p[n - 1]]
<1>1. step \in [Nat -> [Nat -> Nat]]
  OBVIOUS
<1>2. PICK f \in [Nat -> Nat] : TurnsAlways(f, 1, step)
  <2> HIDE DEF step
  <2> QED BY <1>1, TurnsForever
<1>3. IsPow(f)
  <2>1. ASSUME NEW n \in Nat, n # 0
        PROVE  f[n] = 2 * f[n - 1]
    <3>1. n - 1 \in Nat /\ (n - 1) + 1 = n
      BY <2>1
    <3>2. f[(n - 1) + 1] = step[(n - 1) + 1][f[n - 1]]
      BY <1>2, <3>1 DEF TurnsAlways
    <3> QED BY <3>1, <3>2
  <2>2. f = [n \in Nat |-> f[n]]
    OBVIOUS
  <2> QED BY <1>2, <2>1, <2>2 DEF TurnsAlways
<1>4. pow2 = CHOOSE p : IsPow(p)
  BY DEF pow2
<1>5. IsPow(pow2)
  <2> HIDE DEF IsPow
  <2> QED BY <1>3, <1>4
<1>6. \A n \in Nat : pow2[n] = IF n = 0 THEN 1 ELSE 2 * pow2[n - 1]
  BY <1>5
<1>7. ASSUME NEW n \in Nat
      PROVE  pow2[n + 1] = 2 * pow2[n]
  <2>1. n + 1 \in Nat /\ n + 1 # 0 /\ (n + 1) - 1 = n
    OBVIOUS
  <2> QED BY <1>6, <2>1
<1> DEFINE S == {n \in Nat : pow2[n] \in Nat /\ pow2[n] >= 1}
<1>8. 0 \in S
  BY <1>6
<1>9. ASSUME NEW n \in Nat, n \in S
      PROVE  n + 1 \in S
  BY <1>7, <1>9
<1>10. Nat \subseteq S
  <2> HIDE DEF S
  <2> QED BY <1>8, <1>9, NatInduct
<1> QED BY <1>6, <1>7, <1>10

LEMMA Pow2Type == \A n \in Nat : pow2[n] \in Nat /\ pow2[n] >= 1
BY Pow2Def

LEMMA Pow2Zero == pow2[0] = 1
BY Pow2Def

\* Shifting right by one place halves.
LEMMA ShiftedDef ==
  ASSUME NEW x \in Nat
  PROVE  /\ Shifted(x)[0] = x
         /\ \A i \in Nat : Shifted(x)[i + 1] = Shifted(x)[i] \div 2
         /\ \A i \in Nat : Shifted(x)[i] \in Nat
<1> DEFINE step == [i \in Nat |-> [s \in Nat |-> s \div 2]]
           Is(s) == s = [i \in Nat |-> IF i = 0 THEN x ELSE s[i - 1] \div 2]
           sh == Shifted(x)
<1>1. step \in [Nat -> [Nat -> Nat]]
  OBVIOUS
<1>2. PICK f \in [Nat -> Nat] : TurnsAlways(f, x, step)
  <2> HIDE DEF step
  <2> QED BY <1>1, TurnsForever
<1>3. Is(f)
  <2>1. ASSUME NEW n \in Nat, n # 0
        PROVE  f[n] = f[n - 1] \div 2
    <3>1. n - 1 \in Nat /\ (n - 1) + 1 = n
      BY <2>1
    <3>2. f[(n - 1) + 1] = step[(n - 1) + 1][f[n - 1]]
      BY <1>2, <3>1 DEF TurnsAlways
    <3> QED BY <3>1, <3>2
  <2>2. f = [n \in Nat |-> f[n]]
    OBVIOUS
  <2> QED BY <1>2, <2>1, <2>2 DEF TurnsAlways
<1>4. sh = CHOOSE s : Is(s)
  BY DEF Shifted
<1>5. Is(sh)
  <2> HIDE DEF Is, sh
  <2> QED BY <1>3, <1>4
<1> HIDE DEF sh
<1>6. \A i \in Nat : sh[i] = IF i = 0 THEN x ELSE sh[i - 1] \div 2
  BY <1>5
<1>7. ASSUME NEW i \in Nat
      PROVE  sh[i + 1] = sh[i] \div 2
  <2>1. i + 1 \in Nat /\ i + 1 # 0 /\ (i + 1) - 1 = i
    OBVIOUS
  <2> QED BY <1>6, <2>1
<1> DEFINE S == {i \in Nat : sh[i] \in Nat}
<1>8. 0 \in S
  BY <1>6
<1>9. ASSUME NEW i \in Nat, i \in S
      PROVE  i + 1 \in S
  BY <1>7, <1>9
<1>10. Nat \subseteq S
  <2> HIDE DEF S
  <2> QED BY <1>8, <1>9, NatInduct
<1> QED BY <1>6, <1>7, <1>10 DEF sh

LEMMA ShiftedType ==
  ASSUME NEW x \in Nat
  PROVE  \A i \in Nat : Shifted(x)[i] \in Nat
BY ShiftedDef

\* The sums on the way to the packed number.
Sums(lc, bits, n) ==
  /\ lc[0] = 0
  /\ \A i \in 1 .. n : lc[i] = lc[i - 1] + bits[i] * pow2[i - 1]

LEMMA PackedDef ==
  ASSUME NEW n \in Nat, NEW bits \in BitArrays(n)
  PROVE  \E lc \in [0 .. n -> Nat] :
            /\ Sums(lc, bits, n)
            /\ \A i \in 0 .. n : lc[i] < pow2[i]
            /\ Packed(bits, n) = lc[n]
<1> DEFINE weight == [i \in Nat |-> IF i \in 1 .. n THEN bits[i] * pow2[i - 1] ELSE 0]
           step == [i \in Nat |-> [s \in Nat |-> s + weight[i]]]
           Is(f) == f = [i \in 0 .. n |-> IF i = 0 THEN 0 ELSE f[i - 1] + bits[i] * pow2[i - 1]]
<1>1. ASSUME NEW i \in 1 .. n
      PROVE  /\ bits[i] \in {0, 1} /\ i - 1 \in Nat
             /\ bits[i] * pow2[i - 1] \in 0 .. pow2[i - 1] /\ pow2[i] = 2 * pow2[i - 1]
  <2>1. i - 1 \in Nat /\ (i - 1) + 1 = i /\ bits[i] \in {0, 1}
    BY DEF BitArrays
  <2>2. pow2[i - 1] \in Nat /\ pow2[i] = 2 * pow2[i - 1]
    BY <2>1, Pow2Def
  <2>3. CASE bits[i] = 0
    BY <2>1, <2>2, <2>3
  <2>4. CASE bits[i] = 1
    BY <2>1, <2>2, <2>4
  <2> QED BY <2>1, <2>3, <2>4
<1>2. step \in [Nat -> [Nat -> Nat]]
  <2>1. weight \in [Nat -> Nat]
    BY <1>1
  <2> HIDE DEF weight
  <2> QED BY <2>1
<1>3. PICK lc \in [0 .. n -> Nat] : Turns(lc, 0, step, n)
  <2>1. 0 \in Nat
    OBVIOUS
  <2> HIDE DEF step
  <2> QED BY <1>2, <2>1, TurnsTo
<1>4. Sums(lc, bits, n)
  <2>1. ASSUME NEW i \in 1 .. n
        PROVE  lc[i] = lc[i - 1] + bits[i] * pow2[i - 1]
    <3>1. i \in Nat /\ i - 1 \in 0 .. n /\ lc[i - 1] \in Nat
      OBVIOUS
    <3>2. lc[i] = step[i][lc[i - 1]]
      <4> HIDE DEF step
      <4> QED BY <1>3 DEF Turns
    <3> QED BY <3>1, <3>2
  <2>2. lc[0] = 0
    BY <1>3 DEF Turns
  <2> QED BY <2>1, <2>2 DEF Sums
<1> HIDE DEF step
<1>5. Is(lc)
  <2>1. lc = [i \in 0 .. n |-> lc[i]]
    OBVIOUS
  <2>2. ASSUME NEW i \in 0 .. n
        PROVE  lc[i] = IF i = 0 THEN 0 ELSE lc[i - 1] + bits[i] * pow2[i - 1]
    BY <1>4 DEF Sums
  <2> QED BY <2>1, <2>2
<1>6. ASSUME NEW f, Is(f)
      PROVE  f[n] = lc[n]
  <2> DEFINE S == {i \in Nat : i <= n => f[i] = lc[i]}
  <2>1. 0 \in S
    BY <1>4, <1>6 DEF Sums
  <2>2. ASSUME NEW i \in Nat, i \in S
        PROVE  i + 1 \in S
    <3> SUFFICES ASSUME i + 1 <= n PROVE f[i + 1] = lc[i + 1]
      OBVIOUS
    <3>1. i + 1 \in 1 .. n /\ i + 1 \in 0 .. n /\ i + 1 # 0 /\ (i + 1) - 1 = i
      OBVIOUS
    <3>2. f[i + 1] = f[i] + bits[i + 1] * pow2[i]
      BY <1>6, <3>1
    <3>3. lc[i + 1] = lc[i] + bits[i + 1] * pow2[i]
      BY <1>4, <3>1 DEF Sums
    <3> QED BY <2>2, <3>2, <3>3
  <2>3. Nat \subseteq S
    <3> HIDE DEF S
    <3> QED BY <2>1, <2>2, NatInduct
  <2> QED BY <2>3
<1>7. Packed(bits, n) = (CHOOSE f : Is(f))[n]
  BY DEF Packed
<1>8. Packed(bits, n) = lc[n]
  <2> HIDE DEF Is
  <2> QED BY <1>5, <1>6, <1>7
<1>9. \A i \in 0 .. n : lc[i] < pow2[i]
  <2> DEFINE S == {i \in Nat : i <= n => lc[i] < pow2[i]}
  <2>1. 0 \in S
    <3>1. lc[0] = 0 /\ pow2[0] = 1
      BY <1>4, Pow2Def DEF Sums
    <3> QED BY <3>1
  <2>2. ASSUME NEW i \in Nat, i \in S
        PROVE  i + 1 \in S
    <3> SUFFICES ASSUME i + 1 <= n PROVE lc[i + 1] < pow2[i + 1]
      OBVIOUS
    <3>1. i + 1 \in 1 .. n /\ (i + 1) - 1 = i /\ i \in 0 .. n
      OBVIOUS
    <3>2. lc[i + 1] = lc[i] + bits[i + 1] * pow2[i]
      BY <1>4, <3>1 DEF Sums
    <3>3. bits[i + 1] * pow2[i] \in 0 .. pow2[i] /\ pow2[i + 1] = 2 * pow2[i]
      BY <1>1, <3>1
    <3>4. lc[i] \in Nat /\ pow2[i] \in Nat /\ lc[i] < pow2[i]
      BY <2>2, <3>1, Pow2Type
    <3> QED BY <3>2, <3>3, <3>4
  <2>3. Nat \subseteq S
    <3> HIDE DEF S
    <3> QED BY <2>1, <2>2, NatInduct
  <2> QED BY <2>3
<1> QED BY <1>4, <1>8, <1>9

LEMMA PackedFits ==
  ASSUME NEW n \in Nat, NEW bits \in BitArrays(n)
  PROVE  Packed(bits, n) \in 0 .. pow2[n] - 1
<1>1. PICK lc \in [0 .. n -> Nat] : Packed(bits, n) = lc[n] /\ \A i \in 0 .. n : lc[i] < pow2[i]
  BY PackedDef
<1>2. n \in 0 .. n /\ pow2[n] \in Nat
  BY Pow2Type
<1> QED BY <1>1, <1>2

\* The top bit stands for the highest power.
LEMMA TopBit ==
  ASSUME NEW n \in Nat, NEW bits \in BitArrays(n + 1)
  PROVE  /\ bits[n + 1] \in {0, 1}
         /\ \E low \in 0 .. pow2[n] - 1 : Packed(bits, n + 1) = low + bits[n + 1] * pow2[n]
<1>0. n + 1 \in Nat /\ n + 1 \in 1 .. n + 1 /\ (n + 1) - 1 = n /\ n \in 0 .. n + 1
  OBVIOUS
<1>1. PICK lc \in [0 .. n + 1 -> Nat] :
         /\ Sums(lc, bits, n + 1)
         /\ \A i \in 0 .. n + 1 : lc[i] < pow2[i]
         /\ Packed(bits, n + 1) = lc[n + 1]
  BY <1>0, PackedDef
<1>2. lc[n + 1] = lc[n] + bits[n + 1] * pow2[n]
  BY <1>0, <1>1 DEF Sums
<1>3. lc[n] \in 0 .. pow2[n] - 1
  BY <1>0, <1>1, Pow2Type
<1>4. bits[n + 1] \in {0, 1}
  BY <1>0 DEF BitArrays
<1> QED BY <1>1, <1>2, <1>3, <1>4

\* The bits of a number.
BitsOf(x, n) == [i \in 1 .. n |-> Bit(x, i)]

LEMMA Doubled ==
  ASSUME NEW p \in Nat, NEW s \in Nat, NEW b \in {0, 1}
  PROVE  p * (2 * s + b) = (2 * p) * s + b * p
<1>1. p * (2 * s + b) = p * (2 * s) + p * b
  OBVIOUS
<1>2. p * (2 * s) = (2 * p) * s
  OBVIOUS
<1> QED BY <1>1, <1>2

LEMMA AtLeastOnce ==
  ASSUME NEW p \in Nat, NEW s \in Nat, s >= 1
  PROVE  p * s \in Nat /\ p * s >= p
<1>1. PICK t \in Nat : s = t + 1
  <2>1. s - 1 \in Nat /\ s = (s - 1) + 1
    OBVIOUS
  <2> QED BY <2>1
<1>2. p * t \in Nat /\ p * (t + 1) = p * t + p
  OBVIOUS
<1> QED BY <1>1, <1>2

LEMMA BitOf ==
  ASSUME NEW x \in Nat, NEW i \in Nat
  PROVE  Bit(x, i + 1) \in {0, 1} /\ Shifted(x)[i] = 2 * Shifted(x)[i + 1] + Bit(x, i + 1)
<1> DEFINE s == Shifted(x)[i]
<1>1. s \in Nat /\ Shifted(x)[i + 1] = s \div 2
  BY ShiftedDef, ShiftedType
<1>2. Bit(x, i + 1) = s % 2
  <2>1. (i + 1) - 1 = i
    OBVIOUS
  <2> QED BY <2>1 DEF Bit
<1> HIDE DEF s
<1>3. s % 2 \in {0, 1} /\ s = 2 * (s \div 2) + (s % 2)
  BY <1>1
<1> QED BY <1>1, <1>2, <1>3 DEF s

\* A number is what its bits pack to and what is shifted out of them.
LEMMA BitsPack ==
  ASSUME NEW x \in Nat, NEW n \in Nat, x < pow2[n]
  PROVE  BitsOf(x, n) \in BitArrays(n) /\ Packed(BitsOf(x, n), n) = x
<1> DEFINE bits == BitsOf(x, n)
<1>1. bits \in BitArrays(n)
  <2>1. ASSUME NEW i \in 1 .. n
        PROVE  Bit(x, i) \in {0, 1}
    <3>1. i - 1 \in Nat /\ (i - 1) + 1 = i
      OBVIOUS
    <3> QED BY <3>1, BitOf
  <2> QED BY <2>1 DEF BitsOf, BitArrays
<1>2. \A i \in 1 .. n : bits[i] = Bit(x, i)
  BY DEF BitsOf
<1> HIDE DEF bits
<1>3. PICK lc \in [0 .. n -> Nat] : Sums(lc, bits, n) /\ Packed(bits, n) = lc[n]
  BY <1>1, PackedDef
<1> DEFINE T == {i \in Nat : i <= n => lc[i] + pow2[i] * Shifted(x)[i] = x}
<1>4. 0 \in T
  <2>1. lc[0] = 0 /\ pow2[0] = 1 /\ Shifted(x)[0] = x
    BY <1>3, Pow2Def, ShiftedDef DEF Sums
  <2> QED BY <2>1
<1>5. ASSUME NEW i \in Nat, i \in T
      PROVE  i + 1 \in T
  <2> SUFFICES ASSUME i + 1 <= n PROVE lc[i + 1] + pow2[i + 1] * Shifted(x)[i + 1] = x
    OBVIOUS
  <2> DEFINE b == Bit(x, i + 1)
             s == Shifted(x)[i + 1]
  <2>1. i + 1 \in 1 .. n /\ (i + 1) - 1 = i /\ i \in 0 .. n /\ lc[i] \in Nat
    OBVIOUS
  <2>2. lc[i + 1] = lc[i] + b * pow2[i]
    BY <1>2, <1>3, <2>1 DEF Sums
  <2>3. b \in {0, 1} /\ s \in Nat /\ Shifted(x)[i] = 2 * s + b
    <3>1. i + 1 \in Nat
      OBVIOUS
    <3> QED BY <3>1, BitOf, ShiftedType
  <2>4. pow2[i] \in Nat /\ pow2[i + 1] = 2 * pow2[i]
    BY Pow2Def
  <2>5. lc[i] + pow2[i] * Shifted(x)[i] = x
    BY <1>5, <2>1
  <2> HIDE DEF b, s
  <2>6. pow2[i] * (2 * s + b) = pow2[i + 1] * s + b * pow2[i]
    BY <2>3, <2>4, Doubled
  <2>7. pow2[i + 1] * s \in Nat /\ b * pow2[i] \in Nat
    <3>1. b * pow2[i] \in Nat
      BY <2>3, <2>4
    <3>2. pow2[i + 1] \in Nat
      BY <2>4
    <3>3. \A p, q \in Nat : p * q \in Nat
      OBVIOUS
    <3> QED BY <2>3, <3>1, <3>2, <3>3
  <2>8. lc[i] + (pow2[i + 1] * s + b * pow2[i]) = x
    BY <2>3, <2>5, <2>6
  <2>9. lc[i] + b * pow2[i] + pow2[i + 1] * s = x
    BY <2>1, <2>7, <2>8
  <2> QED BY <2>2, <2>9 DEF s
<1>6. Nat \subseteq T
  <2> HIDE DEF T
  <2> QED BY <1>4, <1>5, NatInduct
<1>7. lc[n] \in Nat /\ lc[n] + pow2[n] * Shifted(x)[n] = x
  BY <1>6
<1>8. Shifted(x)[n] \in Nat /\ pow2[n] \in Nat
  BY ShiftedType, Pow2Type
<1>9. Shifted(x)[n] = 0
  <2> SUFFICES ASSUME Shifted(x)[n] >= 1 PROVE FALSE
    BY <1>8
  <2>1. pow2[n] * Shifted(x)[n] >= pow2[n]
    BY <1>8, AtLeastOnce
  <2> QED BY <1>7, <1>8, <2>1
<1>10. lc[n] = x
  BY <1>7, <1>8, <1>9
<1> QED BY <1>1, <1>3, <1>10 DEF bits

LEMMA ModOfField == \A x \in Field : Mod(x) = x
BY FieldAssumption DEF Field, Mod

----------------------------------------------------------------------------
(* Range checks and the comparison of narrow operands.                      *)

LEMMA ModOfNat == \A x \in Nat : x < FR_MODULUS => x \in Field
BY FieldAssumption DEF Field

\* While all arrays are below the modulus, the bits that a range check admits pack
\* to the number itself.
LEMMA NarrowBits ==
  ASSUME NEW n \in Nat, pow2[n] <= FR_MODULUS, NEW x \in Field, NEW bits \in Num2Bits(n, x)
  PROVE  bits \in BitArrays(n) /\ Packed(bits, n) = x
<1>1. bits \in BitArrays(n) /\ Mod(Packed(bits, n)) = Mod(x)
  BY DEF Num2Bits
<1>2. Packed(bits, n) \in 0 .. pow2[n] - 1
  BY <1>1, PackedFits
<1>3. Packed(bits, n) \in Field
  BY <1>2, Pow2Type, FieldAssumption DEF Field
<1> QED BY <1>1, <1>3, ModOfField

\* Num2Bits(n) has a witness exactly for the numbers of n bits, while 2^n is at most
\* the modulus: this is what the circuits' range checks on values and limits rely on.
THEOREM RangeCheckExact ==
  ASSUME NEW n \in Nat, pow2[n] <= FR_MODULUS, NEW x \in Field
  PROVE  Num2Bits(n, x) # {} <=> x < pow2[n]
<1>0. x \in Nat /\ pow2[n] \in Nat
  BY Pow2Type, FieldAssumption DEF Field
<1>1. ASSUME x < pow2[n]
      PROVE  Num2Bits(n, x) # {}
  <2>1. BitsOf(x, n) \in BitArrays(n) /\ Packed(BitsOf(x, n), n) = x
    BY <1>0, <1>1, BitsPack
  <2>2. BitsOf(x, n) \in Num2Bits(n, x)
    BY <2>1 DEF Num2Bits
  <2> QED BY <2>2
<1>2. ASSUME NEW bits \in Num2Bits(n, x)
      PROVE  x < pow2[n]
  <2>1. bits \in BitArrays(n) /\ Packed(bits, n) = x
    BY NarrowBits
  <2>2. Packed(bits, n) \in 0 .. pow2[n] - 1
    BY <2>1, PackedFits
  <2> QED BY <1>0, <2>1, <2>2
<1> QED BY <1>1, <1>2

\* LessThan(n) admits one output, and it is the order of the integers, for operands
\* of n bits and a modulus of at least 2^(n+1) (the right one may be 2^n, which
\* LessEqThan needs).
THEOREM LessThanExact ==
  ASSUME NEW n \in Nat, pow2[n + 1] <= FR_MODULUS,
         NEW a \in 0 .. pow2[n] - 1, NEW b \in 0 .. pow2[n]
  PROVE  LessThan(n, a, b) = {IF a < b THEN 1 ELSE 0}
<1> DEFINE x == a + pow2[n] - b
<1>0. /\ n + 1 \in Nat /\ pow2[n] \in Nat /\ pow2[n + 1] \in Nat
      /\ pow2[n + 1] = 2 * pow2[n] /\ FR_MODULUS \in Nat
  <2>1. n + 1 \in Nat
    OBVIOUS
  <2>2. pow2[n] \in Nat /\ pow2[n + 1] \in Nat
    BY <2>1, Pow2Type
  <2>3. pow2[n + 1] = 2 * pow2[n]
    BY Pow2Def
  <2> QED BY <2>1, <2>2, <2>3, FieldAssumption
<1>1. x \in Nat /\ x < pow2[n + 1] /\ x \in Field
  <2>1. x \in Nat /\ x < pow2[n + 1]
    BY <1>0
  <2> QED BY <1>0, <2>1, ModOfNat
<1>2. ASSUME NEW bits \in Num2Bits(n + 1, x)
      PROVE  1 - bits[n + 1] = IF a < b THEN 1 ELSE 0
  <2>1. bits \in BitArrays(n + 1) /\ Packed(bits, n + 1) = x
    BY <1>0, <1>1, NarrowBits
  <2>2. bits[n + 1] \in {0, 1}
    BY <2>1, TopBit
  <2>3. PICK low \in 0 .. pow2[n] - 1 : Packed(bits, n + 1) = low + bits[n + 1] * pow2[n]
    BY <2>1, TopBit
  <2>4. CASE bits[n + 1] = 0
    BY <1>0, <2>1, <2>3, <2>4
  <2>5. CASE bits[n + 1] = 1
    BY <1>0, <2>1, <2>3, <2>5
  <2> QED BY <2>2, <2>4, <2>5
<1>3. Num2Bits(n + 1, x) # {}
  BY <1>0, <1>1, RangeCheckExact
<1>4. LessThan(n, a, b) = {1 - bits[n + 1] : bits \in Num2Bits(n + 1, x)}
  BY DEF LessThan
<1> HIDE DEF x
<1> QED BY <1>2, <1>3, <1>4

\* The same of LessEqThan(n), for operands of n bits.
THEOREM LessEqThanExact ==
  ASSUME NEW n \in Nat, pow2[n + 1] <= FR_MODULUS,
         NEW a \in 0 .. pow2[n] - 1, NEW b \in 0 .. pow2[n] - 1
  PROVE  LessEqThan(n, a, b) = {IF a <= b THEN 1 ELSE 0}
<1>1. b + 1 \in 0 .. pow2[n] /\ (a < b + 1 <=> a <= b)
  BY Pow2Type
<1>2. LessThan(n, a, b + 1) = {IF a < b + 1 THEN 1 ELSE 0}
  BY <1>1, LessThanExact
<1> QED BY <1>1, <1>2 DEF LessEqThan

----------------------------------------------------------------------------
(* The comparison of field elements.                                        *)

\* A recursion from n down to 0.
TurnsBack(h, v, step, n) == h[n] = v /\ \A i \in 0 .. n - 1 : h[i] = step[i][h[i + 1]]

LEMMA TurnsDown ==
  ASSUME NEW V, NEW v \in V, NEW step \in [Nat -> [V -> V]], NEW n \in Nat
  PROVE  \E h \in [0 .. n -> V] : TurnsBack(h, v, step, n)
<1> DEFINE turned == [i \in Nat |-> IF i \in 1 .. n THEN step[n - i] ELSE step[0]]
<1>1. turned \in [Nat -> [V -> V]]
  OBVIOUS
<1>2. \A i \in 1 .. n : turned[i] = step[n - i]
  OBVIOUS
<1> HIDE DEF turned
<1>3. PICK g \in [0 .. n -> V] : Turns(g, v, turned, n)
  BY <1>1, TurnsTo
<1> DEFINE h == [i \in 0 .. n |-> g[n - i]]
<1>4. h \in [0 .. n -> V]
  OBVIOUS
<1>5. h[n] = v
  BY <1>3 DEF Turns
<1>6. ASSUME NEW i \in 0 .. n - 1
      PROVE  h[i] = step[i][h[i + 1]]
  <2>1. n - i \in 1 .. n /\ n - (n - i) = i /\ (n - i) - 1 = n - (i + 1) /\ i + 1 \in 0 .. n /\ i \in 0 .. n
    OBVIOUS
  <2>2. g[n - i] = turned[n - i][g[(n - i) - 1]]
    BY <1>3, <2>1 DEF Turns
  <2>3. h[i] = g[n - i] /\ h[i + 1] = g[n - (i + 1)]
    BY <2>1
  <2> HIDE DEF h
  <2> QED BY <1>2, <2>1, <2>2, <2>3
<1> HIDE DEF h
<1> QED BY <1>4, <1>5, <1>6 DEF TurnsBack

\* Induction from the top.
LEMMA InductDown ==
  ASSUME NEW n \in Nat, NEW S, n \in S, \A i \in 0 .. n - 1 : i + 1 \in S => i \in S
  PROVE  0 .. n \subseteq S
<1> DEFINE T == {k \in Nat : k <= n => n - k \in S}
<1>1. 0 \in T
  OBVIOUS
<1>2. ASSUME NEW k \in Nat, k \in T
      PROVE  k + 1 \in T
  <2> SUFFICES ASSUME k + 1 <= n PROVE n - (k + 1) \in S
    OBVIOUS
  <2>1. n - (k + 1) \in 0 .. n - 1 /\ (n - (k + 1)) + 1 = n - k /\ n - k \in S
    BY <1>2
  <2> QED BY <2>1
<1>3. Nat \subseteq T
  <2> HIDE DEF T
  <2> QED BY <1>1, <1>2, NatInduct
<1>4. ASSUME NEW i \in 0 .. n
      PROVE  i \in S
  <2>1. n - i \in Nat /\ n - i <= n /\ n - (n - i) = i
    OBVIOUS
  <2> QED BY <1>3, <2>1
<1> QED BY <1>4

\* Where a bit array and r - 1 have the same bit.
SameBit(bits, i) == IF Bit(FR_MODULUS - 1, i) = 1 THEN bits[i] ELSE 1 - bits[i]

\* The signal of the alias check that says: all bits above are those of r - 1.
IsEq(eq, bits) ==
  /\ eq[FR_BITS] = 1
  /\ \A i \in 0 .. FR_BITS - 1 : eq[i] = eq[i + 1] * SameBit(bits, i + 1)

LEMMA AliasCheckDef ==
  ASSUME NEW bits \in BitArrays(FR_BITS)
  PROVE  \E eq \in [0 .. FR_BITS -> {0, 1}] :
            /\ IsEq(eq, bits)
            /\ AliasCheckBLS(bits) <=>
                  \A i \in 1 .. FR_BITS : Bit(FR_MODULUS - 1, i) = 1 \/ eq[i] * bits[i] = 0
<1> DEFINE same == [i \in Nat |-> IF i \in 0 .. FR_BITS - 1 THEN SameBit(bits, i + 1) ELSE 1]
           step == [i \in Nat |-> [e \in {0, 1} |-> e * same[i]]]
           Is(f) == f = [i \in 0 .. FR_BITS |->
                           IF i = FR_BITS THEN 1 ELSE f[i + 1] * SameBit(bits, i + 1)]
<1>0. FR_BITS \in Nat
  BY FieldAssumption
<1>1. ASSUME NEW i \in 0 .. FR_BITS - 1
      PROVE  SameBit(bits, i + 1) \in {0, 1}
  <2>1. i + 1 \in 1 .. FR_BITS
    BY <1>0
  <2>2. bits[i + 1] \in {0, 1}
    BY <2>1 DEF BitArrays
  <2> QED BY <2>2 DEF SameBit
<1>2. step \in [Nat -> [{0, 1} -> {0, 1}]]
  <2>1. same \in [Nat -> {0, 1}]
    BY <1>1
  <2> HIDE DEF same
  <2>2. \A e \in {0, 1}, i \in Nat : e * same[i] \in {0, 1}
    BY <2>1
  <2> QED BY <2>2
<1>3. PICK eq \in [0 .. FR_BITS -> {0, 1}] : TurnsBack(eq, 1, step, FR_BITS)
  <2>1. 1 \in {0, 1}
    OBVIOUS
  <2> HIDE DEF step
  <2> QED BY <1>0, <1>2, <2>1, TurnsDown
<1>4. IsEq(eq, bits)
  <2>1. ASSUME NEW i \in 0 .. FR_BITS - 1
        PROVE  eq[i] = eq[i + 1] * SameBit(bits, i + 1)
    <3>1. i \in Nat /\ i + 1 \in 0 .. FR_BITS /\ eq[i + 1] \in {0, 1}
      BY <1>0
    <3>2. eq[i] = step[i][eq[i + 1]]
      <4> HIDE DEF step
      <4> QED BY <1>3 DEF TurnsBack
    <3> QED BY <3>1, <3>2
  <2> HIDE DEF step
  <2> QED BY <1>3, <2>1 DEF IsEq, TurnsBack
<1> HIDE DEF step
<1>5. Is(eq)
  <2>1. eq = [i \in 0 .. FR_BITS |-> eq[i]]
    OBVIOUS
  <2>2. ASSUME NEW i \in 0 .. FR_BITS
        PROVE  eq[i] = IF i = FR_BITS THEN 1 ELSE eq[i + 1] * SameBit(bits, i + 1)
    <3>1. i # FR_BITS => i \in 0 .. FR_BITS - 1
      BY <1>0
    <3> QED BY <1>4, <3>1 DEF IsEq
  <2> QED BY <2>1, <2>2
<1>6. ASSUME NEW f, Is(f)
      PROVE  f = eq
  <2> DEFINE S == {i \in 0 .. FR_BITS : f[i] = eq[i]}
  <2>0. \A i \in 0 .. FR_BITS : f[i] = IF i = FR_BITS THEN 1 ELSE f[i + 1] * SameBit(bits, i + 1)
    BY <1>6
  <2>1. FR_BITS \in S
    BY <1>0, <1>4, <2>0 DEF IsEq
  <2>2. ASSUME NEW i \in 0 .. FR_BITS - 1, i + 1 \in S
        PROVE  i \in S
    <3>1. i \in 0 .. FR_BITS /\ i # FR_BITS
      BY <1>0
    <3>2. f[i] = f[i + 1] * SameBit(bits, i + 1)
      BY <2>0, <3>1
    <3>3. eq[i] = eq[i + 1] * SameBit(bits, i + 1)
      BY <1>4 DEF IsEq
    <3> QED BY <2>2, <3>1, <3>2, <3>3
  <2>3. 0 .. FR_BITS \subseteq S
    <3> HIDE DEF S
    <3> QED BY <1>0, <2>1, <2>2, InductDown
  <2>4. f = [i \in 0 .. FR_BITS |-> f[i]] /\ eq = [i \in 0 .. FR_BITS |-> eq[i]]
    BY <1>6
  <2>5. \A i \in 0 .. FR_BITS : f[i] = eq[i]
    BY <2>3
  <2> HIDE DEF Is, S
  <2> QED BY <2>4, <2>5
<1> DEFINE chosen == CHOOSE f : Is(f)
<1>7. chosen = eq
  <2> HIDE DEF Is
  <2> QED BY <1>5, <1>6
<1>8. AliasCheckBLS(bits) <=>
         \A i \in 1 .. FR_BITS : Bit(FR_MODULUS - 1, i) = 1 \/ chosen[i] * bits[i] = 0
  BY DEF AliasCheckBLS, SameBit
<1> HIDE DEF chosen
<1> QED BY <1>4, <1>7, <1>8

\* The state of a comparison: decided for less, for greater, or not yet.
Verdicts == [lt : {0, 1}, gt : {0, 1}]

Decided(s, a, b) ==
  LET nd == (1 - s.lt) * (1 - s.gt)
  IN  [lt |-> s.lt + nd * (1 - a) * b, gt |-> s.gt + nd * a * (1 - b)]

LEMMA DecidedCases ==
  ASSUME NEW a \in {0, 1}, NEW b \in {0, 1}, NEW s \in Verdicts, s.lt * s.gt = 0
  PROVE  Decided(s, a, b) = IF s.lt = 1 \/ s.gt = 1 THEN s
                            ELSE [lt |-> IF a < b THEN 1 ELSE 0, gt |-> IF b < a THEN 1 ELSE 0]
<1>1. s = [lt |-> s.lt, gt |-> s.gt] /\ s.lt \in {0, 1} /\ s.gt \in {0, 1}
  BY DEF Verdicts
<1>2. CASE s.lt = 1
  BY <1>1, <1>2 DEF Decided
<1>3. CASE s.lt = 0 /\ s.gt = 1
  BY <1>1, <1>3 DEF Decided
<1>4. CASE s.lt = 0 /\ s.gt = 0
  <2>1. Decided(s, a, b) = [lt |-> (1 - a) * b, gt |-> a * (1 - b)]
    BY <1>4 DEF Decided
  <2> QED BY <1>4, <2>1
<1> QED BY <1>1, <1>2, <1>3, <1>4

IsBelow(below, a, b, n) ==
  /\ below[n] = [lt |-> 0, gt |-> 0]
  /\ \A i \in 0 .. n - 1 : below[i] = Decided(below[i + 1], a[i + 1], b[i + 1])

LEMMA CompareBitsDef ==
  ASSUME NEW n \in Nat, NEW a \in BitArrays(n), NEW b \in BitArrays(n)
  PROVE  \E below \in [0 .. n -> {s \in Verdicts : s.lt * s.gt = 0}] :
            IsBelow(below, a, b, n) /\ CompareBitsLT(n, a, b) = below[0].lt
<1> DEFINE V == {s \in Verdicts : s.lt * s.gt = 0}
           none == [lt |-> 0, gt |-> 0]
           step == [i \in Nat |-> [s \in V |-> IF i \in 0 .. n - 1
                                               THEN Decided(s, a[i + 1], b[i + 1]) ELSE s]]
           Is(f) == f = [i \in 0 .. n |-> IF i = n THEN none ELSE Decided(f[i + 1], a[i + 1], b[i + 1])]
<1>0. none \in V
  BY DEF Verdicts
<1>1. ASSUME NEW i \in 0 .. n - 1, NEW s \in V
      PROVE  Decided(s, a[i + 1], b[i + 1]) \in V
  <2>1. i + 1 \in 1 .. n
    OBVIOUS
  <2>2. a[i + 1] \in {0, 1} /\ b[i + 1] \in {0, 1}
    BY <2>1 DEF BitArrays
  <2>3. Decided(s, a[i + 1], b[i + 1]) =
          IF s.lt = 1 \/ s.gt = 1 THEN s
          ELSE [lt |-> IF a[i + 1] < b[i + 1] THEN 1 ELSE 0, gt |-> IF b[i + 1] < a[i + 1] THEN 1 ELSE 0]
    BY <2>2, DecidedCases
  <2> QED BY <2>2, <2>3 DEF Verdicts
<1>2. step \in [Nat -> [V -> V]]
  <2> HIDE DEF V
  <2> QED BY <1>1
<1> HIDE DEF V
<1>3. PICK below \in [0 .. n -> V] : TurnsBack(below, none, step, n)
  <2> HIDE DEF step, none
  <2> QED BY <1>0, <1>2, TurnsDown
<1>4. IsBelow(below, a, b, n)
  <2>1. ASSUME NEW i \in 0 .. n - 1
        PROVE  below[i] = Decided(below[i + 1], a[i + 1], b[i + 1])
    <3>1. i \in Nat /\ i + 1 \in 0 .. n /\ below[i + 1] \in V
      OBVIOUS
    <3>2. below[i] = step[i][below[i + 1]]
      <4> HIDE DEF step
      <4> QED BY <1>3 DEF TurnsBack
    <3> QED BY <3>1, <3>2
  <2> HIDE DEF step
  <2> QED BY <1>3, <2>1 DEF IsBelow, TurnsBack
<1> HIDE DEF step
<1>5. Is(below)
  <2>1. below = [i \in 0 .. n |-> below[i]]
    OBVIOUS
  <2>2. ASSUME NEW i \in 0 .. n
        PROVE  below[i] = IF i = n THEN none ELSE Decided(below[i + 1], a[i + 1], b[i + 1])
    <3>1. i # n => i \in 0 .. n - 1
      OBVIOUS
    <3> QED BY <1>4, <3>1 DEF IsBelow
  <2> QED BY <2>1, <2>2
<1>6. ASSUME NEW f, Is(f)
      PROVE  f = below
  <2> DEFINE S == {i \in 0 .. n : f[i] = below[i]}
  <2>0. \A i \in 0 .. n : f[i] = IF i = n THEN none ELSE Decided(f[i + 1], a[i + 1], b[i + 1])
    <3> HIDE DEF none
    <3> QED BY <1>6
  <2>1. n \in S
    BY <1>4, <2>0 DEF IsBelow
  <2>2. ASSUME NEW i \in 0 .. n - 1, i + 1 \in S
        PROVE  i \in S
    <3>1. i \in 0 .. n /\ i # n
      OBVIOUS
    <3>2. f[i] = Decided(f[i + 1], a[i + 1], b[i + 1])
      BY <2>0, <3>1
    <3>3. below[i] = Decided(below[i + 1], a[i + 1], b[i + 1])
      BY <1>4 DEF IsBelow
    <3> QED BY <2>2, <3>1, <3>2, <3>3
  <2>3. 0 .. n \subseteq S
    <3> HIDE DEF S
    <3> QED BY <2>1, <2>2, InductDown
  <2>4. f = [i \in 0 .. n |-> f[i]] /\ below = [i \in 0 .. n |-> below[i]]
    BY <1>6
  <2>5. \A i \in 0 .. n : f[i] = below[i]
    BY <2>3
  <2> HIDE DEF Is, S
  <2> QED BY <2>4, <2>5
<1> DEFINE chosen == CHOOSE f : Is(f)
<1>7. chosen = below
  <2> HIDE DEF Is
  <2> QED BY <1>5, <1>6
<1>8. CompareBitsLT(n, a, b) = chosen[0].lt
  BY DEF CompareBitsLT, Decided
<1> HIDE DEF chosen
<1> QED BY <1>4, <1>7, <1>8 DEF V

\* What the bits from the one at i + 1 up amount to.
High(lc, n, i) == lc[n] - lc[i]

LEMMA HighDef ==
  ASSUME NEW n \in Nat, NEW bits \in BitArrays(n), NEW lc \in [0 .. n -> Nat], Sums(lc, bits, n),
         NEW i \in 0 .. n - 1
  PROVE  /\ bits[i + 1] \in {0, 1} /\ High(lc, n, i) \in Int /\ High(lc, n, i + 1) \in Int
         /\ pow2[i] \in Nat /\ pow2[i + 1] = 2 * pow2[i]
         /\ bits[i + 1] = 1 => High(lc, n, i) = High(lc, n, i + 1) + pow2[i]
         /\ bits[i + 1] = 0 => High(lc, n, i) = High(lc, n, i + 1)
<1>1. i + 1 \in 1 .. n /\ (i + 1) - 1 = i /\ i \in 0 .. n /\ i + 1 \in 0 .. n /\ n \in 0 .. n
  OBVIOUS
<1>2. lc[i + 1] = lc[i] + bits[i + 1] * pow2[i]
  BY <1>1 DEF Sums
<1>3. bits[i + 1] \in {0, 1}
  BY <1>1 DEF BitArrays
<1>4. i \in Nat /\ pow2[i] \in Nat
  BY Pow2Type
<1>5. pow2[i + 1] = 2 * pow2[i]
  BY <1>4, Pow2Def
<1>6. lc[i] \in Nat /\ lc[i + 1] \in Nat /\ lc[n] \in Nat
  BY <1>1
<1>7. High(lc, n, i) \in Int /\ High(lc, n, i + 1) \in Int
  BY <1>6 DEF High
<1>8. CASE bits[i + 1] = 1
  <2>1. lc[i + 1] = lc[i] + pow2[i]
    BY <1>2, <1>4, <1>8
  <2>2. High(lc, n, i) = High(lc, n, i + 1) + pow2[i]
    BY <1>4, <1>6, <2>1 DEF High
  <2> QED BY <1>4, <1>5, <1>7, <1>8, <2>2
<1>9. CASE bits[i + 1] = 0
  <2>1. lc[i + 1] = lc[i]
    BY <1>2, <1>4, <1>6, <1>9
  <2>2. High(lc, n, i) = High(lc, n, i + 1)
    BY <2>1 DEF High
  <2> QED BY <1>4, <1>5, <1>7, <1>9, <2>2
<1> QED BY <1>3, <1>8, <1>9

\* A lead of two places is one of one place at least, whatever the next bits are.
LEMMA StillAhead ==
  ASSUME NEW p \in Nat, NEW u \in Int, NEW v \in Int, NEW x \in Int, NEW y \in Int,
         u + 2 * p <= v, x = u \/ x = u + p, y = v \/ y = v + p
  PROVE  x + p <= y
OBVIOUS

\* The first bit from the top in which two arrays differ decides as their numbers do.
LEMMA CompareBitsExact ==
  ASSUME NEW n \in Nat, NEW a \in BitArrays(n), NEW b \in BitArrays(n)
  PROVE  CompareBitsLT(n, a, b) = IF Packed(a, n) < Packed(b, n) THEN 1 ELSE 0
<1>1. PICK below \in [0 .. n -> {s \in Verdicts : s.lt * s.gt = 0}] :
         IsBelow(below, a, b, n) /\ CompareBitsLT(n, a, b) = below[0].lt
  BY CompareBitsDef
<1>2. PICK lcA \in [0 .. n -> Nat] : Sums(lcA, a, n) /\ Packed(a, n) = lcA[n]
  BY PackedDef
<1>3. PICK lcB \in [0 .. n -> Nat] : Sums(lcB, b, n) /\ Packed(b, n) = lcB[n]
  BY PackedDef
<1> DEFINE HA(i) == High(lcA, n, i)
           HB(i) == High(lcB, n, i)
           Holds(i) == /\ below[i].lt = 1 => HA(i) + pow2[i] <= HB(i)
                       /\ below[i].gt = 1 => HB(i) + pow2[i] <= HA(i)
                       /\ below[i].lt = 0 /\ below[i].gt = 0 => HA(i) = HB(i)
           S == {i \in 0 .. n : Holds(i)}
<1>4. \A i \in 0 .. n : below[i] \in Verdicts /\ below[i].lt \in {0, 1} /\ below[i].gt \in {0, 1}
                        /\ below[i].lt * below[i].gt = 0
  BY DEF Verdicts
<1>5. n \in S
  <2>1. n \in 0 .. n
    OBVIOUS
  <2>2. below[n].lt = 0 /\ below[n].gt = 0
    BY <1>1 DEF IsBelow
  <2>3. HA(n) = 0 /\ HB(n) = 0
    BY <2>1 DEF High
  <2> QED BY <2>1, <2>2, <2>3
<1>6. ASSUME NEW i \in 0 .. n - 1, i + 1 \in S
      PROVE  i \in S
  <2>0. i \in 0 .. n /\ i + 1 \in 0 .. n
    OBVIOUS
  <2>1. Holds(i + 1)
    BY <1>6
  <2> DEFINE s == below[i + 1]
             p == pow2[i]
             x == a[i + 1]
             y == b[i + 1]
  <2>2. /\ x \in {0, 1} /\ HA(i) \in Int /\ HA(i + 1) \in Int
        /\ p \in Nat /\ pow2[i + 1] = 2 * p
        /\ x = 1 => HA(i) = HA(i + 1) + p
        /\ x = 0 => HA(i) = HA(i + 1)
    BY <1>2, HighDef
  <2>3. /\ y \in {0, 1} /\ HB(i) \in Int /\ HB(i + 1) \in Int
        /\ y = 1 => HB(i) = HB(i + 1) + p
        /\ y = 0 => HB(i) = HB(i + 1)
    BY <1>3, HighDef
  <2>4. below[i] = IF s.lt = 1 \/ s.gt = 1 THEN s
                   ELSE [lt |-> IF x < y THEN 1 ELSE 0, gt |-> IF y < x THEN 1 ELSE 0]
    <3>1. below[i] = Decided(s, x, y)
      BY <1>1 DEF IsBelow
    <3>2. s \in Verdicts /\ s.lt * s.gt = 0
      BY <1>4, <2>0
    <3> HIDE DEF s, x, y
    <3> QED BY <2>2, <2>3, <3>1, <3>2, DecidedCases
  <2>5. s.lt \in {0, 1} /\ s.gt \in {0, 1}
    BY <1>4, <2>0
  <2> HIDE DEF HA, HB
  <2>6. CASE s.lt = 1 \/ s.gt = 1
    <3>1. below[i].lt = s.lt /\ below[i].gt = s.gt
      BY <2>4, <2>6
    <3>2. s.lt = 1 => HA(i + 1) + 2 * p <= HB(i + 1)
      BY <2>1, <2>2
    <3>3. s.gt = 1 => HB(i + 1) + 2 * p <= HA(i + 1)
      BY <2>1, <2>2
    <3> HIDE DEF s, x, y, p
    <3>4. s.lt = 1 => HA(i) + p <= HB(i)
      BY <2>2, <2>3, <3>2, StillAhead
    <3>5. s.gt = 1 => HB(i) + p <= HA(i)
      BY <2>2, <2>3, <3>3, StillAhead
    <3> QED BY <2>0, <2>5, <2>6, <3>1, <3>4, <3>5 DEF p
  <2>7. CASE s.lt = 0 /\ s.gt = 0
    <3>1. below[i].lt = (IF x < y THEN 1 ELSE 0) /\ below[i].gt = (IF y < x THEN 1 ELSE 0)
      BY <2>4, <2>7
    <3>2. HA(i + 1) = HB(i + 1)
      BY <2>1, <2>7
    <3> HIDE DEF s, x, y
    <3>3. Holds(i)
      BY <2>2, <2>3, <3>1, <3>2
    <3> QED BY <2>0, <3>3
  <2> QED BY <2>5, <2>6, <2>7
<1>7. 0 .. n \subseteq S
  <2> HIDE DEF S
  <2> QED BY <1>5, <1>6, InductDown
<1>8. Holds(0) /\ 0 \in 0 .. n
  BY <1>7
<1>9. HA(0) = lcA[n] /\ HB(0) = lcB[n] /\ lcA[n] \in Nat /\ lcB[n] \in Nat /\ pow2[0] = 1
  <2>1. lcA[0] = 0 /\ lcB[0] = 0 /\ lcA[n] \in Nat /\ lcB[n] \in Nat
    BY <1>2, <1>3 DEF Sums
  <2> QED BY <2>1, Pow2Zero DEF High
<1>10. below[0].lt \in {0, 1} /\ below[0].gt \in {0, 1}
  BY <1>4, <1>8
<1> HIDE DEF HA, HB
<1>11. below[0].lt = IF lcA[n] < lcB[n] THEN 1 ELSE 0
  BY <1>8, <1>9, <1>10
<1> QED BY <1>1, <1>2, <1>3, <1>11

\* The alias check passes for the arrays of numbers below the modulus and no others:
\* a field element has one bit array only (Num2BitsBLS, AliasCheckBLS).
THEOREM AliasCheckExact ==
  ASSUME NEW bits \in BitArrays(FR_BITS)
  PROVE  AliasCheckBLS(bits) <=> Packed(bits, FR_BITS) < FR_MODULUS
<1> DEFINE n == FR_BITS
           K == FR_MODULUS - 1
           ks == BitsOf(K, n)
<1>0. n \in Nat /\ FR_MODULUS \in Nat /\ K \in Nat /\ K < pow2[n]
  <2>1. n \in Nat /\ FR_MODULUS \in Nat /\ K \in Nat /\ FR_MODULUS < pow2[n]
    BY FieldAssumption
  <2>2. pow2[n] \in Nat
    BY <2>1, Pow2Type
  <2> QED BY <2>1, <2>2
<1>1. ks \in BitArrays(n) /\ Packed(ks, n) = K
  BY <1>0, BitsPack
<1>2. \A i \in 1 .. n : ks[i] = Bit(K, i) /\ ks[i] \in {0, 1} /\ bits[i] \in {0, 1}
  <2>1. \A i \in 1 .. n : ks[i] \in {0, 1} /\ bits[i] \in {0, 1}
    BY <1>1 DEF BitArrays
  <2> QED BY <2>1 DEF BitsOf
<1> HIDE DEF ks, n, K
<1>3. PICK eq \in [0 .. n -> {0, 1}] :
         IsEq(eq, bits) /\ (AliasCheckBLS(bits) <=> \A i \in 1 .. n : Bit(K, i) = 1 \/ eq[i] * bits[i] = 0)
  BY AliasCheckDef DEF n, K
<1>4. bits \in BitArrays(n)
  BY DEF n
<1>5. PICK lc \in [0 .. n -> Nat] :
         Sums(lc, bits, n) /\ Packed(bits, n) = lc[n] /\ \A i \in 0 .. n : lc[i] < pow2[i]
  BY <1>0, <1>4, PackedDef
<1>6. PICK lk \in [0 .. n -> Nat] :
         Sums(lk, ks, n) /\ Packed(ks, n) = lk[n] /\ \A i \in 0 .. n : lk[i] < pow2[i]
  BY <1>0, <1>1, PackedDef
<1> DEFINE HB(i) == High(lc, n, i)
           HK(i) == High(lk, n, i)
<1>7. ASSUME NEW i \in 0 .. n - 1
      PROVE  /\ i + 1 \in 1 .. n /\ i \in 0 .. n /\ i + 1 \in 0 .. n
             /\ bits[i + 1] \in {0, 1} /\ ks[i + 1] \in {0, 1} /\ ks[i + 1] = Bit(K, i + 1)
             /\ HB(i) \in Int /\ HB(i + 1) \in Int /\ HK(i) \in Int /\ HK(i + 1) \in Int
             /\ pow2[i] \in Nat /\ pow2[i] >= 1 /\ pow2[i + 1] = 2 * pow2[i]
             /\ bits[i + 1] = 1 => HB(i) = HB(i + 1) + pow2[i]
             /\ bits[i + 1] = 0 => HB(i) = HB(i + 1)
             /\ ks[i + 1] = 1 => HK(i) = HK(i + 1) + pow2[i]
             /\ ks[i + 1] = 0 => HK(i) = HK(i + 1)
             /\ eq[i] = IF eq[i + 1] = 1 /\ bits[i + 1] = ks[i + 1] THEN 1 ELSE 0
             /\ eq[i + 1] \in {0, 1} /\ eq[i] \in {0, 1}
  <2>1. i + 1 \in 1 .. n /\ i \in 0 .. n /\ i + 1 \in 0 .. n /\ i \in Nat
    BY <1>0
  <2>2. ks[i + 1] = Bit(K, i + 1)
    BY <1>2, <2>1
  <2>3. eq[i] = eq[i + 1] * (IF ks[i + 1] = 1 THEN bits[i + 1] ELSE 1 - bits[i + 1])
    BY <1>3, <2>2 DEF IsEq, SameBit, n, K
  <2>4. /\ HB(i) \in Int /\ HB(i + 1) \in Int /\ bits[i + 1] \in {0, 1}
        /\ pow2[i + 1] = 2 * pow2[i]
        /\ bits[i + 1] = 1 => HB(i) = HB(i + 1) + pow2[i]
        /\ bits[i + 1] = 0 => HB(i) = HB(i + 1)
    BY <1>0, <1>4, <1>5, HighDef
  <2>5. /\ HK(i) \in Int /\ HK(i + 1) \in Int /\ ks[i + 1] \in {0, 1}
        /\ ks[i + 1] = 1 => HK(i) = HK(i + 1) + pow2[i]
        /\ ks[i + 1] = 0 => HK(i) = HK(i + 1)
    BY <1>0, <1>1, <1>6, HighDef
  <2>6. pow2[i] \in Nat /\ pow2[i] >= 1
    BY <2>1, Pow2Type
  <2>7. eq[i + 1] \in {0, 1} /\ eq[i] \in {0, 1}
    BY <2>1
  <2>8. eq[i] = IF eq[i + 1] = 1 /\ bits[i + 1] = ks[i + 1] THEN 1 ELSE 0
    <3>1. CASE eq[i + 1] = 0
      BY <2>3, <2>4, <2>5, <3>1
    <3>2. CASE eq[i + 1] = 1
      BY <2>3, <2>4, <2>5, <3>2
    <3> QED BY <2>7, <3>1, <3>2
  <2> HIDE DEF HB, HK
  <2> QED BY <2>1, <2>2, <2>4, <2>5, <2>6, <2>7, <2>8
<1>8. /\ HB(n) = 0 /\ HK(n) = 0 /\ HB(0) = lc[n] /\ HK(0) = K /\ lk[n] = K
      /\ eq[n] = 1 /\ n \in 0 .. n /\ 0 \in 0 .. n /\ lc[n] \in Nat /\ pow2[0] = 1 /\ eq[0] \in {0, 1}
  <2>1. n \in 0 .. n /\ 0 \in 0 .. n
    BY <1>0
  <2>2. lc[0] = 0 /\ lk[0] = 0 /\ lk[n] = K /\ lc[n] \in Nat /\ lk[n] \in Nat /\ eq[0] \in {0, 1}
    BY <1>1, <1>5, <1>6, <2>1 DEF Sums
  <2>3. eq[n] = 1
    BY <1>3 DEF IsEq, n
  <2> QED BY <1>0, <2>1, <2>2, <2>3, Pow2Zero DEF High
\* While eq holds, all bits so far are those of r - 1.
<1> DEFINE S == {i \in 0 .. n : eq[i] = 1 => HB(i) = HK(i)}
<1>9. 0 .. n \subseteq S
  <2>1. n \in S
    BY <1>8
  <2>2. ASSUME NEW i \in 0 .. n - 1, i + 1 \in S
        PROVE  i \in S
    <3> HIDE DEF HB, HK
    <3> SUFFICES ASSUME eq[i] = 1 PROVE HB(i) = HK(i)
      BY <1>7
    <3>1. eq[i + 1] = 1
      BY <1>7
    <3>2. HB(i + 1) = HK(i + 1)
      BY <2>2, <3>1
    <3>3. bits[i + 1] = ks[i + 1]
      BY <1>7, <3>1
    <3> QED BY <1>7, <3>2, <3>3
  <2> HIDE DEF S
  <2> QED BY <1>0, <2>1, <2>2, InductDown
<1> HIDE DEF HB, HK
<1>10. ASSUME AliasCheckBLS(bits)
       PROVE  lc[n] <= K
  <2> DEFINE T == {i \in 0 .. n : eq[i] = 0 => HB(i) + pow2[i] <= HK(i)}
  <2>1. n \in T
    BY <1>8
  <2>2. ASSUME NEW i \in 0 .. n - 1, i + 1 \in T
        PROVE  i \in T
    <3> SUFFICES ASSUME eq[i] = 0 PROVE HB(i) + pow2[i] <= HK(i)
      BY <1>7
    <3>1. CASE eq[i + 1] = 0
      <4>1. HB(i + 1) + pow2[i + 1] <= HK(i + 1)
        BY <2>2, <3>1
      <4>2. HB(i + 1) + 2 * pow2[i] <= HK(i + 1)
        BY <1>7, <4>1
      <4>3. HB(i) = HB(i + 1) \/ HB(i) = HB(i + 1) + pow2[i]
        BY <1>7
      <4>4. HK(i) = HK(i + 1) \/ HK(i) = HK(i + 1) + pow2[i]
        BY <1>7
      <4>5. /\ HB(i) \in Int /\ HB(i + 1) \in Int /\ HK(i) \in Int /\ HK(i + 1) \in Int
            /\ pow2[i] \in Nat
        BY <1>7
      <4> QED BY <4>2, <4>3, <4>4, <4>5, StillAhead
    <3>2. CASE eq[i + 1] = 1
      <4>1. HB(i + 1) = HK(i + 1)
        BY <1>7, <1>9, <3>2
      <4>2. ks[i + 1] = 1 \/ eq[i + 1] * bits[i + 1] = 0
        BY <1>3, <1>7, <1>10
      <4>3. ks[i + 1] = 1 /\ bits[i + 1] = 0
        BY <1>7, <3>2, <4>2
      <4> QED BY <1>7, <4>1, <4>3
    <3> QED BY <1>7, <3>1, <3>2
  <2>3. 0 .. n \subseteq T
    <3> HIDE DEF T
    <3> QED BY <1>0, <2>1, <2>2, InductDown
  <2>4. eq[0] = 0 => lc[n] + 1 <= K
    BY <1>8, <2>3
  <2>5. eq[0] = 1 => lc[n] = K
    BY <1>8, <1>9
  <2> QED BY <1>0, <1>8, <2>4, <2>5
<1>11. ASSUME lc[n] <= K
       PROVE  AliasCheckBLS(bits)
  <2> SUFFICES ASSUME NEW p \in 1 .. n, Bit(K, p) # 1, eq[p] * bits[p] # 0 PROVE FALSE
    BY <1>3
  <2> DEFINE i == p - 1
  <2>1. i \in 0 .. n - 1 /\ i + 1 = p
    BY <1>0
  <2> HIDE DEF i
  <2>2. ks[i + 1] = 0 /\ bits[i + 1] = 1 /\ eq[i + 1] = 1
    BY <1>7, <2>1
  <2>3. HB(i + 1) = HK(i + 1)
    BY <1>7, <1>9, <2>1, <2>2
  <2>4. HB(i) = HK(i) + pow2[i]
    BY <1>7, <2>1, <2>2, <2>3
  <2>5. lc[i] \in Nat /\ lk[i] \in Nat /\ lk[i] < pow2[i] /\ pow2[i] \in Nat
    BY <1>6, <1>7, <2>1
  <2>6. HB(i) = lc[n] - lc[i] /\ HK(i) = K - lk[i]
    BY <1>8 DEF HB, HK, High
  <2> QED BY <1>0, <1>8, <1>11, <2>4, <2>5, <2>6
<1>12. lc[n] <= K <=> lc[n] < FR_MODULUS
  BY <1>0, <1>8 DEF K
<1> QED BY <1>5, <1>10, <1>11, <1>12 DEF n

\* A field element has one canonical bit array.
LEMMA CanonicalBits ==
  ASSUME NEW x \in Field
  PROVE  /\ Num2BitsBLS(x) # {}
         /\ \A bits \in Num2BitsBLS(x) : bits \in BitArrays(FR_BITS) /\ Packed(bits, FR_BITS) = x
<1>0. x \in Nat /\ x < FR_MODULUS /\ FR_BITS \in Nat /\ x < pow2[FR_BITS]
  <2>1. x \in Nat /\ x < FR_MODULUS /\ FR_MODULUS \in Nat /\ FR_BITS \in Nat /\ FR_MODULUS < pow2[FR_BITS]
    BY FieldAssumption DEF Field
  <2>2. pow2[FR_BITS] \in Nat
    BY <2>1, Pow2Type
  <2> QED BY <2>1, <2>2
<1>1. BitsOf(x, FR_BITS) \in BitArrays(FR_BITS) /\ Packed(BitsOf(x, FR_BITS), FR_BITS) = x
  BY <1>0, BitsPack
<1>2. BitsOf(x, FR_BITS) \in Num2BitsBLS(x)
  BY <1>0, <1>1, AliasCheckExact DEF Num2BitsBLS, Num2Bits
<1>3. ASSUME NEW bits \in Num2BitsBLS(x)
      PROVE  bits \in BitArrays(FR_BITS) /\ Packed(bits, FR_BITS) = x
  <2>1. bits \in BitArrays(FR_BITS) /\ Mod(Packed(bits, FR_BITS)) = Mod(x) /\ AliasCheckBLS(bits)
    BY DEF Num2BitsBLS, Num2Bits
  <2>2. Packed(bits, FR_BITS) \in Nat /\ Packed(bits, FR_BITS) < FR_MODULUS
    <3>1. Packed(bits, FR_BITS) \in 0 .. pow2[FR_BITS] - 1
      BY <1>0, <2>1, PackedFits
    <3> QED BY <2>1, <3>1, AliasCheckExact
  <2>3. Packed(bits, FR_BITS) \in Field
    BY <2>2, ModOfNat
  <2> QED BY <2>1, <2>3, ModOfField
<1> QED BY <1>2, <1>3

\* LessThanField admits one output for any two field elements, and it is the order
\* of the integers: the ordering on which absence from an indexed Merkle tree rests.
THEOREM LessThanFieldExact ==
  \A a, b \in Field : LessThanField(a, b) = {IF a < b THEN 1 ELSE 0}
<1> SUFFICES ASSUME NEW a \in Field, NEW b \in Field
             PROVE  LessThanField(a, b) = {IF a < b THEN 1 ELSE 0}
  OBVIOUS
<1>0. FR_BITS \in Nat
  BY FieldAssumption
<1>1. ASSUME NEW x \in Num2BitsBLS(a), NEW y \in Num2BitsBLS(b)
      PROVE  CompareBitsLT(FR_BITS, x, y) = IF a < b THEN 1 ELSE 0
  <2>1. x \in BitArrays(FR_BITS) /\ Packed(x, FR_BITS) = a
    BY CanonicalBits
  <2>2. y \in BitArrays(FR_BITS) /\ Packed(y, FR_BITS) = b
    BY CanonicalBits
  <2> QED BY <1>0, <2>1, <2>2, CompareBitsExact
<1>2. Num2BitsBLS(a) # {} /\ Num2BitsBLS(b) # {}
  BY CanonicalBits
<1>3. LessThanField(a, b) = {CompareBitsLT(FR_BITS, x, y) : x \in Num2BitsBLS(a), y \in Num2BitsBLS(b)}
  BY DEF LessThanField
<1> QED BY <1>1, <1>2, <1>3
=============================================================================
