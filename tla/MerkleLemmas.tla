---------------------------- MODULE MerkleLemmas ----------------------------
(***************************************************************************)
(* What the SDK's trees compute, for every depth and all leaves: the nodes   *)
(* of a tree, the incremental insertion, inclusion paths, and absence from   *)
(* an indexed Merkle tree.                                                  *)
(***************************************************************************)
EXTENDS FrozenTree, SequenceTheorems, FiniteSetTheorems, FunctionTheorems, TLAPS

----------------------------------------------------------------------------
(* Induction, with a set in the place of a predicate, and the recursive      *)
(* functions of the model.                                                  *)

LEMMA NatInduct ==
  ASSUME NEW S, 0 \in S, \A n \in Nat : n \in S => n + 1 \in S
  PROVE  Nat \subseteq S
<1> SUFFICES ASSUME NEW n \in Nat, n \notin S PROVE FALSE
  OBVIOUS
<1> DEFINE Bad == {k \in 0 .. n : k \notin S}
           T == {0 .. k : k \in Bad}
<1>1. IsWellFoundedOn(StrictSubsetOrdering(0 .. n), FiniteSubsetsOf(0 .. n))
  <2>1. IsFiniteSet(0 .. n)
    BY FS_Interval
  <2> QED BY <2>1, FS_StrictSubsetOrderingWellFounded
<1>2. T \subseteq SUBSET (0 .. n)
  OBVIOUS
<1>3. T \subseteq FiniteSubsetsOf(0 .. n)
  <2>1. IsFiniteSet(0 .. n)
    BY FS_Interval
  <2> HIDE DEF T
  <2> QED BY <1>2, <2>1, FS_FiniteSubsetsOfFinite
<1>4. 0 .. n \in T
  OBVIOUS
<1>5. PICK x \in T : \A y \in T : <<y, x>> \notin StrictSubsetOrdering(0 .. n)
  <2> HIDE DEF T
  <2> QED BY <1>1, <1>3, <1>4, WFMin
<1>6. PICK k \in Bad : x = 0 .. k
  OBVIOUS
<1>7. k \in Nat /\ k <= n /\ k # 0 /\ k - 1 \in Nat
  OBVIOUS
<1>8. k - 1 \notin S
  BY <1>6, <1>7
<1>9. 0 .. k - 1 \in T
  BY <1>7, <1>8
<1>10. 0 .. k - 1 \subseteq 0 .. k /\ 0 .. k - 1 # 0 .. k
  <2>1. k \in 0 .. k /\ k \notin 0 .. k - 1
    BY <1>7
  <2> QED BY <2>1, <1>7
<1>11. <<0 .. k - 1, x>> \in StrictSubsetOrdering(0 .. n)
  BY <1>2, <1>5, <1>6, <1>9, <1>10 DEF StrictSubsetOrdering
<1> QED BY <1>5, <1>9, <1>11

\* zeros up to a height.
ZerosTo(g, n) ==
  g = [i \in 0 .. n |-> IF i = 0 THEN EMPTY_LEAF ELSE HashNode(g[i - 1], g[i - 1])]

LEMMA ZerosToExist == \A n \in Nat : \E g : ZerosTo(g, n)
<1> DEFINE S == {n \in Nat : \E g : ZerosTo(g, n)}
<1>1. 0 \in S
  <2>1. ZerosTo([i \in 0 .. 0 |-> EMPTY_LEAF], 0)
    BY DEF ZerosTo
  <2> QED BY <2>1
<1>2. ASSUME NEW n \in Nat, n \in S
      PROVE  n + 1 \in S
  <2>1. PICK g : ZerosTo(g, n)
    BY <1>2
  <2> DEFINE h == [i \in 0 .. n + 1 |-> IF i = n + 1 THEN HashNode(g[n], g[n]) ELSE g[i]]
  <2>2. ZerosTo(h, n + 1)
    <3>1. ASSUME NEW i \in 0 .. n + 1
          PROVE  h[i] = IF i = 0 THEN EMPTY_LEAF ELSE HashNode(h[i - 1], h[i - 1])
      <4>1. CASE i = n + 1
        BY <4>1
      <4>2. CASE i # n + 1
        BY <4>2, <2>1 DEF ZerosTo
      <4> QED BY <4>1, <4>2
    <3>2. h = [i \in 0 .. n + 1 |-> h[i]]
      OBVIOUS
    <3> HIDE DEF h
    <3> QED BY <3>1, <3>2 DEF ZerosTo
  <2> QED BY <2>2
<1>3. Nat \subseteq S
  <2> HIDE DEF S
  <2> QED BY <1>1, <1>2, NatInduct
<1> QED BY <1>3

LEMMA ZerosToAgree ==
  ASSUME NEW m \in Nat, NEW n \in Nat, m <= n, NEW g, ZerosTo(g, m), NEW h, ZerosTo(h, n)
  PROVE  \A i \in 0 .. m : g[i] = h[i]
<1> DEFINE S == {i \in Nat : i <= m => g[i] = h[i]}
<1>1. 0 \in S
  BY DEF ZerosTo
<1>2. ASSUME NEW i \in Nat, i \in S
      PROVE  i + 1 \in S
  BY <1>2 DEF ZerosTo
<1>3. Nat \subseteq S
  <2> HIDE DEF S
  <2> QED BY <1>1, <1>2, NatInduct
<1> QED BY <1>3

LEMMA ZerosDef ==
  /\ zeros[0] = EMPTY_LEAF
  /\ \A i \in Nat : zeros[i + 1] = HashNode(zeros[i], zeros[i])
<1> DEFINE G(n) == CHOOSE g : ZerosTo(g, n)
           f == [n \in Nat |-> G(n)[n]]
           IsZeros(z) == z = [i \in Nat |-> IF i = 0 THEN EMPTY_LEAF ELSE HashNode(z[i - 1], z[i - 1])]
<1>1. \A n \in Nat : ZerosTo(G(n), n)
  BY ZerosToExist
<1>2. \A n \in Nat : \A i \in 0 .. n : G(i)[i] = G(n)[i]
  <2> SUFFICES ASSUME NEW n \in Nat, NEW i \in 0 .. n PROVE G(i)[i] = G(n)[i]
    OBVIOUS
  <2>1. ZerosTo(G(n), n) /\ ZerosTo(G(i), i) /\ i \in Nat /\ i <= n /\ i \in 0 .. i
    BY <1>1
  <2> HIDE DEF G
  <2> QED BY <2>1, ZerosToAgree
<1>3. IsZeros(f)
  <2>1. ASSUME NEW i \in Nat
        PROVE  f[i] = IF i = 0 THEN EMPTY_LEAF ELSE HashNode(f[i - 1], f[i - 1])
    <3>1. G(i)[i] = IF i = 0 THEN EMPTY_LEAF ELSE HashNode(G(i)[i - 1], G(i)[i - 1])
      <4> HIDE DEF G
      <4> QED BY <1>1 DEF ZerosTo
    <3>2. i # 0 => i - 1 \in Nat /\ i - 1 \in 0 .. i
      OBVIOUS
    <3>3. i # 0 => G(i)[i - 1] = G(i - 1)[i - 1]
      <4> HIDE DEF G
      <4> QED BY <1>2, <3>2
    <3> HIDE DEF G
    <3> QED BY <3>1, <3>2, <3>3
  <2>2. f = [i \in Nat |-> f[i]]
    OBVIOUS
  <2> HIDE DEF f
  <2> QED BY <2>1, <2>2
<1>4. zeros = CHOOSE z : IsZeros(z)
  BY DEF zeros
<1>5. IsZeros(zeros)
  <2> HIDE DEF IsZeros, f
  <2> QED BY <1>3, <1>4
<1>6. \A i \in Nat : zeros[i] = IF i = 0 THEN EMPTY_LEAF ELSE HashNode(zeros[i - 1], zeros[i - 1])
  BY <1>5
<1>7. ASSUME NEW i \in Nat
      PROVE  zeros[i + 1] = HashNode(zeros[i], zeros[i])
  <2>1. i + 1 \in Nat /\ i + 1 # 0 /\ (i + 1) - 1 = i
    OBVIOUS
  <2> QED BY <1>6, <2>1
<1> QED BY <1>6, <1>7

----------------------------------------------------------------------------
(* Indices on the way up.                                                   *)

IndicesTo(g, index, n) == g = [l \in 0 .. n |-> IF l = 0 THEN index ELSE g[l - 1] \div 2]

LEMMA IndicesToExist ==
  ASSUME NEW index
  PROVE  \A n \in Nat : \E g : IndicesTo(g, index, n)
<1> DEFINE S == {n \in Nat : \E g : IndicesTo(g, index, n)}
<1>1. 0 \in S
  <2>1. IndicesTo([l \in 0 .. 0 |-> index], index, 0)
    BY DEF IndicesTo
  <2> QED BY <2>1
<1>2. ASSUME NEW n \in Nat, n \in S
      PROVE  n + 1 \in S
  <2>1. PICK g : IndicesTo(g, index, n)
    BY <1>2
  <2> DEFINE h == [l \in 0 .. n + 1 |-> IF l = n + 1 THEN g[n] \div 2 ELSE g[l]]
  <2>2. ASSUME NEW l \in 0 .. n + 1
        PROVE  h[l] = IF l = 0 THEN index ELSE h[l - 1] \div 2
    <3>1. CASE l = n + 1
      BY <3>1
    <3>2. CASE l # n + 1
      BY <3>2, <2>1 DEF IndicesTo
    <3> QED BY <3>1, <3>2
  <2>3. h = [l \in 0 .. n + 1 |-> h[l]]
    OBVIOUS
  <2>4. IndicesTo(h, index, n + 1)
    <3> HIDE DEF h
    <3> QED BY <2>2, <2>3 DEF IndicesTo
  <2> QED BY <2>4
<1>3. Nat \subseteq S
  <2> HIDE DEF S
  <2> QED BY <1>1, <1>2, NatInduct
<1> QED BY <1>3

\* An index halves at every level.
LEMMA IndexAtDef ==
  ASSUME NEW index \in Nat
  PROVE  /\ IndexAt(index)[0] = index
         /\ \A l \in 0 .. TREE_DEPTH - 1 : IndexAt(index)[l + 1] = IndexAt(index)[l] \div 2
         /\ \A l \in 0 .. TREE_DEPTH : IndexAt(index)[l] \in Nat
<1> DEFINE at == IndexAt(index)
<1>0. TREE_DEPTH \in Nat
  BY TreeDepthAssumption
<1>1. IndexAt(index) = CHOOSE g : IndicesTo(g, index, TREE_DEPTH)
  BY DEF IndexAt, IndicesTo
<1>2. IndicesTo(at, index, TREE_DEPTH)
  BY <1>0, <1>1, IndicesToExist
<1>3. \A l \in 0 .. TREE_DEPTH : at[l] = IF l = 0 THEN index ELSE at[l - 1] \div 2
  <2> HIDE DEF at
  <2> QED BY <1>2 DEF IndicesTo
<1>4. at[0] = index
  BY <1>0, <1>3
<1>5. ASSUME NEW l \in 0 .. TREE_DEPTH - 1
      PROVE  at[l + 1] = at[l] \div 2
  <2>1. l + 1 \in 0 .. TREE_DEPTH /\ l + 1 # 0 /\ (l + 1) - 1 = l
    BY <1>0
  <2> HIDE DEF at
  <2> QED BY <1>3, <2>1
<1>6. \A l \in 0 .. TREE_DEPTH : at[l] \in Nat
  <2> DEFINE S == {l \in Nat : l <= TREE_DEPTH => at[l] \in Nat}
  <2> HIDE DEF at
  <2>1. 0 \in S
    BY <1>4
  <2>2. ASSUME NEW l \in Nat, l \in S
        PROVE  l + 1 \in S
    <3>1. CASE l + 1 <= TREE_DEPTH
      <4>1. l \in 0 .. TREE_DEPTH - 1 /\ at[l] \in Nat
        BY <1>0, <2>2, <3>1
      <4>2. at[l] \div 2 \in Nat
        BY <4>1
      <4> QED BY <1>5, <4>1, <4>2
    <3>2. CASE ~(l + 1 <= TREE_DEPTH)
      BY <3>2
    <3> QED BY <3>1, <3>2
  <2>3. Nat \subseteq S
    <3> HIDE DEF S
    <3> QED BY <2>1, <2>2, NatInduct
  <2> QED BY <1>0, <2>3
<1> QED BY <1>4, <1>5, <1>6

\* The next index is in the same subtree or in the next one.
LEMMA NextIndexAt ==
  ASSUME NEW index \in Nat
  PROVE  \A l \in 0 .. TREE_DEPTH :
           IndexAt(index + 1)[l] \in {IndexAt(index)[l], IndexAt(index)[l] + 1}
<1> DEFINE a == IndexAt(index)
           b == IndexAt(index + 1)
           S == {l \in Nat : l <= TREE_DEPTH => b[l] \in {a[l], a[l] + 1}}
<1>0. TREE_DEPTH \in Nat
  BY TreeDepthAssumption
<1>1. /\ a[0] = index
      /\ \A l \in 0 .. TREE_DEPTH - 1 : a[l + 1] = a[l] \div 2
      /\ \A l \in 0 .. TREE_DEPTH : a[l] \in Nat
  BY IndexAtDef
<1>2. /\ b[0] = index + 1
      /\ \A l \in 0 .. TREE_DEPTH - 1 : b[l + 1] = b[l] \div 2
      /\ \A l \in 0 .. TREE_DEPTH : b[l] \in Nat
  BY IndexAtDef, index + 1 \in Nat
<1> HIDE DEF a, b
<1>3. 0 \in S
  BY <1>1, <1>2
<1>4. ASSUME NEW l \in Nat, l \in S
      PROVE  l + 1 \in S
  <2>1. CASE l + 1 <= TREE_DEPTH
    <3>1. l \in 0 .. TREE_DEPTH - 1 /\ l \in 0 .. TREE_DEPTH
      BY <1>0, <2>1
    <3>2. a[l] \in Nat /\ b[l] \in {a[l], a[l] + 1}
      BY <1>1, <1>4, <3>1
    <3>3. a[l + 1] = a[l] \div 2 /\ b[l + 1] = b[l] \div 2
      BY <1>1, <1>2, <3>1
    <3>4. b[l] \div 2 \in {a[l] \div 2, (a[l] \div 2) + 1}
      BY <3>2
    <3> QED BY <3>3, <3>4
  <2>2. CASE ~(l + 1 <= TREE_DEPTH)
    BY <2>2
  <2> QED BY <2>1, <2>2
<1>5. Nat \subseteq S
  <2> HIDE DEF S
  <2> QED BY <1>3, <1>4, NatInduct
<1> QED BY <1>0, <1>5 DEF a, b

----------------------------------------------------------------------------
(* The nodes of a tree.                                                     *)

\* A function on 1 .. n is a sequence of length n.
LEMMA LenOfFunction ==
  ASSUME NEW n \in Nat, NEW f, f = [i \in 1 .. n |-> f[i]]
  PROVE  /\ Len(f) = n
         /\ \A S : (\A i \in 1 .. n : f[i] \in S) => f \in Seq(S)
<1>1. ASSUME NEW S, \A i \in 1 .. n : f[i] \in S
      PROVE  f \in Seq(S)
  <2>1. f \in [1 .. n -> S]
    BY <1>1
  <2> QED BY <2>1, SeqDef
<1>2. f \in Seq({f[i] : i \in 1 .. n})
  BY <1>1
<1>3. DOMAIN f = 1 .. Len(f) /\ Len(f) \in Nat
  BY <1>2, LenProperties
<1>4. DOMAIN f = 1 .. n
  OBVIOUS
<1>5. 1 .. Len(f) = 1 .. n
  BY <1>3, <1>4
<1>6. Len(f) = n
  BY <1>3, <1>5
<1> QED BY <1>1, <1>6

LEMMA Halves ==
  \A n \in Nat :
    /\ n \div 2 \in Nat
    /\ (n + 1) \div 2 \in Nat
    /\ n % 2 \in {0, 1}
    /\ n = 2 * (n \div 2) + (n % 2)
    /\ \A i \in Nat : i < (n + 1) \div 2 <=> 2 * i < n
OBVIOUS

\* The row above a row, whose nodes have height d.
RowAbove(row, d) ==
  [i \in 1 .. (Len(row) + 1) \div 2 |->
     HashNode(row[2 * i - 1], IF 2 * i <= Len(row) THEN row[2 * i] ELSE zeros[d])]

RowsTo(g, leaves, n) == g = [d \in 0 .. n |-> IF d = 0 THEN leaves ELSE RowAbove(g[d - 1], d - 1)]

LEMMA RowsToExist ==
  ASSUME NEW leaves
  PROVE  \A n \in Nat : \E g : RowsTo(g, leaves, n)
<1> DEFINE S == {n \in Nat : \E g : RowsTo(g, leaves, n)}
<1>1. 0 \in S
  <2>1. RowsTo([d \in 0 .. 0 |-> leaves], leaves, 0)
    BY DEF RowsTo
  <2> QED BY <2>1
<1>2. ASSUME NEW n \in Nat, n \in S
      PROVE  n + 1 \in S
  <2>1. PICK g : RowsTo(g, leaves, n)
    BY <1>2
  <2> DEFINE h == [d \in 0 .. n + 1 |-> IF d = n + 1 THEN RowAbove(g[n], n) ELSE g[d]]
  <2>2. ASSUME NEW d \in 0 .. n + 1
        PROVE  h[d] = IF d = 0 THEN leaves ELSE RowAbove(h[d - 1], d - 1)
    <3>1. CASE d = n + 1
      BY <3>1
    <3>2. CASE d # n + 1
      BY <3>2, <2>1 DEF RowsTo
    <3> QED BY <3>1, <3>2
  <2>3. h = [d \in 0 .. n + 1 |-> h[d]]
    OBVIOUS
  <2>4. RowsTo(h, leaves, n + 1)
    <3> HIDE DEF h
    <3> QED BY <2>2, <2>3 DEF RowsTo
  <2> QED BY <2>4
<1>3. Nat \subseteq S
  <2> HIDE DEF S
  <2> QED BY <1>1, <1>2, NatInduct
<1> QED BY <1>3

\* A sequence, of whatever elements.
IsSequence(s) == Len(s) \in Nat /\ s = [i \in 1 .. Len(s) |-> s[i]]

LEMMA IsSequenceDef ==
  ASSUME NEW S, NEW s \in Seq(S)
  PROVE  IsSequence(s)
BY LenProperties DEF IsSequence

LEMMA RowsDef ==
  ASSUME NEW leaves, IsSequence(leaves)
  PROVE  /\ Rows(leaves)[0] = leaves
         /\ \A d \in 0 .. TREE_DEPTH - 1 : Rows(leaves)[d + 1] = RowAbove(Rows(leaves)[d], d)
         /\ \A d \in 0 .. TREE_DEPTH : IsSequence(Rows(leaves)[d])
         /\ \A d \in 0 .. TREE_DEPTH - 1 : Len(Rows(leaves)[d + 1]) = (Len(Rows(leaves)[d]) + 1) \div 2
<1> DEFINE rows == Rows(leaves)
<1>0. TREE_DEPTH \in Nat
  BY TreeDepthAssumption
<1>1. rows = CHOOSE g : RowsTo(g, leaves, TREE_DEPTH)
  BY DEF Rows, RowsTo, RowAbove
<1>2. RowsTo(rows, leaves, TREE_DEPTH)
  <2> HIDE DEF rows
  <2> QED BY <1>0, <1>1, RowsToExist
<1> HIDE DEF rows
<1>3. \A d \in 0 .. TREE_DEPTH : rows[d] = IF d = 0 THEN leaves ELSE RowAbove(rows[d - 1], d - 1)
  BY <1>2 DEF RowsTo
<1>4. rows[0] = leaves
  BY <1>0, <1>3
<1>5. ASSUME NEW d \in 0 .. TREE_DEPTH - 1
      PROVE  rows[d + 1] = RowAbove(rows[d], d)
  <2>1. d + 1 \in 0 .. TREE_DEPTH /\ d + 1 # 0 /\ (d + 1) - 1 = d
    BY <1>0
  <2> QED BY <1>3, <2>1
<1>6. ASSUME NEW d \in 0 .. TREE_DEPTH - 1, IsSequence(rows[d])
      PROVE  IsSequence(rows[d + 1]) /\ Len(rows[d + 1]) = (Len(rows[d]) + 1) \div 2
  <2> DEFINE n == (Len(rows[d]) + 1) \div 2
             r == rows[d + 1]
  <2>1. n \in Nat
    <3>1. Len(rows[d]) \in Nat
      BY <1>6 DEF IsSequence
    <3> QED BY <3>1, Halves
  <2>2. r = [i \in 1 .. n |-> r[i]]
    BY <1>5 DEF RowAbove
  <2>3. Len(r) = n
    <3> HIDE DEF n, r
    <3> QED BY <2>1, <2>2, LenOfFunction
  <2> QED BY <2>1, <2>2, <2>3 DEF IsSequence
<1>7. \A d \in 0 .. TREE_DEPTH : IsSequence(rows[d])
  <2> DEFINE S == {d \in Nat : d <= TREE_DEPTH => IsSequence(rows[d])}
  <2>1. 0 \in S
    BY <1>4
  <2>2. ASSUME NEW d \in Nat, d \in S
        PROVE  d + 1 \in S
    <3>1. CASE d + 1 <= TREE_DEPTH
      <4>1. d \in 0 .. TREE_DEPTH - 1 /\ IsSequence(rows[d])
        BY <1>0, <2>2, <3>1
      <4>2. IsSequence(rows[d + 1])
        BY <1>6, <4>1
      <4> QED BY <4>2
    <3>2. CASE ~(d + 1 <= TREE_DEPTH)
      BY <3>2
    <3> QED BY <3>1, <3>2
  <2>3. Nat \subseteq S
    <3> HIDE DEF S
    <3> QED BY <2>1, <2>2, NatInduct
  <2> QED BY <1>0, <2>3
<1>8. \A d \in 0 .. TREE_DEPTH - 1 : d \in 0 .. TREE_DEPTH
  BY <1>0
<1> QED BY <1>4, <1>5, <1>6, <1>7, <1>8 DEF rows

\* The node of a height, counted from the left; beyond the leaves all is empty.
Node(leaves, d, i) == IF i < Len(Rows(leaves)[d]) THEN Rows(leaves)[d][i + 1] ELSE zeros[d]

LEMMA NodeOfLeaf ==
  ASSUME NEW leaves, IsSequence(leaves), NEW i \in Nat
  PROVE  Node(leaves, 0, i) = IF i < Len(leaves) THEN leaves[i + 1] ELSE EMPTY_LEAF
BY RowsDef, ZerosDef DEF Node

\* A node is the hash of the two below it.
LEMMA NodeAbove ==
  ASSUME NEW leaves, IsSequence(leaves), NEW d \in 0 .. TREE_DEPTH - 1, NEW i \in Nat
  PROVE  Node(leaves, d + 1, i) = HashNode(Node(leaves, d, 2 * i), Node(leaves, d, 2 * i + 1))
<1> DEFINE row == Rows(leaves)[d]
           above == Rows(leaves)[d + 1]
           n == Len(row)
<1>0. TREE_DEPTH \in Nat /\ d \in Nat /\ d \in 0 .. TREE_DEPTH
  BY TreeDepthAssumption
<1>1. above = RowAbove(row, d) /\ Len(above) = (n + 1) \div 2 /\ n \in Nat
  BY <1>0, RowsDef DEF IsSequence
<1>2. zeros[d + 1] = HashNode(zeros[d], zeros[d])
  BY <1>0, ZerosDef
<1>3. CASE i < (n + 1) \div 2
  <2>1. i + 1 \in 1 .. (n + 1) \div 2 /\ 2 * i < n
    <3> HIDE DEF n
    <3> QED BY <1>1, <1>3, Halves
  <2>2. above[i + 1] = HashNode(row[2 * (i + 1) - 1], IF 2 * (i + 1) <= n THEN row[2 * (i + 1)] ELSE zeros[d])
    BY <1>1, <2>1 DEF RowAbove
  <2>3. /\ 2 * (i + 1) - 1 = 2 * i + 1
        /\ 2 * (i + 1) <= n <=> 2 * i + 1 < n
        /\ (2 * i + 1) + 1 = 2 * (i + 1)
    BY <1>1
  <2>4. Node(leaves, d + 1, i) = above[i + 1]
    BY <1>1, <1>3 DEF Node
  <2>5. Node(leaves, d, 2 * i) = row[2 * i + 1]
    BY <2>1 DEF Node
  <2>6. Node(leaves, d, 2 * i + 1) = IF 2 * i + 1 < n THEN row[(2 * i + 1) + 1] ELSE zeros[d]
    BY DEF Node
  <2> HIDE DEF row, above, n
  <2> QED BY <2>2, <2>3, <2>4, <2>5, <2>6
<1>4. CASE ~(i < (n + 1) \div 2)
  <2>1. ~(2 * i < n) /\ ~(2 * i + 1 < n)
    <3>1. ~(2 * i < n)
      <4> HIDE DEF n
      <4> QED BY <1>1, <1>4, Halves
    <3> HIDE DEF n
    <3> QED BY <1>1, <3>1
  <2> QED BY <1>1, <1>2, <1>4, <2>1 DEF Node
<1> QED BY <1>3, <1>4

----------------------------------------------------------------------------
(* One more leaf.                                                           *)

LEMMA AppendedSequence ==
  ASSUME NEW S, NEW leaves \in Seq(S), NEW x \in S
  PROVE  /\ Len(leaves) \in Nat
         /\ IsSequence(leaves)
         /\ IsSequence(Append(leaves, x))
         /\ Len(Append(leaves, x)) = Len(leaves) + 1
         /\ \A i \in 1 .. Len(leaves) : Append(leaves, x)[i] = leaves[i]
         /\ Append(leaves, x)[Len(leaves) + 1] = x
<1>1. /\ Append(leaves, x) \in Seq(S)
      /\ Len(Append(leaves, x)) = Len(leaves) + 1
      /\ \A i \in 1 .. Len(leaves) : Append(leaves, x)[i] = leaves[i]
      /\ Append(leaves, x)[Len(leaves) + 1] = x
  BY AppendProperties
<1>2. Len(leaves) \in Nat
  BY LenProperties
<1>3. IsSequence(leaves)
  BY IsSequenceDef
<1>4. IsSequence(Append(leaves, x))
  BY <1>1, IsSequenceDef
<1> QED BY <1>1, <1>2, <1>3, <1>4

\* A prefix grows by the next element.
LEMMA PrefixAppend ==
  ASSUME NEW S, NEW s \in Seq(S), NEW j \in 0 .. Len(s) - 1
  PROVE  /\ SubSeq(s, 1, j) \in Seq(S)
         /\ Len(SubSeq(s, 1, j)) = j
         /\ s[j + 1] \in S
         /\ SubSeq(s, 1, j + 1) = Append(SubSeq(s, 1, j), s[j + 1])
<1> DEFINE a == SubSeq(s, 1, j)
           b == SubSeq(s, 1, j + 1)
<1>0. Len(s) \in Nat /\ j \in Nat
  BY LenProperties
<1>1. \A i \in 1 .. j + 1 : s[i] \in S
  BY <1>0, ElementOfSeq
<1>2. a \in Seq(S) /\ Len(a) = j /\ \A i \in 1 .. j : a[i] = s[i]
  <2>1. /\ a \in Seq(S)
        /\ Len(a) = IF 1 <= j THEN j - 1 + 1 ELSE 0
        /\ \A i \in 1 .. j - 1 + 1 : a[i] = s[1 + i - 1]
    <3>1. \A i \in 1 .. j : s[i] \in S
      BY <1>0, <1>1
    <3> QED BY <3>1, SubSeqProperties
  <2>2. j - 1 + 1 = j /\ \A i \in 1 .. j : 1 + i - 1 = i
    BY <1>0
  <2> HIDE DEF a
  <2> QED BY <1>0, <2>1, <2>2
<1>3. b \in Seq(S) /\ Len(b) = j + 1 /\ \A i \in 1 .. j + 1 : b[i] = s[i]
  <2>1. /\ b \in Seq(S)
        /\ Len(b) = IF 1 <= j + 1 THEN (j + 1) - 1 + 1 ELSE 0
        /\ \A i \in 1 .. (j + 1) - 1 + 1 : b[i] = s[1 + i - 1]
    BY <1>1, SubSeqProperties
  <2>2. 1 <= j + 1 /\ (j + 1) - 1 + 1 = j + 1 /\ \A i \in 1 .. j + 1 : 1 + i - 1 = i
    BY <1>0
  <2> HIDE DEF b
  <2> QED BY <2>1, <2>2
<1> HIDE DEF a, b
<1>4. s[j + 1] \in S
  BY <1>0, <1>1
<1>5. /\ Append(a, s[j + 1]) \in Seq(S)
      /\ Len(Append(a, s[j + 1])) = j + 1
      /\ \A i \in 1 .. j : Append(a, s[j + 1])[i] = a[i]
      /\ Append(a, s[j + 1])[j + 1] = s[j + 1]
  BY <1>2, <1>4, AppendProperties
<1>6. \A i \in 1 .. j + 1 : b[i] = Append(a, s[j + 1])[i]
  <2>1. \A i \in 1 .. j + 1 : i \in 1 .. j \/ i = j + 1
    BY <1>0
  <2> QED BY <1>2, <1>3, <1>5, <2>1
<1>7. b = Append(a, s[j + 1])
  BY <1>3, <1>5, <1>6, SeqEqual
<1> QED BY <1>2, <1>4, <1>7 DEF a, b

\* What is to the left of a new leaf stays, and what is to its right is empty.
LEMMA NodesBesideNewLeaf ==
  ASSUME NEW S, NEW leaves \in Seq(S), NEW x \in S
  PROVE  \A d \in 0 .. TREE_DEPTH, i \in Nat :
           /\ i < IndexAt(Len(leaves))[d] => Node(Append(leaves, x), d, i) = Node(leaves, d, i)
           /\ i > IndexAt(Len(leaves))[d] => Node(Append(leaves, x), d, i) = zeros[d]
<1> DEFINE n == Len(leaves)
           more == Append(leaves, x)
           at == IndexAt(n)
           Q(d) == \A i \in Nat : /\ i < at[d] => Node(more, d, i) = Node(leaves, d, i)
                                  /\ i > at[d] => Node(more, d, i) = zeros[d]
           T == {d \in Nat : d <= TREE_DEPTH => Q(d)}
<1>0. TREE_DEPTH \in Nat
  BY TreeDepthAssumption
<1>1. /\ n \in Nat
      /\ IsSequence(leaves) /\ IsSequence(more)
      /\ Len(more) = n + 1
      /\ \A i \in 1 .. n : more[i] = leaves[i]
      /\ more[n + 1] = x
  BY AppendedSequence
<1>2. /\ at[0] = n
      /\ \A l \in 0 .. TREE_DEPTH - 1 : at[l + 1] = at[l] \div 2
      /\ \A l \in 0 .. TREE_DEPTH : at[l] \in Nat
  <2> HIDE DEF n
  <2> QED BY <1>1, IndexAtDef
<1> HIDE DEF n, more, at
<1>3. Q(0)
  <2> SUFFICES ASSUME NEW i \in Nat
               PROVE  /\ i < n => Node(more, 0, i) = Node(leaves, 0, i)
                      /\ i > n => Node(more, 0, i) = zeros[0]
    BY <1>2
  <2>1. Node(more, 0, i) = IF i < n + 1 THEN more[i + 1] ELSE EMPTY_LEAF
    BY <1>1, NodeOfLeaf
  <2>2. Node(leaves, 0, i) = IF i < n THEN leaves[i + 1] ELSE EMPTY_LEAF
    BY <1>1, NodeOfLeaf DEF n
  <2>3. CASE i < n
    <3>1. i < n + 1 /\ i + 1 \in 1 .. n
      BY <1>1, <2>3
    <3> QED BY <1>1, <2>1, <2>2, <2>3, <3>1
  <2>4. CASE i > n
    <3>1. ~(i < n + 1)
      BY <1>1, <2>4
    <3> QED BY <1>1, <2>1, <2>4, <3>1, ZerosDef
  <2> QED BY <1>1, <2>3, <2>4
<1>4. ASSUME NEW d \in 0 .. TREE_DEPTH - 1, Q(d)
      PROVE  Q(d + 1)
  <2> SUFFICES ASSUME NEW i \in Nat
               PROVE  /\ i < at[d + 1] => Node(more, d + 1, i) = Node(leaves, d + 1, i)
                      /\ i > at[d + 1] => Node(more, d + 1, i) = zeros[d + 1]
    OBVIOUS
  <2>1. at[d + 1] = at[d] \div 2 /\ at[d] \in Nat /\ d \in Nat
    BY <1>0, <1>2
  <2>2. Node(more, d + 1, i) = HashNode(Node(more, d, 2 * i), Node(more, d, 2 * i + 1))
    BY <1>1, NodeAbove
  <2>3. Node(leaves, d + 1, i) = HashNode(Node(leaves, d, 2 * i), Node(leaves, d, 2 * i + 1))
    BY <1>1, NodeAbove
  <2>4. 2 * i \in Nat /\ 2 * i + 1 \in Nat
    OBVIOUS
  <2>5. CASE i < at[d] \div 2
    <3>1. 2 * i < at[d] /\ 2 * i + 1 < at[d]
      BY <2>1, <2>5
    <3> QED BY <1>4, <2>1, <2>2, <2>3, <2>4, <2>5, <3>1
  <2>6. CASE i > at[d] \div 2
    <3>1. 2 * i > at[d] /\ 2 * i + 1 > at[d]
      BY <2>1, <2>6
    <3>2. zeros[d + 1] = HashNode(zeros[d], zeros[d])
      BY <2>1, ZerosDef
    <3> QED BY <1>4, <2>1, <2>2, <2>4, <2>6, <3>1, <3>2
  <2>7. CASE ~(i < at[d] \div 2) /\ ~(i > at[d] \div 2)
    BY <2>1, <2>7
  <2> QED BY <2>5, <2>6, <2>7
<1>5. 0 \in T
  BY <1>3
<1>6. ASSUME NEW d \in Nat, d \in T
      PROVE  d + 1 \in T
  <2>1. CASE d + 1 <= TREE_DEPTH
    <3>1. d \in 0 .. TREE_DEPTH - 1 /\ Q(d)
      BY <1>0, <1>6, <2>1
    <3>2. Q(d + 1)
      <4> HIDE DEF Q
      <4> QED BY <1>4, <3>1
    <3> QED BY <3>2
  <2>2. CASE ~(d + 1 <= TREE_DEPTH)
    BY <2>2
  <2> QED BY <2>1, <2>2
<1>7. Nat \subseteq T
  <2> HIDE DEF T
  <2> QED BY <1>5, <1>6, NatInduct
<1>8. \A d \in 0 .. TREE_DEPTH : Q(d)
  BY <1>0, <1>7
<1> QED BY <1>8 DEF n, more, at

\* An empty leaf is no leaf.
LEMMA NodesWithEmptyLeaf ==
  ASSUME NEW S, NEW leaves \in Seq(S), EMPTY_LEAF \in S
  PROVE  \A d \in 0 .. TREE_DEPTH, i \in Nat : Node(Append(leaves, EMPTY_LEAF), d, i) = Node(leaves, d, i)
<1> DEFINE n == Len(leaves)
           more == Append(leaves, EMPTY_LEAF)
           Q(d) == \A i \in Nat : Node(more, d, i) = Node(leaves, d, i)
           T == {d \in Nat : d <= TREE_DEPTH => Q(d)}
<1>0. TREE_DEPTH \in Nat
  BY TreeDepthAssumption
<1>1. /\ n \in Nat
      /\ IsSequence(leaves) /\ IsSequence(more)
      /\ Len(more) = n + 1
      /\ \A i \in 1 .. n : more[i] = leaves[i]
      /\ more[n + 1] = EMPTY_LEAF
  BY AppendedSequence
<1> HIDE DEF n, more
<1>2. Q(0)
  <2> SUFFICES ASSUME NEW i \in Nat PROVE Node(more, 0, i) = Node(leaves, 0, i)
    OBVIOUS
  <2>1. Node(more, 0, i) = IF i < n + 1 THEN more[i + 1] ELSE EMPTY_LEAF
    BY <1>1, NodeOfLeaf
  <2>2. Node(leaves, 0, i) = IF i < n THEN leaves[i + 1] ELSE EMPTY_LEAF
    BY <1>1, NodeOfLeaf DEF n
  <2>3. CASE i < n
    <3>1. i < n + 1 /\ i + 1 \in 1 .. n
      BY <1>1, <2>3
    <3> QED BY <1>1, <2>1, <2>2, <2>3, <3>1
  <2>4. CASE i = n
    BY <1>1, <2>1, <2>2, <2>4
  <2>5. CASE i > n
    <3>1. ~(i < n + 1) /\ ~(i < n)
      BY <1>1, <2>5
    <3> QED BY <2>1, <2>2, <3>1
  <2> QED BY <1>1, <2>3, <2>4, <2>5
<1>3. ASSUME NEW d \in 0 .. TREE_DEPTH - 1, Q(d)
      PROVE  Q(d + 1)
  <2> SUFFICES ASSUME NEW i \in Nat PROVE Node(more, d + 1, i) = Node(leaves, d + 1, i)
    OBVIOUS
  <2>1. 2 * i \in Nat /\ 2 * i + 1 \in Nat
    OBVIOUS
  <2> QED BY <1>1, <1>3, <2>1, NodeAbove
<1>4. 0 \in T
  BY <1>2
<1>5. ASSUME NEW d \in Nat, d \in T
      PROVE  d + 1 \in T
  <2>1. CASE d + 1 <= TREE_DEPTH
    <3>1. d \in 0 .. TREE_DEPTH - 1 /\ Q(d)
      BY <1>0, <1>5, <2>1
    <3>2. Q(d + 1)
      <4> HIDE DEF Q
      <4> QED BY <1>3, <3>1
    <3> QED BY <3>2
  <2>2. CASE ~(d + 1 <= TREE_DEPTH)
    BY <2>2
  <2> QED BY <2>1, <2>2
<1>6. Nat \subseteq T
  <2> HIDE DEF T
  <2> QED BY <1>4, <1>5, NatInduct
<1>7. \A d \in 0 .. TREE_DEPTH : Q(d)
  BY <1>0, <1>6
<1> QED BY <1>7 DEF n, more

----------------------------------------------------------------------------
(* The insertion.                                                           *)

Climbed(s, index, level) ==
  IF IsRight(index, level - 1)
  THEN [s EXCEPT !.root = HashNode(s.frontier[level], @)]
  ELSE [frontier |-> [s.frontier EXCEPT ![level] = s.root], root |-> HashNode(s.root, zeros[level - 1])]

ClimbTo(g, frontier, index, leaf, n) ==
  g = [level \in 0 .. n |-> IF level = 0 THEN [frontier |-> frontier, root |-> leaf]
                                         ELSE Climbed(g[level - 1], index, level)]

LEMMA ClimbToExist ==
  ASSUME NEW frontier, NEW index, NEW leaf
  PROVE  \A n \in Nat : \E g : ClimbTo(g, frontier, index, leaf, n)
<1> DEFINE S == {n \in Nat : \E g : ClimbTo(g, frontier, index, leaf, n)}
<1>1. 0 \in S
  <2>1. ClimbTo([level \in 0 .. 0 |-> [frontier |-> frontier, root |-> leaf]], frontier, index, leaf, 0)
    BY DEF ClimbTo
  <2> QED BY <2>1
<1>2. ASSUME NEW n \in Nat, n \in S
      PROVE  n + 1 \in S
  <2>1. PICK g : ClimbTo(g, frontier, index, leaf, n)
    BY <1>2
  <2> DEFINE h == [l \in 0 .. n + 1 |-> IF l = n + 1 THEN Climbed(g[n], index, n + 1) ELSE g[l]]
  <2>2. ASSUME NEW l \in 0 .. n + 1
        PROVE  h[l] = IF l = 0 THEN [frontier |-> frontier, root |-> leaf]
                      ELSE Climbed(h[l - 1], index, l)
    <3>1. CASE l = n + 1
      BY <3>1
    <3>2. CASE l # n + 1
      BY <3>2, <2>1 DEF ClimbTo
    <3> QED BY <3>1, <3>2
  <2>3. h = [l \in 0 .. n + 1 |-> h[l]]
    OBVIOUS
  <2>4. ClimbTo(h, frontier, index, leaf, n + 1)
    <3> HIDE DEF h
    <3> QED BY <2>2, <2>3 DEF ClimbTo
  <2> QED BY <2>4
<1>3. Nat \subseteq S
  <2> HIDE DEF S
  <2> QED BY <1>1, <1>2, NatInduct
<1> QED BY <1>3

\* The nodes a new leaf climbs through, from what the frontier holds.
IsClimb(cur, frontier, index, leaf) ==
  /\ cur[0] = leaf
  /\ \A l \in 0 .. TREE_DEPTH - 1 :
       cur[l + 1] = IF IndexAt(index)[l] % 2 = 1
                    THEN HashNode(frontier[l + 1], cur[l])
                    ELSE HashNode(cur[l], zeros[l])

IsFrontier(frontier) == frontier = [l \in 1 .. TREE_DEPTH |-> frontier[l]]

\* The insertion in place leaves at each level what it should, as if the nodes had
\* all been computed before.
LEMMA InsertIntoDef ==
  ASSUME NEW frontier, IsFrontier(frontier), NEW index \in Nat, NEW leaf
  PROVE  \E cur :
           /\ IsClimb(cur, frontier, index, leaf)
           /\ InsertInto(frontier, index, leaf)
                = [frontier |-> [l \in 1 .. TREE_DEPTH |->
                                   IF IndexAt(index)[l - 1] % 2 = 1 THEN frontier[l] ELSE cur[l - 1]],
                   root     |-> cur[TREE_DEPTH]]
<1> DEFINE g == CHOOSE g : ClimbTo(g, frontier, index, leaf, TREE_DEPTH)
           cur == [l \in 0 .. TREE_DEPTH |-> g[l].root]
           at == IndexAt(index)
           upTo(l) == [k \in 1 .. TREE_DEPTH |->
                         IF k <= l /\ at[k - 1] % 2 # 1 THEN cur[k - 1] ELSE frontier[k]]
           Q(l) == g[l] = [frontier |-> upTo(l), root |-> cur[l]]
           T == {l \in Nat : l <= TREE_DEPTH => Q(l)}
<1>0. TREE_DEPTH \in Nat
  BY TreeDepthAssumption
<1>1. ClimbTo(g, frontier, index, leaf, TREE_DEPTH)
  BY <1>0, ClimbToExist
<1>2. InsertInto(frontier, index, leaf) = g[TREE_DEPTH]
  BY DEF InsertInto, ClimbTo, Climbed
<1> HIDE DEF g
<1>3. g[0] = [frontier |-> frontier, root |-> leaf]
  BY <1>0, <1>1 DEF ClimbTo
<1>4. ASSUME NEW l \in 0 .. TREE_DEPTH - 1
      PROVE  g[l + 1] = Climbed(g[l], index, l + 1)
  <2>1. l + 1 \in 0 .. TREE_DEPTH /\ l + 1 # 0 /\ (l + 1) - 1 = l
    BY <1>0
  <2> QED BY <1>1, <2>1 DEF ClimbTo
<1>5. Q(0)
  <2>1. upTo(0) = frontier
    <3>1. upTo(0) = [k \in 1 .. TREE_DEPTH |-> frontier[k]]
      OBVIOUS
    <3> QED BY <3>1 DEF IsFrontier
  <2>2. cur[0] = leaf
    BY <1>0, <1>3
  <2> QED BY <1>3, <2>1, <2>2
<1>6. ASSUME NEW l \in 0 .. TREE_DEPTH - 1, Q(l)
      PROVE  /\ Q(l + 1)
             /\ cur[l + 1] = IF at[l] % 2 = 1 THEN HashNode(frontier[l + 1], cur[l])
                                              ELSE HashNode(cur[l], zeros[l])
  <2>0. l + 1 \in 0 .. TREE_DEPTH /\ l \in Nat /\ l + 1 \in 1 .. TREE_DEPTH /\ (l + 1) - 1 = l
    BY <1>0
  <2>1. cur[l + 1] = g[l + 1].root
    BY <2>0
  <2>2. upTo(l)[l + 1] = frontier[l + 1]
    BY <2>0
  <2>3. CASE at[l] % 2 = 1
    <3>1. g[l + 1] = [g[l] EXCEPT !.root = HashNode(g[l].frontier[l + 1], @)]
      BY <1>4, <2>0, <2>3 DEF Climbed, IsRight
    <3>2. g[l + 1] = [frontier |-> upTo(l), root |-> HashNode(frontier[l + 1], cur[l])]
      <4> HIDE DEF upTo, cur, at
      <4> QED BY <1>6, <2>2, <3>1
    <3>3. upTo(l + 1) = upTo(l)
      <4>1. \A k \in 1 .. TREE_DEPTH : (k <= l + 1 /\ at[k - 1] % 2 # 1) <=> (k <= l /\ at[k - 1] % 2 # 1)
        <5> HIDE DEF at
        <5> QED BY <2>0, <2>3
      <4> HIDE DEF at, cur
      <4> QED BY <4>1
    <3> HIDE DEF upTo, at
    <3> QED BY <2>1, <2>3, <3>2, <3>3
  <2>4. CASE at[l] % 2 # 1
    <3>1. g[l + 1] = [frontier |-> [g[l].frontier EXCEPT ![l + 1] = g[l].root],
                      root     |-> HashNode(g[l].root, zeros[l])]
      BY <1>4, <2>0, <2>4 DEF Climbed, IsRight
    <3>2. g[l + 1] = [frontier |-> [upTo(l) EXCEPT ![l + 1] = cur[l]], root |-> HashNode(cur[l], zeros[l])]
      <4> HIDE DEF upTo, cur, at
      <4> QED BY <1>6, <3>1
    <3>3. upTo(l + 1) = [upTo(l) EXCEPT ![l + 1] = cur[l]]
      <4>1. \A k \in 1 .. TREE_DEPTH : k # l + 1 => (k <= l + 1 <=> k <= l)
        BY <2>0
      <4>2. at[(l + 1) - 1] % 2 # 1 /\ cur[(l + 1) - 1] = cur[l] /\ l + 1 <= l + 1
        BY <2>0, <2>4
      <4> HIDE DEF at, cur
      <4> QED BY <2>0, <4>1, <4>2
    <3>4. cur[l + 1] = HashNode(cur[l], zeros[l])
      <4> HIDE DEF upTo, at
      <4> QED BY <2>1, <3>2
    <3>5. Q(l + 1)
      <4> HIDE DEF upTo, at, cur
      <4> QED BY <3>2, <3>3, <3>4
    <3> HIDE DEF upTo, at, cur, Q
    <3> QED BY <2>4, <3>4, <3>5
  <2> QED BY <2>3, <2>4
<1>7. ASSUME NEW l \in 0 .. TREE_DEPTH
      PROVE  Q(l)
  <2>1. 0 \in T
    <3> HIDE DEF Q
    <3> QED BY <1>5
  <2>2. ASSUME NEW k \in Nat, k \in T
        PROVE  k + 1 \in T
    <3>1. CASE k + 1 <= TREE_DEPTH
      <4> HIDE DEF Q
      <4>1. k \in 0 .. TREE_DEPTH - 1 /\ Q(k)
        BY <1>0, <2>2, <3>1
      <4>2. Q(k + 1)
        BY <1>6, <4>1
      <4> QED BY <4>2
    <3>2. CASE ~(k + 1 <= TREE_DEPTH)
      BY <3>2
    <3> QED BY <3>1, <3>2
  <2>3. Nat \subseteq T
    <3> HIDE DEF T
    <3> QED BY <2>1, <2>2, NatInduct
  <2> HIDE DEF Q
  <2> QED BY <1>0, <2>3
<1>8. IsClimb(cur, frontier, index, leaf)
  <2>1. cur[0] = leaf
    BY <1>0, <1>3
  <2>2. ASSUME NEW l \in 0 .. TREE_DEPTH - 1
        PROVE  cur[l + 1] = IF at[l] % 2 = 1 THEN HashNode(frontier[l + 1], cur[l])
                                             ELSE HashNode(cur[l], zeros[l])
    <3>1. Q(l)
      <4>1. l \in 0 .. TREE_DEPTH
        BY <1>0
      <4> HIDE DEF Q
      <4> QED BY <1>7, <4>1
    <3> HIDE DEF Q, cur, at
    <3> QED BY <1>6, <3>1
  <2> HIDE DEF cur
  <2> QED BY <2>1, <2>2 DEF IsClimb
<1>9. g[TREE_DEPTH] = [frontier |-> upTo(TREE_DEPTH), root |-> cur[TREE_DEPTH]]
  <2>1. TREE_DEPTH \in 0 .. TREE_DEPTH
    BY <1>0
  <2>2. Q(TREE_DEPTH)
    <3> HIDE DEF Q
    <3> QED BY <1>7, <2>1
  <2> HIDE DEF upTo, cur
  <2> QED BY <2>2
<1>10. upTo(TREE_DEPTH) = [l \in 1 .. TREE_DEPTH |-> IF at[l - 1] % 2 = 1 THEN frontier[l] ELSE cur[l - 1]]
  <2> HIDE DEF cur, at
  <2> QED BY <1>0
<1> HIDE DEF cur, at, upTo
<1> QED BY <1>2, <1>8, <1>9, <1>10 DEF at

\* A frontier is of some leaves: wherever the next leaf is in a right subtree, it
\* holds the root of the left one.  The other levels do not matter.
FrontierOf(frontier, leaves) ==
  /\ IsFrontier(frontier)
  /\ \A l \in 0 .. TREE_DEPTH - 1 :
       LET next == IndexAt(Len(leaves))[l]
       IN  next % 2 = 1 => frontier[l + 1] = Node(leaves, l, next - 1)

\* capacity up to a height.
CapacityTo(g, n) == g = [h \in 0 .. n |-> IF h = 0 THEN 1 ELSE 2 * g[h - 1]]

LEMMA CapacityToExist == \A n \in Nat : \E g : CapacityTo(g, n)
<1> DEFINE S == {n \in Nat : \E g : CapacityTo(g, n)}
<1>1. 0 \in S
  <2>1. CapacityTo([h \in 0 .. 0 |-> 1], 0)
    BY DEF CapacityTo
  <2> QED BY <2>1
<1>2. ASSUME NEW n \in Nat, n \in S
      PROVE  n + 1 \in S
  <2>1. PICK g : CapacityTo(g, n)
    BY <1>2
  <2> DEFINE f == [h \in 0 .. n + 1 |-> IF h = n + 1 THEN 2 * g[n] ELSE g[h]]
  <2>2. CapacityTo(f, n + 1)
    <3>1. ASSUME NEW h \in 0 .. n + 1
          PROVE  f[h] = IF h = 0 THEN 1 ELSE 2 * f[h - 1]
      <4>1. CASE h = n + 1
        BY <4>1
      <4>2. CASE h # n + 1
        BY <4>2, <2>1 DEF CapacityTo
      <4> QED BY <4>1, <4>2
    <3>2. f = [h \in 0 .. n + 1 |-> f[h]]
      OBVIOUS
    <3> HIDE DEF f
    <3> QED BY <3>1, <3>2 DEF CapacityTo
  <2> QED BY <2>2
<1>3. Nat \subseteq S
  <2> HIDE DEF S
  <2> QED BY <1>1, <1>2, NatInduct
<1> QED BY <1>3

LEMMA CapacityDef ==
  /\ capacity[0] = 1
  /\ \A h \in 0 .. TREE_DEPTH - 1 : capacity[h + 1] = 2 * capacity[h]
  /\ \A h \in 0 .. TREE_DEPTH : capacity[h] \in Nat \ {0}
  /\ capacity[TREE_DEPTH] >= 2
<1>0. TREE_DEPTH \in Nat \ {0}
  BY TreeDepthAssumption
<1>1. capacity = CHOOSE g : CapacityTo(g, TREE_DEPTH)
  BY DEF capacity, CapacityTo
<1>2. CapacityTo(capacity, TREE_DEPTH)
  BY <1>0, <1>1, CapacityToExist
<1>3. \A h \in 0 .. TREE_DEPTH : capacity[h] = IF h = 0 THEN 1 ELSE 2 * capacity[h - 1]
  BY <1>2 DEF CapacityTo
<1>4. capacity[0] = 1
  BY <1>0, <1>3
<1>5. ASSUME NEW h \in 0 .. TREE_DEPTH - 1
      PROVE  capacity[h + 1] = 2 * capacity[h]
  <2>1. h + 1 \in 0 .. TREE_DEPTH /\ h + 1 # 0 /\ (h + 1) - 1 = h
    BY <1>0
  <2> QED BY <1>3, <2>1
<1>6. \A h \in 0 .. TREE_DEPTH : capacity[h] \in Nat \ {0}
  <2> DEFINE S == {h \in Nat : h <= TREE_DEPTH => capacity[h] \in Nat \ {0}}
  <2>1. 0 \in S
    BY <1>4
  <2>2. ASSUME NEW h \in Nat, h \in S
        PROVE  h + 1 \in S
    <3>1. CASE h + 1 <= TREE_DEPTH
      <4>1. h \in 0 .. TREE_DEPTH - 1 /\ capacity[h] \in Nat \ {0}
        BY <1>0, <2>2, <3>1
      <4>2. capacity[h + 1] = 2 * capacity[h]
        BY <1>5, <4>1
      <4> QED BY <4>1, <4>2
    <3>2. CASE ~(h + 1 <= TREE_DEPTH)
      BY <3>2
    <3> QED BY <3>1, <3>2
  <2>3. Nat \subseteq S
    <3> HIDE DEF S
    <3> QED BY <2>1, <2>2, NatInduct
  <2> QED BY <1>0, <2>3
<1>7. capacity[TREE_DEPTH] >= 2
  <2>1. TREE_DEPTH - 1 \in 0 .. TREE_DEPTH - 1 /\ TREE_DEPTH - 1 \in 0 .. TREE_DEPTH /\ (TREE_DEPTH - 1) + 1 = TREE_DEPTH
    BY <1>0
  <2>2. capacity[TREE_DEPTH] = 2 * capacity[TREE_DEPTH - 1]
    BY <1>5, <2>1
  <2>3. capacity[TREE_DEPTH - 1] \in Nat \ {0}
    BY <1>6, <2>1
  <2> QED BY <2>2, <2>3
<1> QED BY <1>4, <1>5, <1>6, <1>7

\* An index that the tree has room for.
Fits(index) == IndexAt(index)[TREE_DEPTH] = 0

LEMMA CapacityFits == \A index \in 0 .. capacity[TREE_DEPTH] - 1 : Fits(index)
<1> SUFFICES ASSUME NEW index \in 0 .. capacity[TREE_DEPTH] - 1 PROVE Fits(index)
  OBVIOUS
<1> DEFINE at == IndexAt(index)
           T == {l \in Nat : l <= TREE_DEPTH => at[l] < capacity[TREE_DEPTH - l]}
<1>0. TREE_DEPTH \in Nat /\ capacity[TREE_DEPTH] \in Nat
  BY TreeDepthAssumption, CapacityDef
<1>1. /\ at[0] = index
      /\ \A l \in 0 .. TREE_DEPTH - 1 : at[l + 1] = at[l] \div 2
      /\ \A l \in 0 .. TREE_DEPTH : at[l] \in Nat
  BY <1>0, IndexAtDef
<1> HIDE DEF at
<1>2. 0 \in T
  <2>1. TREE_DEPTH - 0 = TREE_DEPTH
    BY <1>0
  <2> QED BY <1>0, <1>1, <2>1
<1>3. ASSUME NEW l \in Nat, l \in T
      PROVE  l + 1 \in T
  <2>1. CASE l + 1 <= TREE_DEPTH
    <3>1. /\ l \in 0 .. TREE_DEPTH - 1 /\ l \in 0 .. TREE_DEPTH
          /\ TREE_DEPTH - (l + 1) \in 0 .. TREE_DEPTH - 1 /\ TREE_DEPTH - (l + 1) \in 0 .. TREE_DEPTH
          /\ (TREE_DEPTH - (l + 1)) + 1 = TREE_DEPTH - l
      BY <1>0, <2>1
    <3>2. at[l] < capacity[TREE_DEPTH - l] /\ at[l] \in Nat /\ at[l + 1] = at[l] \div 2
      BY <1>1, <1>3, <3>1
    <3>3. capacity[TREE_DEPTH - l] = 2 * capacity[TREE_DEPTH - (l + 1)] /\ capacity[TREE_DEPTH - (l + 1)] \in Nat
      BY <3>1, CapacityDef
    <3>4. at[l] \div 2 < capacity[TREE_DEPTH - (l + 1)]
      BY <3>2, <3>3
    <3> QED BY <3>2, <3>4
  <2>2. CASE ~(l + 1 <= TREE_DEPTH)
    BY <2>2
  <2> QED BY <2>1, <2>2
<1>4. Nat \subseteq T
  <2> HIDE DEF T
  <2> QED BY <1>2, <1>3, NatInduct
<1>5. at[TREE_DEPTH] < capacity[0]
  <2>1. TREE_DEPTH - TREE_DEPTH = 0 /\ TREE_DEPTH <= TREE_DEPTH
    BY <1>0
  <2> QED BY <1>0, <1>4, <2>1
<1>6. at[TREE_DEPTH] \in Nat
  BY <1>0, <1>1
<1> QED BY <1>5, <1>6, CapacityDef DEF at, Fits

\* The incremental insertion gives the root of the tree with the new leaf, and a
\* frontier of it.
LEMMA InsertIntoGrows ==
  ASSUME NEW S, NEW leaves \in Seq(S), NEW x \in S,
         NEW frontier, FrontierOf(frontier, leaves), Fits(Len(leaves))
  PROVE  LET t == InsertInto(frontier, Len(leaves), x)
         IN  /\ t = [frontier |-> t.frontier, root |-> t.root]
             /\ t.root = Node(Append(leaves, x), TREE_DEPTH, 0)
             /\ FrontierOf(t.frontier, Append(leaves, x))
<1> DEFINE n == Len(leaves)
           more == Append(leaves, x)
           at == IndexAt(n)
           b == IndexAt(n + 1)
           t == InsertInto(frontier, n, x)
<1>0. TREE_DEPTH \in Nat
  BY TreeDepthAssumption
<1>1. /\ n \in Nat
      /\ IsSequence(leaves) /\ IsSequence(more)
      /\ Len(more) = n + 1
      /\ \A i \in 1 .. n : more[i] = leaves[i]
      /\ more[n + 1] = x
  BY AppendedSequence
<1>2. /\ at[0] = n
      /\ \A l \in 0 .. TREE_DEPTH - 1 : at[l + 1] = at[l] \div 2
      /\ \A l \in 0 .. TREE_DEPTH : at[l] \in Nat
  <2> HIDE DEF n
  <2> QED BY <1>1, IndexAtDef
<1>3. PICK cur :
        /\ IsClimb(cur, frontier, n, x)
        /\ t = [frontier |-> [l \in 1 .. TREE_DEPTH |-> IF at[l - 1] % 2 = 1 THEN frontier[l] ELSE cur[l - 1]],
                root     |-> cur[TREE_DEPTH]]
  <2>1. IsFrontier(frontier)
    BY DEF FrontierOf
  <2> HIDE DEF n
  <2> QED BY <1>1, <2>1, InsertIntoDef
<1>4. \A d \in 0 .. TREE_DEPTH, i \in Nat :
           /\ i < at[d] => Node(more, d, i) = Node(leaves, d, i)
           /\ i > at[d] => Node(more, d, i) = zeros[d]
  BY NodesBesideNewLeaf
<1>5. \A l \in 0 .. TREE_DEPTH - 1 : at[l] % 2 = 1 => frontier[l + 1] = Node(leaves, l, at[l] - 1)
  BY DEF FrontierOf
<1>6. \A l \in 0 .. TREE_DEPTH : b[l] \in {at[l], at[l] + 1}
  <2> HIDE DEF n
  <2> QED BY <1>1, NextIndexAt
<1>7. cur[0] = x
  BY <1>3 DEF IsClimb
<1>8. \A l \in 0 .. TREE_DEPTH - 1 :
        cur[l + 1] = IF at[l] % 2 = 1 THEN HashNode(frontier[l + 1], cur[l]) ELSE HashNode(cur[l], zeros[l])
  BY <1>3 DEF IsClimb
<1>9. at[TREE_DEPTH] = 0
  BY DEF Fits
<1> HIDE DEF n, more, at, b, t
<1>10. \A l \in 0 .. TREE_DEPTH : cur[l] = Node(more, l, at[l])
  <2> DEFINE T == {l \in Nat : l <= TREE_DEPTH => cur[l] = Node(more, l, at[l])}
  <2>1. 0 \in T
    <3>1. Node(more, 0, n) = IF n < n + 1 THEN more[n + 1] ELSE EMPTY_LEAF
      BY <1>1, NodeOfLeaf
    <3>2. n < n + 1
      BY <1>1
    <3> QED BY <1>1, <1>2, <1>7, <3>1, <3>2
  <2>2. ASSUME NEW l \in Nat, l \in T
        PROVE  l + 1 \in T
    <3>1. CASE l + 1 <= TREE_DEPTH
      <4>1. l \in 0 .. TREE_DEPTH - 1 /\ l \in 0 .. TREE_DEPTH /\ cur[l] = Node(more, l, at[l])
        BY <1>0, <2>2, <3>1
      <4>2. at[l + 1] = at[l] \div 2 /\ at[l] \in Nat /\ at[l + 1] \in Nat
        BY <1>2, <4>1
      <4>3. Node(more, l + 1, at[l + 1]) = HashNode(Node(more, l, 2 * at[l + 1]), Node(more, l, 2 * at[l + 1] + 1))
        BY <1>1, <4>1, <4>2, NodeAbove
      <4>4. CASE at[l] % 2 = 1
        <5>1. 2 * at[l + 1] + 1 = at[l] /\ 2 * at[l + 1] = at[l] - 1 /\ at[l] - 1 \in Nat /\ at[l] - 1 < at[l]
          <6>1. at[l] = 2 * (at[l] \div 2) + (at[l] % 2)
            BY <4>2, Halves
          <6>2. at[l] = 2 * at[l + 1] + 1
            BY <4>2, <4>4, <6>1
          <6> QED BY <4>2, <6>2
        <5>2. Node(more, l, at[l] - 1) = Node(leaves, l, at[l] - 1)
          BY <1>4, <4>1, <5>1
        <5>3. cur[l + 1] = HashNode(Node(leaves, l, at[l] - 1), cur[l])
          BY <1>5, <1>8, <4>1, <4>4
        <5>4. cur[l + 1] = Node(more, l + 1, at[l + 1])
          BY <4>1, <4>3, <5>1, <5>2, <5>3
        <5> QED BY <5>4
      <4>5. CASE at[l] % 2 # 1
        <5>1. 2 * at[l + 1] = at[l] /\ 2 * at[l + 1] + 1 \in Nat /\ 2 * at[l + 1] + 1 > at[l]
          BY <4>2, <4>5
        <5>2. Node(more, l, 2 * at[l + 1] + 1) = zeros[l]
          BY <1>4, <4>1, <5>1
        <5>3. cur[l + 1] = HashNode(cur[l], zeros[l])
          BY <1>8, <4>1, <4>5
        <5>4. cur[l + 1] = Node(more, l + 1, at[l + 1])
          BY <4>1, <4>3, <5>1, <5>2, <5>3
        <5> QED BY <5>4
      <4> QED BY <4>4, <4>5
    <3>2. CASE ~(l + 1 <= TREE_DEPTH)
      BY <3>2
    <3> QED BY <3>1, <3>2
  <2>3. Nat \subseteq T
    <3> HIDE DEF T
    <3> QED BY <2>1, <2>2, NatInduct
  <2> QED BY <1>0, <2>3
<1>11. t.root = Node(more, TREE_DEPTH, 0)
  BY <1>0, <1>3, <1>9, <1>10
<1>12. FrontierOf(t.frontier, more)
  <2>1. t.frontier = [l \in 1 .. TREE_DEPTH |-> IF at[l - 1] % 2 = 1 THEN frontier[l] ELSE cur[l - 1]]
    BY <1>3
  <2>2. IsFrontier(t.frontier)
    BY <2>1 DEF IsFrontier
  <2>3. ASSUME NEW l \in 0 .. TREE_DEPTH - 1, b[l] % 2 = 1
        PROVE  t.frontier[l + 1] = Node(more, l, b[l] - 1)
    <3>0. l \in 0 .. TREE_DEPTH /\ l + 1 \in 1 .. TREE_DEPTH /\ (l + 1) - 1 = l /\ at[l] \in Nat
      BY <1>0, <1>2
    <3>1. t.frontier[l + 1] = IF at[l] % 2 = 1 THEN frontier[l + 1] ELSE cur[l]
      BY <2>1, <3>0
    <3>2. CASE at[l] % 2 = 1
      <4>1. b[l] = at[l]
        <5>1. b[l] \in {at[l], at[l] + 1}
          BY <1>6, <3>0
        <5> QED BY <5>1, <2>3, <3>0, <3>2
      <4>2. at[l] - 1 \in Nat /\ at[l] - 1 < at[l]
        BY <3>0, <3>2
      <4> QED BY <1>4, <1>5, <3>0, <3>1, <3>2, <4>1, <4>2
    <3>3. CASE at[l] % 2 # 1
      <4>1. b[l] = at[l] + 1
        <5>1. b[l] \in {at[l], at[l] + 1}
          BY <1>6, <3>0
        <5> QED BY <5>1, <2>3, <3>3
      <4>2. b[l] - 1 = at[l]
        BY <3>0, <4>1
      <4> QED BY <1>10, <3>0, <3>1, <3>3, <4>2
    <3> QED BY <3>2, <3>3
  <2> QED BY <1>1, <2>2, <2>3 DEF FrontierOf, b
<1>13. t = [frontier |-> t.frontier, root |-> t.root]
  BY <1>3
<1> QED BY <1>11, <1>12, <1>13 DEF t, more, n

----------------------------------------------------------------------------
(* Insertions one after another.                                            *)

AfterTo(g, frontier, k, new, n) ==
  g = [j \in 0 .. n |-> IF j = 0 THEN [frontier |-> frontier, root |-> zeros[TREE_DEPTH]]
                                 ELSE InsertInto(g[j - 1].frontier, k + j - 1, new[j])]

LEMMA AfterToExist ==
  ASSUME NEW frontier, NEW k, NEW new
  PROVE  \A n \in Nat : \E g : AfterTo(g, frontier, k, new, n)
<1> DEFINE S == {n \in Nat : \E g : AfterTo(g, frontier, k, new, n)}
           none == [frontier |-> frontier, root |-> zeros[TREE_DEPTH]]
<1>1. 0 \in S
  <2>1. AfterTo([j \in 0 .. 0 |-> none], frontier, k, new, 0)
    BY DEF AfterTo
  <2> QED BY <2>1
<1>2. ASSUME NEW n \in Nat, n \in S
      PROVE  n + 1 \in S
  <2>1. PICK g : AfterTo(g, frontier, k, new, n)
    BY <1>2
  <2> DEFINE h == [j \in 0 .. n + 1 |->
                     IF j = n + 1 THEN InsertInto(g[n].frontier, k + (n + 1) - 1, new[n + 1]) ELSE g[j]]
  <2>2. ASSUME NEW j \in 0 .. n + 1
        PROVE  h[j] = IF j = 0 THEN none ELSE InsertInto(h[j - 1].frontier, k + j - 1, new[j])
    <3>1. CASE j = n + 1
      <4>1. h[j] = InsertInto(g[n].frontier, k + j - 1, new[j]) /\ j # 0
        BY <3>1
      <4>2. h[j - 1] = g[n]
        BY <3>1
      <4> HIDE DEF h
      <4> QED BY <4>1, <4>2
    <3>2. CASE j # n + 1
      <4>1. j \in 0 .. n /\ h[j] = g[j] /\ (j # 0 => h[j - 1] = g[j - 1])
        BY <3>2
      <4>2. g[j] = IF j = 0 THEN none ELSE InsertInto(g[j - 1].frontier, k + j - 1, new[j])
        BY <2>1, <4>1 DEF AfterTo
      <4> HIDE DEF h, none
      <4> QED BY <4>1, <4>2
    <3> QED BY <3>1, <3>2
  <2>3. h = [j \in 0 .. n + 1 |-> h[j]]
    OBVIOUS
  <2>4. AfterTo(h, frontier, k, new, n + 1)
    <3> HIDE DEF h
    <3> QED BY <2>2, <2>3 DEF AfterTo
  <2> QED BY <2>4
<1>3. Nat \subseteq S
  <2> HIDE DEF S
  <2> QED BY <1>1, <1>2, NatInduct
<1> QED BY <1>3

\* The transition's steps.
IsTransition(after, frontier, k, new) ==
  /\ after[0] = [frontier |-> frontier, root |-> zeros[TREE_DEPTH]]
  /\ \A j \in 0 .. Len(new) - 1 : after[j + 1] = InsertInto(after[j].frontier, k + j, new[j + 1])

LEMMA TransitionDef ==
  ASSUME NEW frontier, NEW k \in Nat, NEW new, IsSequence(new)
  PROVE  \E after : /\ IsTransition(after, frontier, k, new)
                    /\ ApplyFrontierTransition(frontier, k, new) = after[Len(new)]
<1> DEFINE after == CHOOSE g : AfterTo(g, frontier, k, new, Len(new))
<1>0. Len(new) \in Nat
  BY DEF IsSequence
<1>1. AfterTo(after, frontier, k, new, Len(new))
  BY <1>0, AfterToExist
<1>2. ApplyFrontierTransition(frontier, k, new) = after[Len(new)]
  BY DEF ApplyFrontierTransition, AfterTo
<1> HIDE DEF after
<1>3. after[0] = [frontier |-> frontier, root |-> zeros[TREE_DEPTH]]
  BY <1>0, <1>1 DEF AfterTo
<1>4. ASSUME NEW j \in 0 .. Len(new) - 1
      PROVE  after[j + 1] = InsertInto(after[j].frontier, k + j, new[j + 1])
  <2>1. j + 1 \in 0 .. Len(new) /\ j + 1 # 0 /\ (j + 1) - 1 = j /\ k + (j + 1) - 1 = k + j
    BY <1>0
  <2>2. after[j + 1] = InsertInto(after[(j + 1) - 1].frontier, k + (j + 1) - 1, new[j + 1])
    BY <1>1, <2>1 DEF AfterTo
  <2> QED BY <2>1, <2>2
<1> QED BY <1>2, <1>3, <1>4 DEF IsTransition

\* What is inserted last is inserted after all the rest.
LEMMA TransitionAppend ==
  ASSUME NEW S, NEW s \in Seq(S), NEW x \in S, NEW frontier, NEW k \in Nat
  PROVE  ApplyFrontierTransition(frontier, k, Append(s, x))
           = InsertInto(ApplyFrontierTransition(frontier, k, s).frontier, k + Len(s), x)
<1> DEFINE n == Len(s)
           more == Append(s, x)
<1>1. /\ n \in Nat
      /\ IsSequence(s) /\ IsSequence(more)
      /\ Len(more) = n + 1
      /\ \A i \in 1 .. n : more[i] = s[i]
      /\ more[n + 1] = x
  BY AppendedSequence
<1>2. PICK a : IsTransition(a, frontier, k, s) /\ ApplyFrontierTransition(frontier, k, s) = a[n]
  BY <1>1, TransitionDef
<1> HIDE DEF more
<1>3. PICK b : IsTransition(b, frontier, k, more) /\ ApplyFrontierTransition(frontier, k, more) = b[n + 1]
  BY <1>1, TransitionDef
<1>4. a[0] = b[0]
  BY <1>2, <1>3 DEF IsTransition
<1>5. \A j \in 0 .. n - 1 : a[j + 1] = InsertInto(a[j].frontier, k + j, s[j + 1])
  BY <1>2 DEF IsTransition
<1>6. \A j \in 0 .. n : b[j + 1] = InsertInto(b[j].frontier, k + j, more[j + 1])
  <2>1. \A j \in 0 .. (n + 1) - 1 : b[j + 1] = InsertInto(b[j].frontier, k + j, more[j + 1])
    BY <1>1, <1>3 DEF IsTransition
  <2> HIDE DEF n
  <2> QED BY <1>1, <2>1
<1> HIDE DEF n
<1>7. \A j \in 0 .. n : a[j] = b[j]
  <2> DEFINE T == {j \in Nat : j <= n => a[j] = b[j]}
  <2>1. 0 \in T
    BY <1>4
  <2>2. ASSUME NEW j \in Nat, j \in T
        PROVE  j + 1 \in T
    <3>1. CASE j + 1 <= n
      <4>1. j \in 0 .. n - 1 /\ j \in 0 .. n /\ a[j] = b[j] /\ j + 1 \in 1 .. n
        BY <1>1, <2>2, <3>1
      <4>2. a[j + 1] = b[j + 1]
        BY <1>1, <1>5, <1>6, <4>1
      <4> QED BY <4>2
    <3>2. CASE ~(j + 1 <= n)
      BY <3>2
    <3> QED BY <3>1, <3>2
  <2>3. Nat \subseteq T
    <3> HIDE DEF T
    <3> QED BY <2>1, <2>2, NatInduct
  <2> QED BY <1>1, <2>3
<1>8. n \in 0 .. n
  BY <1>1
<1>9. a[n] = b[n] /\ b[n + 1] = InsertInto(b[n].frontier, k + n, x)
  BY <1>1, <1>6, <1>7, <1>8
<1> QED BY <1>2, <1>3, <1>9 DEF n, more

LEMMA TransitionOfNone ==
  ASSUME NEW frontier, NEW k \in Nat
  PROVE  ApplyFrontierTransition(frontier, k, << >>) = [frontier |-> frontier, root |-> zeros[TREE_DEPTH]]
<1>1. IsSequence(<< >>) /\ Len(<< >>) = 0
  BY EmptySeq, IsSequenceDef
<1>2. PICK after : /\ IsTransition(after, frontier, k, << >>)
                   /\ ApplyFrontierTransition(frontier, k, << >>) = after[Len(<< >>)]
  BY <1>1, TransitionDef
<1> QED BY <1>1, <1>2 DEF IsTransition

LEMMA TransitionOfOne ==
  ASSUME NEW frontier, NEW k \in Nat, NEW x
  PROVE  ApplyFrontierTransition(frontier, k, <<x>>) = InsertInto(frontier, k, x)
<1>1. << >> \in Seq({x}) /\ Len(<< >>) = 0
  BY EmptySeq
<1>2. <<x>> = Append(<< >>, x)
  OBVIOUS
<1>3. ApplyFrontierTransition(frontier, k, Append(<< >>, x))
        = InsertInto(ApplyFrontierTransition(frontier, k, << >>).frontier, k + Len(<< >>), x)
  BY <1>1, TransitionAppend
<1>4. ApplyFrontierTransition(frontier, k, << >>).frontier = frontier
  BY TransitionOfNone
<1>5. k + Len(<< >>) = k
  BY <1>1
<1> QED BY <1>2, <1>3, <1>4, <1>5

LEMMA TransitionOfTwo ==
  ASSUME NEW frontier, NEW k \in Nat, NEW x, NEW y
  PROVE  ApplyFrontierTransition(frontier, k, <<x, y>>)
           = InsertInto(InsertInto(frontier, k, x).frontier, k + 1, y)
<1>1. <<x>> \in Seq({x, y}) /\ Len(<<x>>) = 1
  OBVIOUS
<1>2. <<x, y>> = Append(<<x>>, y)
  OBVIOUS
<1>3. ApplyFrontierTransition(frontier, k, Append(<<x>>, y))
        = InsertInto(ApplyFrontierTransition(frontier, k, <<x>>).frontier, k + Len(<<x>>), y)
  BY <1>1, TransitionAppend
<1> QED BY <1>1, <1>2, <1>3, TransitionOfOne

----------------------------------------------------------------------------
(* The circuit's transition is the SDK's.                                   *)

NodeOver(x, frontier, index, l) ==
  IF IsRight(index, l - 1) THEN HashNode(frontier[l], x) ELSE HashNode(x, zeros[l - 1])

NodesTo(g, frontier, index, leaf, n) ==
  g = [l \in 0 .. n |-> IF l = 0 THEN leaf ELSE NodeOver(g[l - 1], frontier, index, l)]

LEMMA NodesToExist ==
  ASSUME NEW frontier, NEW index, NEW leaf
  PROVE  \A n \in Nat : \E g : NodesTo(g, frontier, index, leaf, n)
<1> DEFINE S == {n \in Nat : \E g : NodesTo(g, frontier, index, leaf, n)}
<1>1. 0 \in S
  <2>1. NodesTo([l \in 0 .. 0 |-> leaf], frontier, index, leaf, 0)
    BY DEF NodesTo
  <2> QED BY <2>1
<1>2. ASSUME NEW n \in Nat, n \in S
      PROVE  n + 1 \in S
  <2>1. PICK g : NodesTo(g, frontier, index, leaf, n)
    BY <1>2
  <2> DEFINE h == [l \in 0 .. n + 1 |-> IF l = n + 1 THEN NodeOver(g[n], frontier, index, n + 1) ELSE g[l]]
  <2>3. ASSUME NEW l \in 0 .. n + 1
        PROVE  h[l] = IF l = 0 THEN leaf ELSE NodeOver(h[l - 1], frontier, index, l)
    <3>1. CASE l = n + 1
      BY <3>1
    <3>2. CASE l # n + 1
      BY <3>2, <2>1 DEF NodesTo
    <3> QED BY <3>1, <3>2
  <2>4. h = [l \in 0 .. n + 1 |-> h[l]]
    OBVIOUS
  <2>5. NodesTo(h, frontier, index, leaf, n + 1)
    <3> HIDE DEF h
    <3> QED BY <2>3, <2>4 DEF NodesTo
  <2> QED BY <2>5
<1>3. Nat \subseteq S
  <2> HIDE DEF S
  <2> QED BY <1>1, <1>2, NatInduct
<1> QED BY <1>3

LEMMA CircuitNodesDef ==
  ASSUME NEW frontier, NEW index, NEW leaf
  PROVE  IsClimb(CircuitNodes(frontier, index, leaf), frontier, index, leaf)
<1> DEFINE g == CHOOSE f : NodesTo(f, frontier, index, leaf, TREE_DEPTH)
<1>0. TREE_DEPTH \in Nat
  BY TreeDepthAssumption
<1>1. NodesTo(g, frontier, index, leaf, TREE_DEPTH)
  BY <1>0, NodesToExist
<1>2. CircuitNodes(frontier, index, leaf) = g
  BY DEF CircuitNodes, NodesTo, NodeOver
<1> HIDE DEF g
<1>3. g[0] = leaf
  BY <1>0, <1>1 DEF NodesTo
<1>4. ASSUME NEW l \in 0 .. TREE_DEPTH - 1
      PROVE  g[l + 1] = IF IndexAt(index)[l] % 2 = 1 THEN HashNode(frontier[l + 1], g[l])
                                                     ELSE HashNode(g[l], zeros[l])
  <2>1. l + 1 \in 0 .. TREE_DEPTH /\ l + 1 # 0 /\ (l + 1) - 1 = l
    BY <1>0
  <2> QED BY <1>1, <2>1 DEF NodesTo, NodeOver, IsRight
<1> QED BY <1>2, <1>3, <1>4 DEF IsClimb

LEMMA ClimbUnique ==
  ASSUME NEW a, NEW b, NEW frontier, NEW index, NEW leaf,
         IsClimb(a, frontier, index, leaf), IsClimb(b, frontier, index, leaf)
  PROVE  \A l \in 0 .. TREE_DEPTH : a[l] = b[l]
<1> DEFINE T == {l \in Nat : l <= TREE_DEPTH => a[l] = b[l]}
<1>0. TREE_DEPTH \in Nat
  BY TreeDepthAssumption
<1>1. 0 \in T
  BY DEF IsClimb
<1>2. ASSUME NEW l \in Nat, l \in T
      PROVE  l + 1 \in T
  <2>1. CASE l + 1 <= TREE_DEPTH
    <3>1. l \in 0 .. TREE_DEPTH - 1 /\ a[l] = b[l]
      BY <1>0, <1>2, <2>1
    <3>2. a[l + 1] = b[l + 1]
      BY <3>1 DEF IsClimb
    <3> QED BY <3>2
  <2>2. CASE ~(l + 1 <= TREE_DEPTH)
    BY <2>2
  <2> QED BY <2>1, <2>2
<1>3. Nat \subseteq T
  <2> HIDE DEF T
  <2> QED BY <1>1, <1>2, NatInduct
<1> QED BY <1>0, <1>3

\* What the circuit leaves in the frontier after a leaf.
CircuitFrontier(frontier, index, leaf) ==
  [l \in 1 .. TREE_DEPTH |-> IF IsRight(index, l - 1) THEN frontier[l]
                             ELSE CircuitNodes(frontier, index, leaf)[l - 1]]

LEMMA CircuitInsertion ==
  ASSUME NEW frontier, IsFrontier(frontier), NEW index \in Nat, NEW leaf
  PROVE  /\ IsFrontier(CircuitFrontier(frontier, index, leaf))
         /\ InsertInto(frontier, index, leaf)
              = [frontier |-> CircuitFrontier(frontier, index, leaf),
                 root     |-> CircuitNodes(frontier, index, leaf)[TREE_DEPTH]]
<1> DEFINE a == CircuitNodes(frontier, index, leaf)
<1>0. TREE_DEPTH \in Nat
  BY TreeDepthAssumption
<1>1. IsClimb(a, frontier, index, leaf)
  BY CircuitNodesDef
<1>2. CircuitFrontier(frontier, index, leaf)
        = [l \in 1 .. TREE_DEPTH |-> IF IndexAt(index)[l - 1] % 2 = 1 THEN frontier[l] ELSE a[l - 1]]
  BY DEF CircuitFrontier, IsRight
<1> HIDE DEF a
<1>3. PICK cur :
        /\ IsClimb(cur, frontier, index, leaf)
        /\ InsertInto(frontier, index, leaf)
             = [frontier |-> [l \in 1 .. TREE_DEPTH |->
                                IF IndexAt(index)[l - 1] % 2 = 1 THEN frontier[l] ELSE cur[l - 1]],
                root     |-> cur[TREE_DEPTH]]
  BY InsertIntoDef
<1>4. \A l \in 0 .. TREE_DEPTH : cur[l] = a[l]
  BY <1>1, <1>3, ClimbUnique
<1>5. \A l \in 1 .. TREE_DEPTH : l - 1 \in 0 .. TREE_DEPTH
  BY <1>0
<1>6. [l \in 1 .. TREE_DEPTH |-> IF IndexAt(index)[l - 1] % 2 = 1 THEN frontier[l] ELSE cur[l - 1]]
        = [l \in 1 .. TREE_DEPTH |-> IF IndexAt(index)[l - 1] % 2 = 1 THEN frontier[l] ELSE a[l - 1]]
  BY <1>4, <1>5
<1>7. IsFrontier(CircuitFrontier(frontier, index, leaf))
  BY <1>2 DEF IsFrontier
<1>8. cur[TREE_DEPTH] = a[TREE_DEPTH]
  BY <1>0, <1>4
<1> QED BY <1>2, <1>3, <1>6, <1>7, <1>8 DEF a

FrontiersTo(g, frontier, k, new, n) ==
  g = [j \in 0 .. n |-> IF j = 0 THEN frontier ELSE CircuitFrontier(g[j - 1], k + j - 1, new[j])]

LEMMA FrontiersToExist ==
  ASSUME NEW frontier, NEW k, NEW new
  PROVE  \A n \in Nat : \E g : FrontiersTo(g, frontier, k, new, n)
<1> DEFINE S == {n \in Nat : \E g : FrontiersTo(g, frontier, k, new, n)}
<1>1. 0 \in S
  <2>1. FrontiersTo([j \in 0 .. 0 |-> frontier], frontier, k, new, 0)
    BY DEF FrontiersTo
  <2> QED BY <2>1
<1>2. ASSUME NEW n \in Nat, n \in S
      PROVE  n + 1 \in S
  <2>1. PICK g : FrontiersTo(g, frontier, k, new, n)
    BY <1>2
  <2> DEFINE h == [j \in 0 .. n + 1 |-> IF j = n + 1 THEN CircuitFrontier(g[n], k + (n + 1) - 1, new[n + 1]) ELSE g[j]]
  <2>3. ASSUME NEW j \in 0 .. n + 1
        PROVE  h[j] = IF j = 0 THEN frontier ELSE CircuitFrontier(h[j - 1], k + j - 1, new[j])
    <3>1. CASE j = n + 1
      <4>1. h[j] = CircuitFrontier(g[n], k + j - 1, new[j]) /\ j # 0
        BY <3>1
      <4>2. h[j - 1] = g[n]
        BY <3>1
      <4> HIDE DEF h
      <4> QED BY <4>1, <4>2
    <3>2. CASE j # n + 1
      <4>1. j \in 0 .. n /\ h[j] = g[j] /\ (j # 0 => h[j - 1] = g[j - 1])
        BY <3>2
      <4>2. g[j] = IF j = 0 THEN frontier ELSE CircuitFrontier(g[j - 1], k + j - 1, new[j])
        BY <2>1, <4>1 DEF FrontiersTo
      <4> HIDE DEF h
      <4> QED BY <4>1, <4>2
    <3> QED BY <3>1, <3>2
  <2>4. h = [j \in 0 .. n + 1 |-> h[j]]
    OBVIOUS
  <2>5. FrontiersTo(h, frontier, k, new, n + 1)
    <3> HIDE DEF h
    <3> QED BY <2>3, <2>4 DEF FrontiersTo
  <2> QED BY <2>5
<1>3. Nat \subseteq S
  <2> HIDE DEF S
  <2> QED BY <1>1, <1>2, NatInduct
<1> QED BY <1>3

\* The constraints of FrontierTransition (merkle.circom) compute what the builders'
\* applyFrontierTransition does, at every index and for every frontier.
LEMMA CircuitIsBuilder ==
  ASSUME NEW frontier, IsFrontier(frontier), NEW k \in Nat, NEW new, IsSequence(new), Len(new) # 0
  PROVE  CircuitTransition(frontier, new, k) = ApplyFrontierTransition(frontier, k, new)
<1> DEFINE n == Len(new)
           fr == CHOOSE g : FrontiersTo(g, frontier, k, new, n)
           last == CircuitNodes(fr[n - 1], k + n - 1, new[n])[TREE_DEPTH]
<1>0. n \in Nat /\ n >= 1
  BY DEF IsSequence
<1>1. FrontiersTo(fr, frontier, k, new, n)
  <2> HIDE DEF n
  <2> QED BY <1>0, FrontiersToExist
<1>2. CircuitTransition(frontier, new, k) = [frontier |-> fr[n], root |-> last]
  BY DEF CircuitTransition, FrontiersTo, CircuitFrontier
<1>3. PICK after : IsTransition(after, frontier, k, new) /\ ApplyFrontierTransition(frontier, k, new) = after[n]
  BY TransitionDef
<1>4. /\ after[0].frontier = frontier
      /\ \A j \in 0 .. n - 1 : after[j + 1] = InsertInto(after[j].frontier, k + j, new[j + 1])
  BY <1>3 DEF IsTransition
<1> HIDE DEF fr, n
<1>5. fr[0] = frontier /\ \A j \in 0 .. n - 1 : fr[j + 1] = CircuitFrontier(fr[j], k + j, new[j + 1])
  <2>1. fr[0] = frontier
    BY <1>0, <1>1 DEF FrontiersTo
  <2>2. ASSUME NEW j \in 0 .. n - 1
        PROVE  fr[j + 1] = CircuitFrontier(fr[j], k + j, new[j + 1])
    <3>1. j + 1 \in 0 .. n /\ j + 1 # 0 /\ (j + 1) - 1 = j /\ k + (j + 1) - 1 = k + j
      BY <1>0
    <3>2. fr[j + 1] = CircuitFrontier(fr[(j + 1) - 1], k + (j + 1) - 1, new[j + 1])
      BY <1>1, <3>1 DEF FrontiersTo
    <3> QED BY <3>1, <3>2
  <2> QED BY <2>1, <2>2
<1> DEFINE Q(j) == IsFrontier(fr[j]) /\ after[j].frontier = fr[j]
           T == {j \in Nat : j <= n => Q(j)}
<1>6. 0 \in T
  BY <1>4, <1>5
<1>7. ASSUME NEW j \in Nat, j \in T
      PROVE  j + 1 \in T
  <2>1. CASE j + 1 <= n
    <3>1. j \in 0 .. n - 1 /\ Q(j) /\ k + j \in Nat
      BY <1>0, <1>7, <2>1
    <3>2. /\ IsFrontier(CircuitFrontier(fr[j], k + j, new[j + 1]))
          /\ InsertInto(fr[j], k + j, new[j + 1])
               = [frontier |-> CircuitFrontier(fr[j], k + j, new[j + 1]),
                  root     |-> CircuitNodes(fr[j], k + j, new[j + 1])[TREE_DEPTH]]
      BY <3>1, CircuitInsertion
    <3>3. Q(j + 1)
      BY <1>4, <1>5, <3>1, <3>2
    <3> QED BY <3>3
  <2>2. CASE ~(j + 1 <= n)
    BY <2>2
  <2> QED BY <2>1, <2>2
<1>8. Nat \subseteq T
  <2> HIDE DEF T
  <2> QED BY <1>6, <1>7, NatInduct
<1>9. n - 1 \in 0 .. n - 1 /\ n - 1 \in Nat /\ (n - 1) + 1 = n /\ k + (n - 1) = k + n - 1 /\ k + (n - 1) \in Nat
  BY <1>0
<1>10. IsFrontier(fr[n - 1]) /\ after[n - 1].frontier = fr[n - 1]
  <2>1. n - 1 \in T /\ n - 1 <= n
    BY <1>0, <1>8, <1>9
  <2> QED BY <2>1
<1>11. InsertInto(fr[n - 1], k + (n - 1), new[n])
         = [frontier |-> CircuitFrontier(fr[n - 1], k + (n - 1), new[n]),
            root     |-> CircuitNodes(fr[n - 1], k + (n - 1), new[n])[TREE_DEPTH]]
  BY <1>9, <1>10, CircuitInsertion
<1>12. after[n] = InsertInto(fr[n - 1], k + (n - 1), new[n]) /\ fr[n] = CircuitFrontier(fr[n - 1], k + (n - 1), new[n])
  BY <1>4, <1>5, <1>9, <1>10
<1> HIDE DEF T, Q
<1> QED BY <1>2, <1>3, <1>9, <1>11, <1>12 DEF n

----------------------------------------------------------------------------
(* Replay.                                                                  *)

LEMMA EmptyFrontierDef == EmptyFrontier(TREE_DEPTH) = [l \in 1 .. TREE_DEPTH |-> zeros[l - 1]]
<1> DEFINE z == emptyTreeZeros(TREE_DEPTH)
           Z == {zeros[i] : i \in Nat}
<1>0. TREE_DEPTH \in Nat /\ TREE_DEPTH >= 1
  BY TreeDepthAssumption
<1>1. \A i \in 1 .. TREE_DEPTH : z[i] = zeros[i - 1]
  <2>1. \A i \in 1 .. TREE_DEPTH : i \in 1 .. TREE_DEPTH + 1
    BY <1>0
  <2> QED BY <2>1 DEF emptyTreeZeros
<1>2. \A i \in 1 .. TREE_DEPTH : z[i] \in Z
  <2>1. \A i \in 1 .. TREE_DEPTH : i - 1 \in Nat
    BY <1>0
  <2> HIDE DEF z
  <2> QED BY <1>1, <2>1
<1> HIDE DEF z, Z
<1>3. /\ SubSeq(z, 1, TREE_DEPTH) \in Seq(Z)
      /\ Len(SubSeq(z, 1, TREE_DEPTH)) = IF 1 <= TREE_DEPTH THEN TREE_DEPTH - 1 + 1 ELSE 0
      /\ \A i \in 1 .. TREE_DEPTH - 1 + 1 : SubSeq(z, 1, TREE_DEPTH)[i] = z[1 + i - 1]
  BY <1>0, <1>2, SubSeqProperties
<1>4. Len(SubSeq(z, 1, TREE_DEPTH)) = TREE_DEPTH
  BY <1>0, <1>3
<1>5. \A i \in 1 .. TREE_DEPTH : SubSeq(z, 1, TREE_DEPTH)[i] = z[i]
  <2>1. \A i \in 1 .. TREE_DEPTH : i \in 1 .. TREE_DEPTH - 1 + 1 /\ 1 + i - 1 = i
    BY <1>0
  <2> QED BY <1>3, <2>1
<1>6. SubSeq(z, 1, TREE_DEPTH) \in [1 .. TREE_DEPTH -> Z]
  BY <1>3, <1>4, LenProperties
<1>7. SubSeq(z, 1, TREE_DEPTH) = [l \in 1 .. TREE_DEPTH |-> zeros[l - 1]]
  BY <1>1, <1>5, <1>6
<1> QED BY <1>7 DEF EmptyFrontier, z

LEMMA IndexAtZero == \A l \in 0 .. TREE_DEPTH : IndexAt(0)[l] = 0
<1> DEFINE at == IndexAt(0)
           T == {l \in Nat : l <= TREE_DEPTH => at[l] = 0}
<1>0. TREE_DEPTH \in Nat
  BY TreeDepthAssumption
<1>1. at[0] = 0 /\ \A l \in 0 .. TREE_DEPTH - 1 : at[l + 1] = at[l] \div 2
  BY IndexAtDef
<1> HIDE DEF at
<1>2. 0 \in T
  BY <1>1
<1>3. ASSUME NEW l \in Nat, l \in T
      PROVE  l + 1 \in T
  <2>1. CASE l + 1 <= TREE_DEPTH
    <3>1. l \in 0 .. TREE_DEPTH - 1 /\ at[l] = 0
      BY <1>0, <1>3, <2>1
    <3>2. at[l + 1] = 0
      BY <1>1, <3>1
    <3> QED BY <3>2
  <2>2. CASE ~(l + 1 <= TREE_DEPTH)
    BY <2>2
  <2> QED BY <2>1, <2>2
<1>4. Nat \subseteq T
  <2> HIDE DEF T
  <2> QED BY <1>2, <1>3, NatInduct
<1> QED BY <1>0, <1>4 DEF at

LEMMA NodesOfNone == \A d \in 0 .. TREE_DEPTH, i \in Nat : Node(<< >>, d, i) = zeros[d]
<1> DEFINE T == {d \in Nat : d <= TREE_DEPTH => \A i \in Nat : Node(<< >>, d, i) = zeros[d]}
<1>0. TREE_DEPTH \in Nat
  BY TreeDepthAssumption
<1>1. IsSequence(<< >>) /\ Len(<< >>) = 0
  BY EmptySeq, IsSequenceDef
<1>2. 0 \in T
  <2>1. ASSUME NEW i \in Nat
        PROVE  Node(<< >>, 0, i) = zeros[0]
    <3>1. Node(<< >>, 0, i) = IF i < Len(<< >>) THEN << >>[i + 1] ELSE EMPTY_LEAF
      BY <1>1, NodeOfLeaf
    <3>2. ~(i < Len(<< >>))
      BY <1>1
    <3> QED BY <3>1, <3>2, ZerosDef
  <2> QED BY <2>1
<1>3. ASSUME NEW d \in Nat, d \in T
      PROVE  d + 1 \in T
  <2>1. CASE d + 1 <= TREE_DEPTH
    <3>1. d \in 0 .. TREE_DEPTH - 1 /\ \A i \in Nat : Node(<< >>, d, i) = zeros[d]
      BY <1>0, <1>3, <2>1
    <3>2. ASSUME NEW i \in Nat
          PROVE  Node(<< >>, d + 1, i) = zeros[d + 1]
      <4>1. 2 * i \in Nat /\ 2 * i + 1 \in Nat
        OBVIOUS
      <4>2. Node(<< >>, d + 1, i) = HashNode(Node(<< >>, d, 2 * i), Node(<< >>, d, 2 * i + 1))
        BY <1>1, <3>1, NodeAbove
      <4>3. zeros[d + 1] = HashNode(zeros[d], zeros[d])
        BY ZerosDef
      <4> QED BY <3>1, <4>1, <4>2, <4>3
    <3> QED BY <3>2
  <2>2. CASE ~(d + 1 <= TREE_DEPTH)
    BY <2>2
  <2> QED BY <2>1, <2>2
<1>4. Nat \subseteq T
  <2> HIDE DEF T
  <2> QED BY <1>2, <1>3, NatInduct
<1> QED BY <1>0, <1>4

\* The replay of one leaf more inserts it into what the replay of the others left.
LEMMA ReplayAppend ==
  ASSUME NEW S, NEW s \in Seq(S), NEW x \in S
  PROVE  Replay(Append(s, x)) = InsertInto(Replay(s).frontier, Len(s), x)
<1>1. Len(s) \in Nat
  BY LenProperties
<1>2. 0 + Len(s) = Len(s)
  BY <1>1
<1>3. ApplyFrontierTransition(EmptyFrontier(TREE_DEPTH), 0, Append(s, x))
        = InsertInto(ApplyFrontierTransition(EmptyFrontier(TREE_DEPTH), 0, s).frontier, 0 + Len(s), x)
  BY TransitionAppend
<1> QED BY <1>2, <1>3 DEF Replay

\* Insertions are those of the replay when they start from what a replay left.
LEMMA ReplayOneMore ==
  ASSUME NEW S, NEW s \in Seq(S), NEW x \in S
  PROVE  ApplyFrontierTransition(Replay(s).frontier, Len(s), <<x>>) = Replay(Append(s, x))
<1>1. Len(s) \in Nat
  BY LenProperties
<1> QED BY <1>1, ReplayAppend, TransitionOfOne

LEMMA ReplayTwoMore ==
  ASSUME NEW S, NEW s \in Seq(S), NEW x \in S, NEW y \in S
  PROVE  ApplyFrontierTransition(Replay(s).frontier, Len(s), <<x, y>>) = Replay(Append(Append(s, x), y))
<1>1. Len(s) \in Nat
  BY LenProperties
<1>2. Append(s, x) \in Seq(S) /\ Len(Append(s, x)) = Len(s) + 1
  BY AppendProperties
<1>3. Replay(Append(s, x)) = InsertInto(Replay(s).frontier, Len(s), x)
  BY ReplayAppend
<1>4. Replay(Append(Append(s, x), y)) = InsertInto(Replay(Append(s, x)).frontier, Len(Append(s, x)), y)
  BY <1>2, ReplayAppend
<1>5. ApplyFrontierTransition(Replay(s).frontier, Len(s), <<x, y>>)
        = InsertInto(InsertInto(Replay(s).frontier, Len(s), x).frontier, Len(s) + 1, y)
  BY <1>1, TransitionOfTwo
<1> QED BY <1>2, <1>3, <1>4, <1>5

\* The root that a replay gives is that of the tree of all leaves, and what it
\* leaves is a frontier of them (IncrementalMerkleTree.insert, root, frontier).
LEMMA ReplayIsTree ==
  ASSUME NEW S, NEW leaves \in Seq(S), \A i \in 0 .. Len(leaves) - 1 : Fits(i)
  PROVE  /\ Replay(leaves) = [frontier |-> Replay(leaves).frontier, root |-> Replay(leaves).root]
         /\ Replay(leaves).root = Node(leaves, TREE_DEPTH, 0)
         /\ FrontierOf(Replay(leaves).frontier, leaves)
<1> DEFINE n == Len(leaves)
           first(j) == SubSeq(leaves, 1, j)
           Q(s) == /\ Replay(s) = [frontier |-> Replay(s).frontier, root |-> Replay(s).root]
                   /\ Replay(s).root = Node(s, TREE_DEPTH, 0)
                   /\ FrontierOf(Replay(s).frontier, s)
           T == {j \in Nat : j <= n => Q(first(j))}
<1>0. TREE_DEPTH \in Nat /\ n \in Nat /\ TREE_DEPTH \in 0 .. TREE_DEPTH
  BY TreeDepthAssumption, LenProperties
<1>1. Q(<< >>)
  <2>1. Replay(<< >>) = [frontier |-> EmptyFrontier(TREE_DEPTH), root |-> zeros[TREE_DEPTH]]
    BY TransitionOfNone DEF Replay
  <2>2. Node(<< >>, TREE_DEPTH, 0) = zeros[TREE_DEPTH]
    BY <1>0, NodesOfNone
  <2>3. IsFrontier(EmptyFrontier(TREE_DEPTH))
    BY EmptyFrontierDef DEF IsFrontier
  <2>4. \A l \in 0 .. TREE_DEPTH - 1 : l \in 0 .. TREE_DEPTH
    BY <1>0
  <2>5. \A l \in 0 .. TREE_DEPTH - 1 : IndexAt(Len(<< >>))[l] % 2 # 1
    BY <2>4, IndexAtZero, EmptySeq
  <2>6. FrontierOf(EmptyFrontier(TREE_DEPTH), << >>)
    BY <2>3, <2>5 DEF FrontierOf
  <2> QED BY <2>1, <2>2, <2>6
<1>2. 0 \in T
  <2>1. first(0) = << >>
    BY SubSeqEmpty
  <2> QED BY <1>1, <2>1
<1>3. ASSUME NEW j \in Nat, j \in T
      PROVE  j + 1 \in T
  <2>1. CASE j + 1 <= n
    <3>1. j \in 0 .. n - 1 /\ j + 1 \in 1 .. n
      BY <1>0, <2>1
    <3>2. Q(first(j)) /\ Fits(j)
      BY <1>0, <1>3, <3>1
    <3>3. first(j) \in Seq(S) /\ Len(first(j)) = j /\ leaves[j + 1] \in S
      BY <3>1, PrefixAppend
    <3>4. first(j + 1) = Append(first(j), leaves[j + 1])
      BY <3>1, PrefixAppend
    <3> HIDE DEF first
    <3>5. Replay(first(j + 1)) = InsertInto(Replay(first(j)).frontier, j, leaves[j + 1])
      BY <3>3, <3>4, ReplayAppend
    <3>6. LET t == InsertInto(Replay(first(j)).frontier, j, leaves[j + 1])
          IN  /\ t = [frontier |-> t.frontier, root |-> t.root]
              /\ t.root = Node(Append(first(j), leaves[j + 1]), TREE_DEPTH, 0)
              /\ FrontierOf(t.frontier, Append(first(j), leaves[j + 1]))
      <4>1. FrontierOf(Replay(first(j)).frontier, first(j))
        BY <3>2
      <4> QED BY <3>2, <3>3, <4>1, InsertIntoGrows
    <3>7. Q(first(j + 1))
      BY <3>4, <3>5, <3>6
    <3> HIDE DEF Q
    <3> QED BY <3>7
  <2>2. CASE ~(j + 1 <= n)
    BY <2>2
  <2> QED BY <2>1, <2>2
<1>4. Nat \subseteq T
  <2> HIDE DEF T
  <2> QED BY <1>2, <1>3, NatInduct
<1>5. first(n) = leaves
  BY SubSeqFull
<1>6. Q(first(n))
  <2> HIDE DEF Q, first, n
  <2> QED BY <1>0, <1>4
<1> HIDE DEF first
<1> QED BY <1>5, <1>6

----------------------------------------------------------------------------
(* Inclusion paths.                                                         *)

Hashed(node, path, d) ==
  IF path.pathBits[d] = 0 THEN HashNode(node, path.siblings[d]) ELSE HashNode(path.siblings[d], node)

OpenTo(g, leaf, path, n) == g = [d \in 0 .. n |-> IF d = 0 THEN leaf ELSE Hashed(g[d - 1], path, d)]

LEMMA OpenToExist ==
  ASSUME NEW leaf, NEW path
  PROVE  \A n \in Nat : \E g : OpenTo(g, leaf, path, n)
<1> DEFINE S == {n \in Nat : \E g : OpenTo(g, leaf, path, n)}
<1>1. 0 \in S
  <2>1. OpenTo([d \in 0 .. 0 |-> leaf], leaf, path, 0)
    BY DEF OpenTo
  <2> QED BY <2>1
<1>2. ASSUME NEW n \in Nat, n \in S
      PROVE  n + 1 \in S
  <2>1. PICK g : OpenTo(g, leaf, path, n)
    BY <1>2
  <2> DEFINE h == [d \in 0 .. n + 1 |-> IF d = n + 1 THEN Hashed(g[n], path, n + 1) ELSE g[d]]
  <2>2. ASSUME NEW d \in 0 .. n + 1
        PROVE  h[d] = IF d = 0 THEN leaf ELSE Hashed(h[d - 1], path, d)
    <3>1. CASE d = n + 1
      BY <3>1
    <3>2. CASE d # n + 1
      BY <3>2, <2>1 DEF OpenTo
    <3> QED BY <3>1, <3>2
  <2>3. h = [d \in 0 .. n + 1 |-> h[d]]
    OBVIOUS
  <2>4. OpenTo(h, leaf, path, n + 1)
    <3> HIDE DEF h
    <3> QED BY <2>2, <2>3 DEF OpenTo
  <2> QED BY <2>4
<1>3. Nat \subseteq S
  <2> HIDE DEF S
  <2> QED BY <1>1, <1>2, NatInduct
<1> QED BY <1>3

\* The nodes that a path leads through from a leaf.
IsOpening(cur, leaf, path) ==
  /\ cur[0] = leaf
  /\ \A d \in 0 .. TREE_DEPTH - 1 : cur[d + 1] = Hashed(cur[d], path, d + 1)

LEMMA VerifyInclusionPathDef ==
  ASSUME NEW leaf, NEW path
  PROVE  \E cur : /\ IsOpening(cur, leaf, path)
                  /\ \A root : VerifyInclusionPath(leaf, path, root) <=> root = cur[TREE_DEPTH]
<1> DEFINE cur == CHOOSE c : OpenTo(c, leaf, path, TREE_DEPTH)
<1>0. TREE_DEPTH \in Nat
  BY TreeDepthAssumption
<1>1. OpenTo(cur, leaf, path, TREE_DEPTH)
  BY <1>0, OpenToExist
<1>2. \A root : VerifyInclusionPath(leaf, path, root) <=> root = cur[TREE_DEPTH]
  BY DEF VerifyInclusionPath, OpenTo, Hashed
<1> HIDE DEF cur
<1>3. cur[0] = leaf
  BY <1>0, <1>1 DEF OpenTo
<1>4. ASSUME NEW d \in 0 .. TREE_DEPTH - 1
      PROVE  cur[d + 1] = Hashed(cur[d], path, d + 1)
  <2>1. d + 1 \in 0 .. TREE_DEPTH /\ d + 1 # 0 /\ (d + 1) - 1 = d
    BY <1>0
  <2> QED BY <1>1, <2>1 DEF OpenTo
<1> QED BY <1>2, <1>3, <1>4 DEF IsOpening

\* A path opens one leaf at most under a root (verifyInclusionPath, MerkleInclusion).
LEMMA PathOpensOne ==
  ASSUME NEW x, NEW y, NEW path, NEW root,
         VerifyInclusionPath(x, path, root), VerifyInclusionPath(y, path, root)
  PROVE  x = y
<1>0. TREE_DEPTH \in Nat
  BY TreeDepthAssumption
<1>1. PICK a : IsOpening(a, x, path) /\ root = a[TREE_DEPTH]
  BY VerifyInclusionPathDef
<1>2. PICK b : IsOpening(b, y, path) /\ root = b[TREE_DEPTH]
  BY VerifyInclusionPathDef
<1> DEFINE T == {k \in Nat : k <= TREE_DEPTH => a[TREE_DEPTH - k] = b[TREE_DEPTH - k]}
<1>3. 0 \in T
  <2>1. TREE_DEPTH - 0 = TREE_DEPTH
    BY <1>0
  <2> QED BY <1>1, <1>2, <2>1
<1>4. ASSUME NEW k \in Nat, k \in T
      PROVE  k + 1 \in T
  <2>1. CASE k + 1 <= TREE_DEPTH
    <3> DEFINE d == TREE_DEPTH - (k + 1)
    <3>1. d \in 0 .. TREE_DEPTH - 1 /\ d + 1 = TREE_DEPTH - k /\ k <= TREE_DEPTH
      BY <1>0, <2>1
    <3>2. a[d + 1] = b[d + 1]
      BY <1>4, <3>1
    <3> HIDE DEF d
    <3>3. a[d + 1] = Hashed(a[d], path, d + 1) /\ b[d + 1] = Hashed(b[d], path, d + 1)
      BY <1>1, <1>2, <3>1 DEF IsOpening
    <3>4. a[d] = b[d]
      <4>1. CASE path.pathBits[d + 1] = 0
        <5>1. HashNode(a[d], path.siblings[d + 1]) = HashNode(b[d], path.siblings[d + 1])
          BY <3>2, <3>3, <4>1 DEF Hashed
        <5> QED BY <5>1 DEF HashNode
      <4>2. CASE path.pathBits[d + 1] # 0
        <5>1. HashNode(path.siblings[d + 1], a[d]) = HashNode(path.siblings[d + 1], b[d])
          BY <3>2, <3>3, <4>2 DEF Hashed
        <5> QED BY <5>1 DEF HashNode
      <4> QED BY <4>1, <4>2
    <3> QED BY <3>4 DEF d
  <2>2. CASE ~(k + 1 <= TREE_DEPTH)
    BY <2>2
  <2> QED BY <2>1, <2>2
<1>5. Nat \subseteq T
  <2> HIDE DEF T
  <2> QED BY <1>3, <1>4, NatInduct
<1>6. a[0] = b[0]
  <2>1. TREE_DEPTH \in T
    BY <1>0, <1>5
  <2>2. TREE_DEPTH - TREE_DEPTH = 0 /\ TREE_DEPTH <= TREE_DEPTH
    BY <1>0
  <2> QED BY <2>1, <2>2
<1> QED BY <1>1, <1>2, <1>6 DEF IsOpening

\* Whatever opens under the root of a tree is a leaf of it, whoever made the path.
LEMMA PathSound ==
  ASSUME NEW leaves, IsSequence(leaves), NEW x, NEW path,
         VerifyInclusionPath(x, path, Node(leaves, TREE_DEPTH, 0))
  PROVE  \E i \in Nat : x = Node(leaves, 0, i)
<1>0. TREE_DEPTH \in Nat
  BY TreeDepthAssumption
<1>1. PICK a : IsOpening(a, x, path) /\ Node(leaves, TREE_DEPTH, 0) = a[TREE_DEPTH]
  BY VerifyInclusionPathDef
<1> DEFINE Q(d) == \E i \in Nat : a[d] = Node(leaves, d, i)
           T == {k \in Nat : k <= TREE_DEPTH => Q(TREE_DEPTH - k)}
<1>2. 0 \in T
  BY <1>0, <1>1
<1>3. ASSUME NEW k \in Nat, k \in T
      PROVE  k + 1 \in T
  <2>1. CASE k + 1 <= TREE_DEPTH
    <3> DEFINE d == TREE_DEPTH - (k + 1)
    <3>1. d \in 0 .. TREE_DEPTH - 1 /\ d + 1 = TREE_DEPTH - k /\ k <= TREE_DEPTH
      BY <1>0, <2>1
    <3>2. Q(d + 1)
      <4> HIDE DEF Q, d
      <4> QED BY <1>3, <3>1
    <3> HIDE DEF d
    <3>3. PICK i \in Nat : a[d + 1] = Node(leaves, d + 1, i)
      BY <3>2
    <3>4. 2 * i \in Nat /\ 2 * i + 1 \in Nat
      OBVIOUS
    <3>5. a[d + 1] = Hashed(a[d], path, d + 1)
      BY <1>1, <3>1 DEF IsOpening
    <3>6. Node(leaves, d + 1, i) = HashNode(Node(leaves, d, 2 * i), Node(leaves, d, 2 * i + 1))
      BY <3>1, NodeAbove
    <3>7. a[d] = Node(leaves, d, 2 * i) \/ a[d] = Node(leaves, d, 2 * i + 1)
      BY <3>3, <3>5, <3>6 DEF Hashed, HashNode
    <3>8. Q(d)
      BY <3>4, <3>7
    <3> QED BY <3>8 DEF d
  <2>2. CASE ~(k + 1 <= TREE_DEPTH)
    BY <2>2
  <2> QED BY <2>1, <2>2
<1>4. Nat \subseteq T
  <2> HIDE DEF T
  <2> QED BY <1>2, <1>3, NatInduct
<1>5. Q(0)
  <2>1. TREE_DEPTH \in T
    BY <1>0, <1>4
  <2>2. TREE_DEPTH - TREE_DEPTH = 0 /\ TREE_DEPTH <= TREE_DEPTH
    BY <1>0
  <2> QED BY <2>1, <2>2
<1> QED BY <1>1, <1>5 DEF IsOpening

\* The path that the SDK computes for a leaf opens it (inclusionPath).
LEMMA PathComplete ==
  ASSUME NEW leaves, IsSequence(leaves), NEW index \in Nat, Fits(index)
  PROVE  VerifyInclusionPath(Node(leaves, 0, index), InclusionPath(leaves, index), Node(leaves, TREE_DEPTH, 0))
<1> DEFINE at == IndexAt(index)
           path == InclusionPath(leaves, index)
<1>0. TREE_DEPTH \in Nat
  BY TreeDepthAssumption
<1>1. /\ at[0] = index
      /\ \A l \in 0 .. TREE_DEPTH - 1 : at[l + 1] = at[l] \div 2
      /\ \A l \in 0 .. TREE_DEPTH : at[l] \in Nat
  BY IndexAtDef
<1>2. at[TREE_DEPTH] = 0
  BY DEF Fits
<1>3. ASSUME NEW d \in 0 .. TREE_DEPTH - 1
      PROVE  /\ path.pathBits[d + 1] = at[d] % 2
             /\ path.siblings[d + 1] = Node(leaves, d, IF at[d] % 2 = 1 THEN at[d] - 1 ELSE at[d] + 1)
  <2>1. d + 1 \in 1 .. TREE_DEPTH /\ (d + 1) - 1 = d
    BY <1>0
  <2> HIDE DEF at
  <2> QED BY <2>1 DEF InclusionPath, Node, at
<1> HIDE DEF at, path
<1>4. PICK cur : /\ IsOpening(cur, Node(leaves, 0, index), path)
                 /\ \A root : VerifyInclusionPath(Node(leaves, 0, index), path, root) <=> root = cur[TREE_DEPTH]
  BY VerifyInclusionPathDef
<1> DEFINE T == {d \in Nat : d <= TREE_DEPTH => cur[d] = Node(leaves, d, at[d])}
<1>5. 0 \in T
  BY <1>1, <1>4 DEF IsOpening
<1>6. ASSUME NEW d \in Nat, d \in T
      PROVE  d + 1 \in T
  <2>1. CASE d + 1 <= TREE_DEPTH
    <3>1. d \in 0 .. TREE_DEPTH - 1 /\ d \in 0 .. TREE_DEPTH /\ cur[d] = Node(leaves, d, at[d])
      BY <1>0, <1>6, <2>1
    <3>2. at[d + 1] = at[d] \div 2 /\ at[d] \in Nat /\ at[d + 1] \in Nat
      <4>1. d + 1 \in 0 .. TREE_DEPTH
        BY <1>0, <2>1
      <4> QED BY <1>1, <3>1, <4>1
    <3>3. Node(leaves, d + 1, at[d + 1]) = HashNode(Node(leaves, d, 2 * at[d + 1]), Node(leaves, d, 2 * at[d + 1] + 1))
      BY <3>1, <3>2, NodeAbove
    <3>4. at[d] % 2 \in {0, 1} /\ at[d] = 2 * at[d + 1] + (at[d] % 2)
      BY <3>2, Halves
    <3>5. cur[d + 1] = Hashed(cur[d], path, d + 1)
      BY <1>4, <3>1 DEF IsOpening
    <3>6. CASE at[d] % 2 = 1
      <4>1. at[d] = 2 * at[d + 1] + 1 /\ at[d] - 1 = 2 * at[d + 1]
        BY <3>2, <3>4, <3>6
      <4>2. cur[d + 1] = HashNode(Node(leaves, d, at[d] - 1), cur[d])
        BY <1>3, <3>1, <3>5, <3>6 DEF Hashed
      <4>3. cur[d + 1] = Node(leaves, d + 1, at[d + 1])
        BY <3>1, <3>3, <4>1, <4>2
      <4> QED BY <4>3
    <3>7. CASE at[d] % 2 = 0
      <4>1. at[d] = 2 * at[d + 1] /\ at[d] + 1 = 2 * at[d + 1] + 1
        BY <3>2, <3>4, <3>7
      <4>2. cur[d + 1] = HashNode(cur[d], Node(leaves, d, at[d] + 1))
        BY <1>3, <3>1, <3>5, <3>7 DEF Hashed
      <4>3. cur[d + 1] = Node(leaves, d + 1, at[d + 1])
        BY <3>1, <3>3, <4>1, <4>2
      <4> QED BY <4>3
    <3> QED BY <3>4, <3>6, <3>7
  <2>2. CASE ~(d + 1 <= TREE_DEPTH)
    BY <2>2
  <2> QED BY <2>1, <2>2
<1>7. Nat \subseteq T
  <2> HIDE DEF T
  <2> QED BY <1>5, <1>6, NatInduct
<1>8. cur[TREE_DEPTH] = Node(leaves, TREE_DEPTH, 0)
  BY <1>0, <1>2, <1>7
<1> QED BY <1>4, <1>8 DEF path

----------------------------------------------------------------------------
(* The frozen tree.                                                         *)

Ascending(s, n) == \A i, j \in 1 .. n : i < j => s[i] < s[j]

\* A finite set of numbers can be put in order.
LEMMA AscendingExists ==
  ASSUME NEW k \in Nat, NEW T \in SUBSET (0 .. k - 1)
  PROVE  /\ IsFiniteSet(T) /\ Cardinality(T) \in Nat
         /\ \E s \in [1 .. Cardinality(T) -> T] : Ascending(s, Cardinality(T))
<1> DEFINE Q(c) == \A U \in SUBSET (0 .. c - 1) :
                      /\ IsFiniteSet(U) /\ Cardinality(U) \in Nat
                      /\ \E s \in [1 .. Cardinality(U) -> U] : Ascending(s, Cardinality(U))
           N == {c \in Nat : Q(c)}
<1>1. 0 \in N
  <2> SUFFICES ASSUME NEW U \in SUBSET (0 .. 0 - 1)
               PROVE  /\ IsFiniteSet(U) /\ Cardinality(U) \in Nat
                      /\ \E s \in [1 .. Cardinality(U) -> U] : Ascending(s, Cardinality(U))
    OBVIOUS
  <2>1. U = {}
    OBVIOUS
  <2>2. IsFiniteSet(U) /\ Cardinality(U) = 0
    BY <2>1, FS_EmptySet
  <2>3. [i \in 1 .. 0 |-> 0] \in [1 .. 0 -> U]
    OBVIOUS
  <2>4. Ascending([i \in 1 .. 0 |-> 0], 0)
    BY DEF Ascending
  <2>5. \E s \in [1 .. Cardinality(U) -> U] : Ascending(s, Cardinality(U))
    <3>1. \E s \in [1 .. 0 -> U] : Ascending(s, 0)
      BY <2>3, <2>4
    <3> QED BY <2>2, <3>1
  <2>6. IsFiniteSet(U) /\ Cardinality(U) \in Nat
    BY <2>2
  <2> QED BY <2>5, <2>6
<1>2. ASSUME NEW c \in Nat, c \in N
      PROVE  c + 1 \in N
  <2> SUFFICES ASSUME NEW U \in SUBSET (0 .. (c + 1) - 1)
               PROVE  /\ IsFiniteSet(U) /\ Cardinality(U) \in Nat
                      /\ \E s \in [1 .. Cardinality(U) -> U] : Ascending(s, Cardinality(U))
    OBVIOUS
  <2>1. CASE c \notin U
    <3>1. U \in SUBSET (0 .. c - 1)
      BY <2>1
    <3> QED BY <1>2, <3>1
  <2>2. CASE c \in U
    <3> DEFINE V == U \ {c}
               n == Cardinality(V)
    <3>1. V \in SUBSET (0 .. c - 1) /\ c \notin V /\ U = V \cup {c}
      BY <2>2
    <3>2. IsFiniteSet(V) /\ n \in Nat
      BY <1>2, <3>1
    <3>3. PICK s \in [1 .. n -> V] : Ascending(s, n)
      BY <1>2, <3>1
    <3> HIDE DEF V
    <3>4. IsFiniteSet(U) /\ Cardinality(U) = n + 1
      BY <3>1, <3>2, FS_AddElement
    <3> HIDE DEF n
    <3> DEFINE t == [i \in 1 .. n + 1 |-> IF i = n + 1 THEN c ELSE s[i]]
    <3>5. t \in [1 .. n + 1 -> U]
      BY <3>1, <3>2, <3>3
    <3>6. Ascending(t, n + 1)
      <4> SUFFICES ASSUME NEW i \in 1 .. n + 1, NEW j \in 1 .. n + 1, i < j
                   PROVE  t[i] < t[j]
        BY DEF Ascending
      <4>1. i \in 1 .. n /\ i # n + 1 /\ t[i] = s[i] /\ s[i] \in 0 .. c - 1
        <5>1. i \in 1 .. n /\ i # n + 1
          BY <3>2
        <5>2. s[i] \in V
          BY <3>3, <5>1
        <5> QED BY <3>1, <5>1, <5>2
      <4>2. CASE j = n + 1
        BY <4>1, <4>2
      <4>3. CASE j # n + 1
        <5>1. j \in 1 .. n
          BY <3>2, <4>3
        <5> QED BY <3>3, <4>1, <4>3, <5>1 DEF Ascending
      <4> QED BY <4>2, <4>3
    <3>7. n + 1 \in Nat
      BY <3>2
    <3> HIDE DEF t
    <3> QED BY <3>4, <3>5, <3>6, <3>7
  <2> QED BY <2>1, <2>2
<1>3. Nat \subseteq N
  <2> HIDE DEF N
  <2> QED BY <1>1, <1>2, NatInduct
<1> QED BY <1>3

\* The frozen commitments in order are all of them, each once.
LEMMA SortedFrozenDef ==
  ASSUME NEW cms, ToSet(cms) \subseteq 0 .. IMT_MAX - 1
  PROVE  LET sorted == SortedFrozen(cms)
             n == Cardinality(ToSet(cms))
         IN  /\ n \in Nat
             /\ sorted \in Seq(ToSet(cms)) /\ Len(sorted) = n
             /\ Ascending(sorted, n)
             /\ \A x \in ToSet(cms) : \E i \in 1 .. n : sorted[i] = x
<1> DEFINE T == ToSet(cms)
           n == Cardinality(T)
           InOrder(s) == \A i, j \in DOMAIN s : i < j => s[i] < s[j]
           sorted == CHOOSE s \in [1 .. n -> T] : InOrder(s)
<1>0. sorted = SortedFrozen(cms)
  BY DEF SortedFrozen
<1>1. T \in SUBSET (0 .. IMT_MAX - 1)
  OBVIOUS
<1> HIDE DEF T
<1>2. IsFiniteSet(T) /\ n \in Nat
  BY <1>1, ImtMaxAssumption, AscendingExists
<1>3. PICK s \in [1 .. n -> T] : Ascending(s, n)
  BY <1>1, ImtMaxAssumption, AscendingExists
<1> HIDE DEF n
<1>4. InOrder(s)
  BY <1>3 DEF Ascending
<1>5. sorted \in [1 .. n -> T] /\ InOrder(sorted)
  <2> HIDE DEF InOrder
  <2> QED BY <1>3, <1>4
<1> HIDE DEF sorted
<1>6. Ascending(sorted, n)
  BY <1>5 DEF Ascending
<1>7. sorted \in Injection(1 .. n, T)
  <2>1. \A i, j \in 1 .. n : sorted[i] = sorted[j] => i = j
    <3> SUFFICES ASSUME NEW i \in 1 .. n, NEW j \in 1 .. n, sorted[i] = sorted[j], i # j PROVE FALSE
      OBVIOUS
    <3>1. sorted[i] \in Int /\ sorted[j] \in Int
      <4>1. sorted[i] \in T /\ sorted[j] \in T
        BY <1>5
      <4>2. T \subseteq Int
        BY <1>1
      <4> QED BY <4>1, <4>2
    <3> QED BY <1>2, <1>6, <3>1 DEF Ascending
  <2> HIDE DEF InOrder
  <2> QED BY <1>5, <2>1 DEF Injection, IsInjective
<1>8. Cardinality(1 .. n) = n
  BY <1>2, FS_Interval
<1>9. sorted \in Surjection(1 .. n, T)
  BY <1>2, <1>7, <1>8, FS_Injection DEF n
<1>10. sorted \in Seq(T) /\ Len(sorted) = n
  <2>1. sorted = [i \in 1 .. n |-> sorted[i]] /\ \A i \in 1 .. n : sorted[i] \in T
    BY <1>5
  <2> QED BY <1>2, <2>1, LenOfFunction
<1>11. \A x \in T : \E i \in 1 .. n : sorted[i] = x
  BY <1>9 DEF Surjection
<1> QED BY <1>0, <1>2, <1>6, <1>10, <1>11 DEF T, n

\* The value that the leaf of sorted[i] names as the next one; i = 0 is the head.
NextOf(sorted, max, i) == IF i < Len(sorted) THEN sorted[i + 1] ELSE max

ImtLeaf == Int \X Int \X Int

LEMMA ImtLeavesDef ==
  ASSUME NEW sorted \in Seq(Int), NEW max \in Int
  PROVE  LET leaves == ImtLeaves(sorted, max)
             n == Len(sorted)
         IN  /\ leaves \in Seq(ImtLeaf) /\ Len(leaves) = n + 2
             /\ leaves[1] = <<0, 1, NextOf(sorted, max, 0)>>
             /\ \A i \in 1 .. n : leaves[i + 1] = <<sorted[i], i + 1, NextOf(sorted, max, i)>>
             /\ leaves[n + 2] = <<max, 0, 0>>
<1> DEFINE n == Len(sorted)
           head == << <<0, 1, NextOf(sorted, max, 0)>> >>
           body == [i \in 1 .. n |-> <<sorted[i], i + 1, NextOf(sorted, max, i)>>]
           tail == << <<max, 0, 0>> >>
<1>0. n \in Nat /\ \A i \in 1 .. n : sorted[i] \in Int
  BY LenProperties, ElementOfSeq
<1>1. ImtLeaves(sorted, max) = (head \o body) \o tail
  BY DEF ImtLeaves, ImtLeafHash, NextOf
<1>2. \A i \in 0 .. n : NextOf(sorted, max, i) \in Int
  <2> SUFFICES ASSUME NEW i \in 0 .. n PROVE NextOf(sorted, max, i) \in Int
    OBVIOUS
  <2>1. i < n => i + 1 \in 1 .. n
    BY <1>0
  <2> QED BY <1>0, <2>1 DEF NextOf
<1>3. body \in Seq(ImtLeaf) /\ Len(body) = n
  <2>1. body = [i \in 1 .. n |-> body[i]]
    OBVIOUS
  <2>2. ASSUME NEW i \in 1 .. n
        PROVE  body[i] \in ImtLeaf
    <3>1. i \in 0 .. n /\ i + 1 \in Int
      BY <1>0
    <3> QED BY <1>0, <1>2, <3>1 DEF ImtLeaf
  <2> HIDE DEF body, n
  <2> QED BY <1>0, <2>1, <2>2, LenOfFunction
<1>4. head \in Seq(ImtLeaf) /\ Len(head) = 1 /\ tail \in Seq(ImtLeaf) /\ Len(tail) = 1
  <2>1. <<0, 1, NextOf(sorted, max, 0)>> \in ImtLeaf /\ <<max, 0, 0>> \in ImtLeaf
    BY <1>0, <1>2 DEF ImtLeaf
  <2> HIDE DEF ImtLeaf
  <2> QED BY <2>1
<1>5. head[1] = <<0, 1, NextOf(sorted, max, 0)>> /\ tail[1] = <<max, 0, 0>>
  OBVIOUS
<1>6. \A i \in 1 .. n : body[i] = <<sorted[i], i + 1, NextOf(sorted, max, i)>>
  OBVIOUS
<1> HIDE DEF head, body, tail, n
<1>7. /\ head \o body \in Seq(ImtLeaf)
      /\ Len(head \o body) = n + 1
      /\ \A i \in 1 .. n + 1 : (head \o body)[i] = IF i <= 1 THEN head[i] ELSE body[i - 1]
  <2>1. 1 + n = n + 1
    BY <1>0
  <2>2. /\ head \o body \in Seq(ImtLeaf)
        /\ Len(head \o body) = Len(head) + Len(body)
        /\ \A i \in 1 .. Len(head) + Len(body) :
              (head \o body)[i] = IF i <= Len(head) THEN head[i] ELSE body[i - Len(head)]
    BY <1>3, <1>4, ConcatProperties
  <2> QED BY <1>3, <1>4, <2>1, <2>2
<1> DEFINE front == head \o body
<1> HIDE DEF front
<1>8. /\ front \o tail \in Seq(ImtLeaf)
      /\ Len(front \o tail) = n + 2
      /\ \A i \in 1 .. n + 2 : (front \o tail)[i] = IF i <= n + 1 THEN front[i] ELSE tail[i - (n + 1)]
  <2>1. front \in Seq(ImtLeaf) /\ Len(front) = n + 1
    BY <1>7 DEF front
  <2>2. (n + 1) + 1 = n + 2
    BY <1>0
  <2>3. /\ front \o tail \in Seq(ImtLeaf)
        /\ Len(front \o tail) = Len(front) + Len(tail)
        /\ \A i \in 1 .. Len(front) + Len(tail) :
              (front \o tail)[i] = IF i <= Len(front) THEN front[i] ELSE tail[i - Len(front)]
    BY <1>4, <2>1, ConcatProperties
  <2> QED BY <1>4, <2>1, <2>2, <2>3
<1>9. front[1] = <<0, 1, NextOf(sorted, max, 0)>>
  <2>1. 1 \in 1 .. n + 1
    BY <1>0
  <2> QED BY <1>5, <1>7, <2>1 DEF front
<1>10. \A i \in 1 .. n : front[i + 1] = <<sorted[i], i + 1, NextOf(sorted, max, i)>>
  <2> SUFFICES ASSUME NEW i \in 1 .. n PROVE front[i + 1] = <<sorted[i], i + 1, NextOf(sorted, max, i)>>
    OBVIOUS
  <2>1. i + 1 \in 1 .. n + 1 /\ ~(i + 1 <= 1) /\ (i + 1) - 1 = i
    BY <1>0
  <2> QED BY <1>6, <1>7, <2>1 DEF front
<1>11. /\ 1 \in 1 .. n + 2 /\ 1 <= n + 1
       /\ n + 2 \in 1 .. n + 2 /\ ~(n + 2 <= n + 1) /\ (n + 2) - (n + 1) = 1
       /\ \A i \in 1 .. n : i + 1 \in 1 .. n + 2 /\ i + 1 <= n + 1
  BY <1>0
<1>12. /\ (front \o tail)[1] = front[1]
       /\ (front \o tail)[n + 2] = tail[1]
       /\ \A i \in 1 .. n : (front \o tail)[i + 1] = front[i + 1]
  BY <1>8, <1>11
<1>13. ImtLeaves(sorted, max) = front \o tail
  BY <1>1 DEF front
<1> QED BY <1>5, <1>8, <1>9, <1>10, <1>12, <1>13 DEF n

\* A commitment that is shown absent from the frozen tree was not put into it: nothing
\* brackets a frozen commitment (MerkleNonMembership, buildFrozenImt).
LEMMA AbsentSound ==
  ASSUME NEW cms, ToSet(cms) \subseteq 1 .. IMT_MAX - 1,
         \A i \in 0 .. Cardinality(ToSet(cms)) + 1 : Fits(i),
         NEW x \in 1 .. IMT_MAX - 1, NEW low \in ImtLeaf, NEW path,
         AbsentUnder(x, low, path, FrozenRootOf(cms))
  PROVE  x \notin ToSet(cms)
<1> DEFINE T == ToSet(cms)
           sorted == SortedFrozen(cms)
           n == Cardinality(T)
           leaves == ImtLeaves(sorted, IMT_MAX)
<1>0. IMT_MAX \in Int /\ IMT_MAX \in Nat
  BY ImtMaxAssumption
<1>1. /\ n \in Nat
      /\ sorted \in Seq(T) /\ Len(sorted) = n
      /\ Ascending(sorted, n)
      /\ \A y \in T : \E i \in 1 .. n : sorted[i] = y
  <2>1. ToSet(cms) \subseteq 0 .. IMT_MAX - 1
    BY <1>0
  <2> QED BY <2>1, SortedFrozenDef
<1>2. T \subseteq 1 .. IMT_MAX - 1 /\ T \subseteq Int
  OBVIOUS
<1>3. FrozenRootOf(cms) = Replay(leaves).root
  BY DEF FrozenRootOf, BuildFrozenImt
<1>4. \A i \in 0 .. n + 1 : Fits(i)
  OBVIOUS
<1> HIDE DEF T, sorted, n
<1>5. sorted \in Seq(Int) /\ \A i \in 1 .. n : sorted[i] \in 1 .. IMT_MAX - 1
  <2>1. sorted \in Seq(Int)
    BY <1>1, <1>2, SeqMonotonic
  <2>2. \A i \in 1 .. n : sorted[i] \in T
    BY <1>1, ElementOfSeq
  <2> QED BY <1>2, <2>1, <2>2
<1>6. /\ leaves \in Seq(ImtLeaf) /\ Len(leaves) = n + 2
      /\ leaves[1] = <<0, 1, NextOf(sorted, IMT_MAX, 0)>>
      /\ \A i \in 1 .. n : leaves[i + 1] = <<sorted[i], i + 1, NextOf(sorted, IMT_MAX, i)>>
      /\ leaves[n + 2] = <<IMT_MAX, 0, 0>>
  BY <1>0, <1>1, <1>5, ImtLeavesDef
<1> HIDE DEF leaves
<1>7. Replay(leaves).root = Node(leaves, TREE_DEPTH, 0)
  <2>1. \A i \in 0 .. Len(leaves) - 1 : Fits(i)
    <3>1. (n + 2) - 1 = n + 1
      BY <1>1
    <3> QED BY <1>4, <1>6, <3>1
  <2> QED BY <1>6, <2>1, ReplayIsTree
<1>8. PICK k \in Nat : low = Node(leaves, 0, k)
  <2>1. IsSequence(leaves)
    BY <1>6, IsSequenceDef
  <2>2. VerifyInclusionPath(low, path, Node(leaves, TREE_DEPTH, 0))
    BY <1>3, <1>7 DEF AbsentUnder
  <2> QED BY <2>1, <2>2, PathSound
<1>9. k < n + 2 /\ low = leaves[k + 1]
  <2>1. Node(leaves, 0, k) = IF k < Len(leaves) THEN leaves[k + 1] ELSE EMPTY_LEAF
    BY <1>6, IsSequenceDef, NodeOfLeaf
  <2>2. low # EMPTY_LEAF
    BY DEF ImtLeaf, EMPTY_LEAF
  <2> QED BY <1>6, <1>8, <2>1, <2>2
<1>10. low[1] < x /\ (x < low[3] \/ low[3] = 0)
  BY DEF AbsentUnder
<1> SUFFICES ASSUME x \in T PROVE FALSE
  BY DEF T
<1>11. PICK j \in 1 .. n : sorted[j] = x
  BY <1>1
<1>12. CASE k = n + 1
  <2>1. low = <<IMT_MAX, 0, 0>>
    BY <1>1, <1>6, <1>9, <1>12
  <2>2. IMT_MAX < x
    BY <1>10, <2>1
  <2> QED BY <1>0, <2>2
<1>13. CASE k \in 0 .. n
  <2>1. NextOf(sorted, IMT_MAX, k) # 0 /\ low[3] = NextOf(sorted, IMT_MAX, k)
    <3>1. low[3] = NextOf(sorted, IMT_MAX, k)
      <4>1. CASE k = 0
        BY <1>6, <1>9, <4>1
      <4>2. CASE k \in 1 .. n
        BY <1>6, <1>9, <4>2
      <4> QED BY <1>1, <1>13, <4>1, <4>2
    <3>2. NextOf(sorted, IMT_MAX, k) # 0
      <4>1. CASE k < n
        <5>1. k + 1 \in 1 .. n
          BY <1>1, <1>13, <4>1
        <5> QED BY <1>1, <1>5, <4>1, <5>1 DEF NextOf
      <4>2. CASE ~(k < n)
        BY <1>0, <1>1, <4>2 DEF NextOf
      <4> QED BY <4>1, <4>2
    <3> QED BY <3>1, <3>2
  <2>2. x < NextOf(sorted, IMT_MAX, k)
    BY <1>10, <2>1
  <2>3. k < j
    <3>1. CASE k = 0
      BY <1>1, <3>1
    <3>2. CASE k \in 1 .. n
      <4>1. low[1] = sorted[k]
        BY <1>6, <1>9, <3>2
      <4>2. sorted[k] < x
        BY <1>10, <4>1
      <4>3. ~(j < k) /\ j # k
        <5>1. sorted[k] \in Int /\ sorted[j] \in Int
          BY <1>5, <3>2
        <5> QED BY <1>1, <1>11, <3>2, <4>2, <5>1 DEF Ascending
      <4> QED BY <1>1, <3>2, <4>3
    <3> QED BY <1>1, <1>13, <3>1, <3>2
  <2>4. k + 1 \in 1 .. n /\ k < n
    BY <1>1, <1>13, <2>3
  <2>5. NextOf(sorted, IMT_MAX, k) = sorted[k + 1]
    BY <1>1, <2>4 DEF NextOf
  <2>6. ~(k + 1 < j) /\ k + 1 # j
    <3>1. sorted[k + 1] \in Int /\ sorted[j] \in Int
      BY <1>5, <2>4
    <3> QED BY <1>1, <1>11, <2>2, <2>4, <2>5, <3>1 DEF Ascending
  <2> QED BY <1>1, <1>13, <2>3, <2>6
<1> QED BY <1>1, <1>9, <1>12, <1>13

\* A set of indices that has all below each of its own is counted by its last.
LEMMA InitialIndices ==
  ASSUME NEW n \in Nat, NEW L \in SUBSET (1 .. n), \A i \in L, j \in 1 .. n : j < i => j \in L
  PROVE  Cardinality(L) \in 0 .. n /\ L = 1 .. Cardinality(L)
<1> DEFINE Closed(U, c) == \A i \in U, j \in 1 .. c : j < i => j \in U
           Q(c) == \A U \in SUBSET (1 .. c) :
                      Closed(U, c) => Cardinality(U) \in 0 .. c /\ U = 1 .. Cardinality(U)
           N == {c \in Nat : Q(c)}
<1>1. 0 \in N
  <2> SUFFICES ASSUME NEW U \in SUBSET (1 .. 0)
               PROVE  Cardinality(U) \in 0 .. 0 /\ U = 1 .. Cardinality(U)
    OBVIOUS
  <2>1. U = {}
    OBVIOUS
  <2>2. Cardinality(U) = 0
    BY <2>1, FS_EmptySet
  <2> QED BY <2>1, <2>2
<1>2. ASSUME NEW c \in Nat, c \in N
      PROVE  c + 1 \in N
  <2> SUFFICES ASSUME NEW U \in SUBSET (1 .. c + 1), Closed(U, c + 1)
               PROVE  Cardinality(U) \in 0 .. c + 1 /\ U = 1 .. Cardinality(U)
    OBVIOUS
  <2>1. CASE c + 1 \in U
    <3>1. U = 1 .. c + 1
      <4>1. \A j \in 1 .. c + 1 : j = c + 1 \/ j < c + 1
        OBVIOUS
      <4>2. \A j \in 1 .. c + 1 : j \in U
        BY <2>1, <4>1
      <4> QED BY <4>2
    <3>2. Cardinality(1 .. c + 1) = c + 1
      BY FS_Interval
    <3> QED BY <3>1, <3>2
  <2>2. CASE c + 1 \notin U
    <3>1. U \in SUBSET (1 .. c) /\ Closed(U, c)
      BY <2>2
    <3>2. Cardinality(U) \in 0 .. c /\ U = 1 .. Cardinality(U)
      <4> HIDE DEF Closed
      <4> QED BY <1>2, <3>1
    <3> QED BY <3>2
  <2> QED BY <2>1, <2>2
<1>3. Nat \subseteq N
  <2> HIDE DEF N
  <2> QED BY <1>1, <1>2, NatInduct
<1> QED BY <1>3

\* The leaves up to the low one are those below the commitment.
LEMMA LowIndexDef ==
  ASSUME NEW cms, ToSet(cms) \subseteq 1 .. IMT_MAX - 1, NEW x \in Int
  PROVE  LET sorted == SortedFrozen(cms)
             n == Cardinality(ToSet(cms))
             k == LowIndex(sorted, x)
         IN  /\ k \in 0 .. n
             /\ \A i \in 1 .. n : sorted[i] < x <=> i <= k
             /\ FrozenNonMembership(cms, x).low \in ImtLeaf
<1> DEFINE T == ToSet(cms)
           sorted == SortedFrozen(cms)
           n == Cardinality(T)
           leaves == ImtLeaves(sorted, IMT_MAX)
           L == {i \in 1 .. n : sorted[i] < x}
           k == LowIndex(sorted, x)
<1>0. IMT_MAX \in Int
  BY ImtMaxAssumption
<1>1. /\ n \in Nat
      /\ sorted \in Seq(T) /\ Len(sorted) = n
      /\ Ascending(sorted, n)
  <2>1. ToSet(cms) \subseteq 0 .. IMT_MAX - 1
    BY <1>0
  <2> QED BY <2>1, SortedFrozenDef
<1>2. T \subseteq Int
  OBVIOUS
<1>3. k = Cardinality(L)
  <2>1. DOMAIN sorted = 1 .. n
    <3> HIDE DEF sorted, T, n
    <3> QED BY <1>1, LenProperties
  <2> QED BY <2>1 DEF LowIndex
<1>4. FrozenNonMembership(cms, x).low = leaves[k + 1]
  BY DEF FrozenNonMembership, BuildFrozenImt
<1> HIDE DEF T, sorted, n, k
<1>5. sorted \in Seq(Int) /\ \A i \in 1 .. n : sorted[i] \in Int
  <2>1. sorted \in Seq(Int)
    BY <1>1, <1>2, SeqMonotonic
  <2> QED BY <1>1, <2>1, ElementOfSeq
<1>6. k \in 0 .. n /\ L = 1 .. k
  <2>1. \A i \in L, j \in 1 .. n : j < i => j \in L
    <3> SUFFICES ASSUME NEW i \in L, NEW j \in 1 .. n, j < i PROVE sorted[j] < x
      OBVIOUS
    <3>1. sorted[j] < sorted[i] /\ sorted[i] < x
      BY <1>1 DEF Ascending
    <3>2. sorted[i] \in Int /\ sorted[j] \in Int
      BY <1>5
    <3> QED BY <3>1, <3>2
  <2>2. L \in SUBSET (1 .. n)
    OBVIOUS
  <2> HIDE DEF L
  <2> QED BY <1>1, <1>3, <2>1, <2>2, InitialIndices
<1>7. \A i \in 1 .. n : sorted[i] < x <=> i <= k
  <2> SUFFICES ASSUME NEW i \in 1 .. n PROVE sorted[i] < x <=> i <= k
    OBVIOUS
  <2>1. i \in 1 .. k <=> i <= k
    BY <1>1, <1>6
  <2> QED BY <1>6, <2>1
<1>8. leaves[k + 1] \in ImtLeaf
  <2>1. leaves \in Seq(ImtLeaf) /\ Len(leaves) = n + 2
    BY <1>0, <1>1, <1>5, ImtLeavesDef
  <2>2. k + 1 \in 1 .. n + 2
    BY <1>1, <1>6
  <2> HIDE DEF leaves
  <2> QED BY <2>1, <2>2, ElementOfSeq
<1> QED BY <1>4, <1>6, <1>7, <1>8 DEF T, sorted, n, k

\* What is not frozen can be shown absent, with the low leaf and the path that the
\* console computes (frozenNonMembership).
LEMMA AbsentComplete ==
  ASSUME NEW cms, ToSet(cms) \subseteq 1 .. IMT_MAX - 1,
         \A i \in 0 .. Cardinality(ToSet(cms)) + 1 : Fits(i),
         NEW x \in 1 .. IMT_MAX - 1, x \notin ToSet(cms)
  PROVE  LET shown == FrozenNonMembership(cms, x)
         IN  AbsentUnder(x, shown.low, shown.path, FrozenRootOf(cms))
<1> DEFINE T == ToSet(cms)
           sorted == SortedFrozen(cms)
           n == Cardinality(T)
           leaves == ImtLeaves(sorted, IMT_MAX)
           k == LowIndex(sorted, x)
           low == leaves[k + 1]
           path == InclusionPath(leaves, k)
<1>0. IMT_MAX \in Int /\ IMT_MAX \in Nat
  BY ImtMaxAssumption
<1>1. n \in Nat /\ sorted \in Seq(T) /\ Len(sorted) = n
  <2>1. ToSet(cms) \subseteq 0 .. IMT_MAX - 1
    BY <1>0
  <2> QED BY <2>1, SortedFrozenDef
<1>2. T \subseteq 1 .. IMT_MAX - 1 /\ T \subseteq Int /\ x \notin T
  OBVIOUS
<1>3. FrozenRootOf(cms) = Replay(leaves).root
  BY DEF FrozenRootOf, BuildFrozenImt
<1>4. \A i \in 0 .. n + 1 : Fits(i)
  OBVIOUS
<1>5. FrozenNonMembership(cms, x).low = low /\ FrozenNonMembership(cms, x).path = path
  BY DEF FrozenNonMembership, BuildFrozenImt
<1>6. k \in 0 .. n /\ \A i \in 1 .. n : sorted[i] < x <=> i <= k
  BY LowIndexDef
<1> HIDE DEF T, sorted, n, k
<1>7. sorted \in Seq(Int) /\ \A i \in 1 .. n : sorted[i] \in 1 .. IMT_MAX - 1 /\ sorted[i] # x
  <2>1. sorted \in Seq(Int)
    BY <1>1, <1>2, SeqMonotonic
  <2>2. \A i \in 1 .. n : sorted[i] \in T
    BY <1>1, ElementOfSeq
  <2> QED BY <1>2, <2>1, <2>2
<1>8. /\ leaves \in Seq(ImtLeaf) /\ Len(leaves) = n + 2
      /\ leaves[1] = <<0, 1, NextOf(sorted, IMT_MAX, 0)>>
      /\ \A i \in 1 .. n : leaves[i + 1] = <<sorted[i], i + 1, NextOf(sorted, IMT_MAX, i)>>
  BY <1>0, <1>1, <1>7, ImtLeavesDef
<1>9. k < n => sorted[k + 1] > x
  <2> SUFFICES ASSUME k < n PROVE sorted[k + 1] > x
    OBVIOUS
  <2>1. k + 1 \in 1 .. n /\ ~(k + 1 <= k)
    BY <1>1, <1>6
  <2> QED BY <1>0, <1>6, <1>7, <2>1
<1>10. x < NextOf(sorted, IMT_MAX, k)
  BY <1>0, <1>1, <1>6, <1>9 DEF NextOf
<1> HIDE DEF leaves
<1>11. low[1] < x /\ x < low[3]
  <2>1. CASE k = 0
    BY <1>8, <1>10, <2>1
  <2>2. CASE k \in 1 .. n
    <3>1. k <= k
      BY <2>2
    <3> QED BY <1>6, <1>8, <1>10, <2>2, <3>1
  <2> QED BY <1>1, <1>6, <2>1, <2>2
<1>12. VerifyInclusionPath(low, path, Replay(leaves).root)
  <2>1. Replay(leaves).root = Node(leaves, TREE_DEPTH, 0)
    <3>1. (n + 2) - 1 = n + 1
      BY <1>1
    <3>2. \A i \in 0 .. Len(leaves) - 1 : Fits(i)
      BY <1>4, <1>8, <3>1
    <3> QED BY <1>8, <3>2, ReplayIsTree
  <2>2. k \in Nat /\ k < n + 2 /\ k \in 0 .. n + 1
    BY <1>1, <1>6
  <2>3. IsSequence(leaves) /\ Fits(k)
    BY <1>4, <1>8, <2>2, IsSequenceDef
  <2>4. Node(leaves, 0, k) = low
    BY <1>8, <2>2, <2>3, NodeOfLeaf
  <2> QED BY <2>1, <2>2, <2>3, <2>4, PathComplete
<1> QED BY <1>3, <1>5, <1>11, <1>12 DEF AbsentUnder

----------------------------------------------------------------------------
(* What can be opened of the frozen tree.                                   *)

LEMMA InclusionPathBits ==
  ASSUME NEW leaves, NEW index \in Nat
  PROVE  InclusionPath(leaves, index).pathBits \in [1 .. TREE_DEPTH -> {0, 1}]
<1>0. TREE_DEPTH \in Nat
  BY TreeDepthAssumption
<1>1. InclusionPath(leaves, index).pathBits = [k \in 1 .. TREE_DEPTH |-> IndexAt(index)[k - 1] % 2]
  BY DEF InclusionPath
<1>2. \A k \in 1 .. TREE_DEPTH : IndexAt(index)[k - 1] % 2 \in {0, 1}
  <2> TAKE k \in 1 .. TREE_DEPTH
  <2>1. k - 1 \in 0 .. TREE_DEPTH
    BY <1>0
  <2>2. IndexAt(index)[k - 1] \in Nat
    BY <2>1, IndexAtDef
  <2> QED BY <2>2
<1> QED BY <1>1, <1>2

\* The leaves of the frozen tree are the low leaves of the frozen set, and the
\* places beyond them are empty.
LEMMA FrozenTreeOpens ==
  ASSUME NEW cms, ToSet(cms) \subseteq 1 .. IMT_MAX - 1,
         \A i \in 0 .. Cardinality(ToSet(cms)) + 1 : Fits(i),
         NEW x, NEW path, VerifyInclusionPath(x, path, FrozenRootOf(cms))
  PROVE  x \in ImtLeaf \/ x = EMPTY_LEAF
<1> DEFINE T == ToSet(cms)
           sorted == SortedFrozen(cms)
           n == Cardinality(T)
           leaves == ImtLeaves(sorted, IMT_MAX)
<1>0. IMT_MAX \in Int /\ IMT_MAX \in Nat
  BY ImtMaxAssumption
<1>1. n \in Nat /\ sorted \in Seq(T) /\ Len(sorted) = n
  <2>1. ToSet(cms) \subseteq 0 .. IMT_MAX - 1
    BY <1>0
  <2> QED BY <2>1, SortedFrozenDef
<1>2. T \subseteq Int
  OBVIOUS
<1>3. FrozenRootOf(cms) = Replay(leaves).root
  BY DEF FrozenRootOf, BuildFrozenImt
<1>4. \A i \in 0 .. n + 1 : Fits(i)
  OBVIOUS
<1> HIDE DEF T, sorted, n
<1>5. sorted \in Seq(Int)
  BY <1>1, <1>2, SeqMonotonic
<1>6. leaves \in Seq(ImtLeaf) /\ Len(leaves) = n + 2
  BY <1>0, <1>1, <1>5, ImtLeavesDef
<1> HIDE DEF leaves
<1>7. Replay(leaves).root = Node(leaves, TREE_DEPTH, 0)
  <2>1. (n + 2) - 1 = n + 1
    BY <1>1
  <2>2. \A i \in 0 .. Len(leaves) - 1 : Fits(i)
    BY <1>4, <1>6, <2>1
  <2> QED BY <1>6, <2>2, ReplayIsTree
<1>8. IsSequence(leaves)
  BY <1>6, IsSequenceDef
<1>9. PICK k \in Nat : x = Node(leaves, 0, k)
  BY <1>3, <1>7, <1>8, PathSound
<1>10. Node(leaves, 0, k) = IF k < Len(leaves) THEN leaves[k + 1] ELSE EMPTY_LEAF
  BY <1>8, NodeOfLeaf
<1>11. k < Len(leaves) => leaves[k + 1] \in ImtLeaf
  <2>1. k < Len(leaves) => k + 1 \in 1 .. Len(leaves)
    BY <1>1, <1>6
  <2> QED BY <1>6, <2>1, ElementOfSeq
<1> QED BY <1>9, <1>10, <1>11

\* The path that comes with a low leaf.
LEMMA FrozenPathBits ==
  ASSUME NEW cms, ToSet(cms) \subseteq 1 .. IMT_MAX - 1, NEW x \in Int
  PROVE  FrozenNonMembership(cms, x).path.pathBits \in [1 .. TREE_DEPTH -> {0, 1}]
<1> DEFINE k == LowIndex(SortedFrozen(cms), x)
           leaves == BuildFrozenImt(SortedFrozen(cms))
<1>1. FrozenNonMembership(cms, x).path = InclusionPath(leaves, k)
  BY DEF FrozenNonMembership
<1>2. k \in Nat
  <2>1. LET sorted == SortedFrozen(cms)
            n == Cardinality(ToSet(cms))
            j == LowIndex(sorted, x)
        IN  /\ j \in 0 .. n
            /\ \A i \in 1 .. n : sorted[i] < x <=> i <= j
            /\ FrozenNonMembership(cms, x).low \in ImtLeaf
    BY LowIndexDef
  <2> QED BY <2>1
<1> HIDE DEF k, leaves
<1> QED BY <1>1, <1>2, InclusionPathBits
=============================================================================
