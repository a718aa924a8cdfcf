----------------------------- MODULE NoteLemmas -----------------------------
(***************************************************************************)
(* What the proofs about the contract, the wallet and the clawback share:    *)
(* what a tree transition and the ring of recent roots compute, when a       *)
(* balance in the field is one in the integers, and sums of values over      *)
(* finite sets of notes.                                                     *)
(***************************************************************************)
EXTENDS Circuits, SequencesExt, SequenceTheorems, FiniteSetTheorems, FunctionTheorems, TLAPS

----------------------------------------------------------------------------
(* What the transition and the recent-roots ring compute.                   *)

\* The transition turns leaves into leaves, and at the true append index it
\* appends.
LEMMA FrontierTransitionAppends ==
  ASSUME NEW f \in Leaves, NEW k \in Nat, NEW leaves \in Leaves
  PROVE  /\ FrontierTransition(f, k, leaves) \in Leaves
         /\ k = Len(f) => FrontierTransition(f, k, leaves) = f \o leaves
<1>1. CASE k < Len(f)
  <2>1. \A i \in 1 .. k : f[i] \in Note
    BY <1>1, LenProperties, ElementOfSeq DEF Leaves
  <2>2. SubSeq(f, 1, k) \in Seq(Note)
    BY <2>1, SubSeqProperties
  <2>3. SubSeq(f, 1, k) \o leaves \in Seq(Note)
    BY <2>2, ConcatProperties DEF Leaves
  <2> QED BY <1>1, <2>3 DEF FrontierTransition, Leaves
<1>2. CASE ~(k < Len(f))
  BY <1>2, ConcatProperties DEF FrontierTransition, Leaves
<1> QED BY <1>1, <1>2

\* The ring stays a non-empty sequence that ends with the pushed root, and holds
\* nothing but its old roots and the pushed one.
LEMMA PushRecentRootKeeps ==
  ASSUME NEW ring \in Seq(Leaves), NEW root \in Leaves
  PROVE  LET new == PushRecentRoot(ring, root)
         IN  /\ new \in Seq(Leaves)
             /\ Len(new) >= 1
             /\ new[Len(new)] = root
             /\ \A i \in 1 .. Len(new) : new[i] = root \/ \E j \in 1 .. Len(ring) : new[i] = ring[j]
<1> DEFINE new == PushRecentRoot(ring, root)
<1>0. Len(ring) \in Nat
  BY LenProperties
<1>1. CASE Len(ring) < RECENT_ROOTS_CAPACITY
  <2>1. new = Append(ring, root)
    BY <1>1 DEF PushRecentRoot
  <2>2. /\ new \in Seq(Leaves)
        /\ Len(new) = Len(ring) + 1
        /\ new[Len(new)] = root
        /\ \A i \in 1 .. Len(ring) : new[i] = ring[i]
    BY <2>1, <1>0, AppendProperties
  <2> QED BY <1>0, <2>2
<1>2. CASE ~(Len(ring) < RECENT_ROOTS_CAPACITY)
  <2>1. new = Append(Tail(ring), root)
    BY <1>2 DEF PushRecentRoot
  <2>2. ring # << >>
    BY <1>0, <1>2, TreeAssumption, EmptySeq
  <2>3. /\ Tail(ring) \in Seq(Leaves)
        /\ Len(Tail(ring)) = Len(ring) - 1
        /\ \A i \in 1 .. Len(Tail(ring)) : Tail(ring)[i] = ring[i + 1]
    BY <2>2, HeadTailProperties
  <2>4. Len(ring) >= 1
    BY <1>0, <1>2, TreeAssumption
  <2>5. /\ new \in Seq(Leaves)
        /\ Len(new) = Len(ring)
        /\ new[Len(new)] = root
        /\ \A i \in 1 .. Len(ring) - 1 : new[i] = ring[i + 1]
    BY <2>1, <2>3, <2>4, <1>0, AppendProperties
  <2>6. \A i \in 1 .. Len(new) : i = Len(new) \/ (i \in 1 .. Len(ring) - 1 /\ i + 1 \in 1 .. Len(ring))
    BY <1>0, <2>5
  <2> QED BY <1>0, <2>4, <2>5, <2>6
<1> QED BY <1>1, <1>2

----------------------------------------------------------------------------
(* Balances.                                                                *)

LEMMA ModSmall ==
  ASSUME NEW n \in 0 .. FR_MODULUS - 1
  PROVE  Mod(n) = n
BY FieldAssumption DEF Mod

\* A balance of values, the fee included, holds in the integers.
LEMMA BalancedValues ==
  ASSUME NEW inputs \in Nat, inputs <= 2 * MAX_VALUE,
         NEW outputs \in Nat, outputs <= 2 * MAX_VALUE,
         NEW fee \in Value, Balanced(inputs, outputs, fee)
  PROVE  inputs = outputs + fee
<1>1. inputs \in 0 .. FR_MODULUS - 1 /\ outputs + fee \in 0 .. FR_MODULUS - 1
  BY NotesAssumption, FieldAssumption, SumsFit DEF Value
<1> QED BY <1>1, ModSmall DEF Balanced

LEMMA BalancedWithoutFee ==
  ASSUME NEW inputs \in Nat, inputs <= 2 * MAX_VALUE,
         NEW outputs \in Nat, outputs <= 2 * MAX_VALUE
  PROVE  Balanced(inputs, outputs, 0) <=> inputs = outputs
<1>1. 0 \in Value /\ outputs + 0 = outputs
  BY NotesAssumption DEF Value
<1>2. ASSUME Balanced(inputs, outputs, 0) PROVE inputs = outputs
  BY <1>1, <1>2, BalancedValues
<1>3. ASSUME inputs = outputs PROVE Balanced(inputs, outputs, 0)
  BY <1>1, <1>3 DEF Balanced
<1> QED BY <1>2, <1>3

----------------------------------------------------------------------------
(* Sums over finite sets of notes, by induction in the form of a smallest    *)
(* counterexample.                                                           *)

\* Among subsets of a finite set there is one that contains no other.
LEMMA SmallestSubset ==
  ASSUME NEW S, IsFiniteSet(S), NEW T, T \subseteq SUBSET S, T # {}
  PROVE  \E s \in T : \A u \in T : u \subseteq s => u = s
<1>1. IsWellFoundedOn(StrictSubsetOrdering(S), FiniteSubsetsOf(S))
  BY FS_StrictSubsetOrderingWellFounded
<1>2. T \subseteq FiniteSubsetsOf(S)
  BY FS_FiniteSubsetsOfFinite
<1>3. PICK s \in T : \A u \in T : <<u, s>> \notin StrictSubsetOrdering(S)
  BY <1>1, <1>2, WFMin
<1>4. ASSUME NEW u \in T, u \subseteq s, u # s
      PROVE  FALSE
  <2>1. <<u, s>> \in (SUBSET S) \X (SUBSET S)
    OBVIOUS
  <2>2. <<u, s>> \in StrictSubsetOrdering(S)
    BY <1>4, <2>1 DEF StrictSubsetOrdering
  <2> QED BY <1>3, <2>2
<1> QED BY <1>4

\* The element a sum takes first.
First(s) == CHOOSE n \in s : TRUE

\* f gives the sum of each subset of S.
SumsUp(f, S) ==
  f = [s \in SUBSET S |-> IF s = {} THEN 0 ELSE First(s).value + f[s \ {First(s)}]]

SumOf(S) == CHOOSE f : SumsUp(f, S)

LEMMA ValueOfDef ==
  ASSUME NEW S
  PROVE  ValueOf(S) = SumOf(S)[S]
BY DEF ValueOf, MapThenSumSet, MapThenFoldSet, SumOf, SumsUp, First

LEMMA FirstIsElement ==
  ASSUME NEW S, S # {}
  PROVE  First(S) \in S
BY DEF First

\* The sums of a subset do not depend on the set they were computed for.
LEMMA SumsAgree ==
  ASSUME NEW S, IsFiniteSet(S), NEW U \in SUBSET S, NEW f, SumsUp(f, S), NEW g, SumsUp(g, U)
  PROVE  \A s \in SUBSET U : f[s] = g[s]
<1> DEFINE Bad == {s \in SUBSET U : f[s] # g[s]}
<1>1. SUFFICES ASSUME Bad # {} PROVE FALSE
  OBVIOUS
<1>2. PICK s \in Bad : \A u \in Bad : u \subseteq s => u = s
  <2>1. Bad \subseteq SUBSET S
    OBVIOUS
  <2> HIDE DEF Bad
  <2> QED BY <1>1, <2>1, SmallestSubset
<1>3. s \in SUBSET U /\ s \in SUBSET S /\ f[s] # g[s]
  OBVIOUS
<1>4. /\ f[s] = IF s = {} THEN 0 ELSE First(s).value + f[s \ {First(s)}]
      /\ g[s] = IF s = {} THEN 0 ELSE First(s).value + g[s \ {First(s)}]
  BY <1>3 DEF SumsUp
<1>5. s # {}
  BY <1>3, <1>4
<1>6. /\ s \ {First(s)} \subseteq s
      /\ s \ {First(s)} # s
  BY <1>5, FirstIsElement
<1>7. f[s \ {First(s)}] = g[s \ {First(s)}]
  BY <1>2, <1>3, <1>6
<1> QED BY <1>3, <1>4, <1>5, <1>7

\* Every finite set has its sums: the recursion is well founded.
LEMMA SumsExist ==
  ASSUME NEW S, IsFiniteSet(S)
  PROVE  SumsUp(SumOf(S), S)
<1>1. SUFFICES \E f : SumsUp(f, S)
  BY DEF SumOf
<1> DEFINE Bad == {s \in SUBSET S : ~ \E f : SumsUp(f, s)}
<1>2. SUFFICES ASSUME Bad # {} PROVE FALSE
  OBVIOUS
<1>3. PICK s \in Bad : \A u \in Bad : u \subseteq s => u = s
  <2>1. Bad \subseteq SUBSET S
    OBVIOUS
  <2> HIDE DEF Bad
  <2> QED BY <1>2, <2>1, SmallestSubset
<1>4. s \in SUBSET S /\ ~ \E f : SumsUp(f, s)
  OBVIOUS
<1>5. ASSUME NEW u \in SUBSET s, u # s
      PROVE  SumsUp(SumOf(u), u)
  BY <1>3, <1>4, <1>5 DEF SumOf
<1> DEFINE h == [u \in SUBSET s |-> IF u = {} THEN 0 ELSE First(u).value + SumOf(u \ {First(u)})[u \ {First(u)}]]
<1>6. ASSUME NEW u \in SUBSET s, u # s
      PROVE  h[u] = SumOf(u)[u]
  <2>1. SumOf(u)[u] = IF u = {} THEN 0 ELSE First(u).value + SumOf(u)[u \ {First(u)}]
    <3>1. SumsUp(SumOf(u), u)
      BY <1>5, <1>6
    <3> DEFINE k == SumOf(u)
    <3>2. k = [v \in SUBSET u |-> IF v = {} THEN 0 ELSE First(v).value + k[v \ {First(v)}]]
      BY <3>1 DEF SumsUp
    <3> HIDE DEF k
    <3>3. k[u] = IF u = {} THEN 0 ELSE First(u).value + k[u \ {First(u)}]
      BY <3>2
    <3> QED BY <3>3 DEF k
  <2>2. h[u] = IF u = {} THEN 0 ELSE First(u).value + SumOf(u \ {First(u)})[u \ {First(u)}]
    OBVIOUS
  <2>3. CASE u = {}
    BY <2>1, <2>2, <2>3
  <2>4. CASE u # {}
    <3> DEFINE v == u \ {First(u)}
    <3>1. v \in SUBSET u /\ v \in SUBSET s /\ v # s
      BY <2>4, <1>6, FirstIsElement
    <3>2. SumsUp(SumOf(u), u) /\ SumsUp(SumOf(v), v)
      BY <1>5, <1>6, <3>1
    <3>3. IsFiniteSet(u)
      BY <1>4, FS_Subset
    <3>4. SumOf(u)[v] = SumOf(v)[v]
      <4> HIDE DEF v
      <4> QED BY <3>1, <3>2, <3>3, SumsAgree
    <3> QED BY <2>1, <2>2, <2>4, <3>4
  <2> QED BY <2>3, <2>4
<1>7. SumsUp(h, s)
  <2>1. ASSUME NEW u \in SUBSET s, u # {}
        PROVE  SumOf(u \ {First(u)})[u \ {First(u)}] = h[u \ {First(u)}]
    <3>1. u \ {First(u)} \in SUBSET s /\ u \ {First(u)} # s
      BY <2>1, FirstIsElement
    <3> QED BY <3>1, <1>6
  <2>2. h = [u \in SUBSET s |-> IF u = {} THEN 0 ELSE First(u).value + h[u \ {First(u)}]]
    BY <2>1
  <2> HIDE DEF h
  <2> QED BY <2>2 DEF SumsUp
<1> QED BY <1>4, <1>7

LEMMA ValueOfNone == ValueOf({}) = 0
<1>1. SumsUp(SumOf({}), {})
  BY SumsExist, FS_EmptySet
<1> DEFINE k == SumOf({})
<1>2. k = [v \in SUBSET {} |-> IF v = {} THEN 0 ELSE First(v).value + k[v \ {First(v)}]]
  BY <1>1 DEF SumsUp
<1>3. k[{}] = 0
  <2> HIDE DEF k
  <2> QED BY <1>2
<1> QED BY <1>3, ValueOfDef

LEMMA ValueOfFirst ==
  ASSUME NEW S, IsFiniteSet(S), S # {}
  PROVE  ValueOf(S) = First(S).value + ValueOf(S \ {First(S)})
<1> DEFINE r == S \ {First(S)}
<1>1. r \in SUBSET S /\ IsFiniteSet(r)
  BY FS_Subset
<1>2. SumsUp(SumOf(S), S) /\ SumsUp(SumOf(r), r)
  BY <1>1, SumsExist
<1>3. SumOf(S)[r] = SumOf(r)[r]
  <2> HIDE DEF r
  <2> QED BY <1>1, <1>2, SumsAgree
<1> DEFINE k == SumOf(S)
<1>4. k = [v \in SUBSET S |-> IF v = {} THEN 0 ELSE First(v).value + k[v \ {First(v)}]]
  BY <1>2 DEF SumsUp
<1>5. k[S] = First(S).value + k[r]
  <2> HIDE DEF k
  <2> QED BY <1>4
<1> QED BY <1>3, <1>5, ValueOfDef

----------------------------------------------------------------------------
\* The value of a finite set of notes is a number, and any of them may be counted
\* first.
LEMMA ValueOfType ==
  ASSUME NEW S \in SUBSET Note, IsFiniteSet(S)
  PROVE  ValueOf(S) \in Nat
<1> DEFINE Bad == {s \in SUBSET S : ValueOf(s) \notin Nat}
<1>1. SUFFICES ASSUME Bad # {} PROVE FALSE
  OBVIOUS
<1>2. PICK s \in Bad : \A u \in Bad : u \subseteq s => u = s
  <2>1. Bad \subseteq SUBSET S
    OBVIOUS
  <2> HIDE DEF Bad
  <2> QED BY <1>1, <2>1, SmallestSubset
<1>3. s \in SUBSET S /\ ValueOf(s) \notin Nat /\ IsFiniteSet(s)
  BY FS_Subset
<1>4. s # {}
  BY <1>3, ValueOfNone
<1>5. First(s) \in s /\ First(s).value \in Nat
  BY <1>3, <1>4, FirstIsElement DEF Note, Value
<1>6. ValueOf(s \ {First(s)}) \in Nat
  BY <1>2, <1>3, <1>5
<1>7. ValueOf(s) = First(s).value + ValueOf(s \ {First(s)})
  BY <1>3, <1>4, ValueOfFirst
<1> QED BY <1>3, <1>5, <1>6, <1>7

LEMMA ValueOfSplit ==
  ASSUME NEW S \in SUBSET Note, IsFiniteSet(S), NEW x \in S
  PROVE  ValueOf(S) = x.value + ValueOf(S \ {x})
<1> DEFINE Bad == {s \in SUBSET S : \E n \in s : ValueOf(s) # n.value + ValueOf(s \ {n})}
<1>1. SUFFICES ASSUME Bad # {} PROVE FALSE
  OBVIOUS
<1>2. PICK s \in Bad : \A u \in Bad : u \subseteq s => u = s
  <2>1. Bad \subseteq SUBSET S
    OBVIOUS
  <2> HIDE DEF Bad
  <2> QED BY <1>1, <2>1, SmallestSubset
<1>3. s \in SUBSET S /\ IsFiniteSet(s) /\ s # {}
  BY FS_Subset
<1>4. PICK n \in s : ValueOf(s) # n.value + ValueOf(s \ {n})
  OBVIOUS
<1> DEFINE f == First(s)
<1>5. f \in s /\ ValueOf(s) = f.value + ValueOf(s \ {f})
  BY <1>3, FirstIsElement, ValueOfFirst
<1> HIDE DEF f
<1>6. n # f
  BY <1>4, <1>5
<1>7. ValueOf(s \ {f}) = n.value + ValueOf((s \ {f}) \ {n})
  <2>1. s \ {f} \notin Bad
    BY <1>2, <1>5
  <2> QED BY <1>3, <1>6, <2>1
<1>8. ValueOf(s \ {n}) = f.value + ValueOf((s \ {n}) \ {f})
  <2>1. s \ {n} \notin Bad
    BY <1>2, <1>4
  <2> QED BY <1>3, <1>5, <1>6, <2>1
<1>9. (s \ {f}) \ {n} = (s \ {n}) \ {f}
  OBVIOUS
<1>10. PICK r : r = ValueOf((s \ {f}) \ {n})
  OBVIOUS
<1>11. r \in Nat /\ f.value \in Nat /\ n.value \in Nat
  <2>1. (s \ {f}) \ {n} \in SUBSET Note /\ IsFiniteSet((s \ {f}) \ {n})
    BY <1>3, FS_Subset
  <2>2. r \in Nat
    BY <1>10, <2>1, ValueOfType
  <2> QED BY <1>3, <1>5, <2>2 DEF Note, Value
<1>12. /\ ValueOf(s) = f.value + (n.value + r)
       /\ n.value + ValueOf(s \ {n}) = n.value + (f.value + r)
  BY <1>5, <1>7, <1>8, <1>9, <1>10
<1> QED BY <1>4, <1>11, <1>12

----------------------------------------------------------------------------
\* The elements of a sequence are finitely many.
LEMMA ElementsFinite ==
  ASSUME NEW S, NEW s \in Seq(S)
  PROVE  ToSet(s) \subseteq S /\ IsFiniteSet(ToSet(s))
<1>1. /\ DOMAIN s = 1 .. Len(s)
      /\ Len(s) \in Nat
      /\ \A i \in 1 .. Len(s) : s[i] \in S
  BY LenProperties, ElementOfSeq
<1>2. ToSet(s) \subseteq S
  BY <1>1 DEF ToSet
<1>3. s \in Surjection(DOMAIN s, Range(s))
  BY <1>1, Fun_RangeProperties
<1>4. IsFiniteSet(1 .. Len(s))
  BY <1>1, FS_Interval
<1>5. IsFiniteSet(Range(s))
  BY <1>1, <1>3, <1>4, FS_Surjection
<1> QED BY <1>2, <1>5 DEF ToSet, Range
=============================================================================
