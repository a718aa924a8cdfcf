--------------------------- MODULE ClawbackSafety ---------------------------
(***************************************************************************)
(* What always holds of the trees hash by hash, of what the spenders and     *)
(* the issuer compute from them, and of the frozen root that is stored.     *)
(***************************************************************************)
EXTENDS ClawbackProperties, MerkleLemmas, NoteLemmas

Numbers == 1 .. IMT_MAX - 1

LeavesOf(notes) == [i \in DOMAIN notes |-> LeafOf(notes[i])]

TreeLeaves == {LeafOf(n) : n \in Note} \cup {EMPTY_LEAF}

\* A note on its way: its value may be too large, and then no proof takes it.
Draft == [asset : Assets, value : Nat, owner : Owners, rho : 6 .. IMT_MAX - 1]

----------------------------------------------------------------------------
(* The inductive invariant.                                                 *)

\* The notes behind the leaves, as many as the tree counts, are told apart by
\* their commitments.
LogInv ==
  /\ log \in Seq(Note)
  /\ Len(log) <= TREE_CAPACITY
  /\ tree.leafCount = Len(log)
  /\ \A i \in 1 .. Len(log) : log[i].rho \in 6 .. IMT_MAX - 1
  /\ \A i, j \in 1 .. Len(log) : log[i].rho = log[j].rho => i = j

\* The root of a tree is among its recent ones.
RingOf(t) ==
  /\ \E S : t.recentRoots \in Seq(S)
  /\ IsRecentRoot(t, t.root)

\* The contract stores what a replay of the leaves gives.
TreeInv ==
  /\ tree.frontier = Replay(LeavesOf(log)).frontier
  /\ tree.root = Replay(LeavesOf(log)).root
  /\ RingOf(tree)

\* The stored frozen root is that of some list of the commitments in behind.
FrozenInv ==
  /\ frozen \in Seq(Numbers)
  /\ Len(frozen) + 2 <= TREE_CAPACITY
  /\ behind \subseteq Numbers
  /\ Cardinality(behind) + 2 <= TREE_CAPACITY
  /\ \E cms : ToSet(cms) = behind /\ frozenRoot = FrozenRootOf(cms)

\* The issuer is about to publish the root of what it read and the target.
IssuerInv ==
  \/ issuer = NoFreeze
  \/ /\ Len(frozen) + 3 <= TREE_CAPACITY
     /\ \E seen \in Seq(Numbers), target \in Numbers :
          /\ Len(seen) + 3 <= TREE_CAPACITY
          /\ issuer = [target |-> target, seen |-> seen, root |-> ComputeFreeze(seen, target)]

\* A note that is about to be made, with a commitment of its own.
Minting == {o \in Draft : o.rho \in Unused}

\* The witnesses that the three builders make of the notes in the tree.
WitnessInv(w) ==
  \/ \E o \in Minting : w = ShieldWitness(o)
  \/ \E i, j \in 1 .. Len(log), o, p \in Minting :
       /\ o.rho # p.rho /\ p.owner = log[i].owner
       /\ w = TransferWitness(log, log[i], log[j], o, p)
  \/ \E i \in 1 .. Len(log), amount \in Nat, recipient \in Owners, change \in {<< >>} \cup {<<o>> : o \in Minting} :
       /\ \A k \in DOMAIN change : change[k].owner = log[i].owner
       /\ w = UnshieldWitness(log, log[i], amount, recipient, change)

\* The frozen commitments that it was built from, as many as the tree has room for.
SeenInv(seen) == seen \in Seq(Numbers) /\ Len(seen) + 2 <= TREE_CAPACITY

\* What was built was built from the trees as they still are, the frozen one aside.
ProofInv ==
  \/ proof = << >>
  \/ \E w, seen :
       /\ proof = << [signals |-> SignalsOf(w, LiveView(seen)), view |-> LiveView(seen)] >>
       /\ WitnessInv(w)
       /\ SeenInv(seen)

ClawbackInv == LogInv /\ TreeInv /\ FrozenInv /\ IssuerInv /\ ProofInv

----------------------------------------------------------------------------
(* The initial trees.                                                       *)

LEMMA CapacityRoom ==
  /\ TREE_CAPACITY \in Nat /\ TREE_CAPACITY >= 2
  /\ \A index \in 0 .. TREE_CAPACITY - 1 : Fits(index)
BY ClawbackAssumption, CapacityDef, CapacityFits, TreeDepthAssumption

LEMMA LeavesOfDef ==
  ASSUME NEW notes \in Seq(Note)
  PROVE  /\ LeavesOf(notes) \in Seq(TreeLeaves)
         /\ Len(LeavesOf(notes)) = Len(notes)
         /\ \A i \in 1 .. Len(notes) : LeavesOf(notes)[i] = LeafOf(notes[i])
<1> DEFINE leaves == LeavesOf(notes)
           n == Len(notes)
<1>1. n \in Nat /\ DOMAIN notes = 1 .. n /\ \A i \in 1 .. n : notes[i] \in Note
  BY LenProperties, ElementOfSeq
<1>2. leaves = [i \in 1 .. n |-> leaves[i]] /\ \A i \in 1 .. n : leaves[i] = LeafOf(notes[i])
  BY <1>1 DEF LeavesOf
<1>3. \A i \in 1 .. n : leaves[i] \in TreeLeaves
  BY <1>1, <1>2 DEF TreeLeaves
<1> HIDE DEF leaves, n
<1>4. leaves \in Seq(TreeLeaves) /\ Len(leaves) = n
  BY <1>1, <1>2, <1>3, LenOfFunction
<1> QED BY <1>2, <1>4 DEF leaves, n

Shielded(t, note) ==
  LET s == ApplyFrontierTransition(t.frontier, t.leafCount, <<LeafOf(note)>>)
  IN  ApplyTransition(t, s.frontier, s.root, 1)

\* The trees after the first shields.
GrownTo(g, notes, n) == g = [j \in 0 .. n |-> IF j = 0 THEN FreshTree ELSE Shielded(g[j - 1], notes[j])]

LEMMA GrownToExist ==
  ASSUME NEW notes
  PROVE  \A n \in Nat : \E g : GrownTo(g, notes, n)
<1> DEFINE S == {n \in Nat : \E g : GrownTo(g, notes, n)}
<1>1. 0 \in S
  <2>1. GrownTo([j \in 0 .. 0 |-> FreshTree], notes, 0)
    BY DEF GrownTo
  <2> QED BY <2>1
<1>2. ASSUME NEW n \in Nat, n \in S
      PROVE  n + 1 \in S
  <2>1. PICK g : GrownTo(g, notes, n)
    BY <1>2
  <2> DEFINE h == [j \in 0 .. n + 1 |-> IF j = n + 1 THEN Shielded(g[n], notes[n + 1]) ELSE g[j]]
  <2>2. ASSUME NEW j \in 0 .. n + 1
        PROVE  h[j] = IF j = 0 THEN FreshTree ELSE Shielded(h[j - 1], notes[j])
    <3>1. CASE j = n + 1
      BY <3>1
    <3>2. CASE j # n + 1
      BY <3>2, <2>1 DEF GrownTo
    <3> QED BY <3>1, <3>2
  <2>3. h = [j \in 0 .. n + 1 |-> h[j]]
    OBVIOUS
  <2>4. GrownTo(h, notes, n + 1)
    <3> HIDE DEF h
    <3> QED BY <2>2, <2>3 DEF GrownTo
  <2> QED BY <2>4
<1>3. Nat \subseteq S
  <2> HIDE DEF S
  <2> QED BY <1>1, <1>2, NatInduct
<1> QED BY <1>3

\* The ring takes every root, the full one too.
LEMMA RingApplied ==
  ASSUME NEW t, RingOf(t), NEW frontier, NEW root, NEW k
  PROVE  RingOf(ApplyTransition(t, frontier, root, k))
<1> DEFINE ring == t.recentRoots
           pushed == PushRecentRoot(ring, root)
<1>1. PICK S : ring \in Seq(S)
  BY DEF RingOf
<1> HIDE DEF ring
<1>2. PICK older : older \in Seq(S) /\ pushed = Append(older, root)
  <2>1. CASE Len(ring) < RECENT_ROOTS_CAPACITY
    BY <1>1, <2>1 DEF PushRecentRoot
  <2>2. CASE ~(Len(ring) < RECENT_ROOTS_CAPACITY)
    <3>1. ring # << >>
      <4>1. ASSUME ring = << >> PROVE FALSE
        <5>1. Len(ring) = 0
          BY <4>1
        <5> QED BY <2>2, <5>1, TreeAssumption
      <4> QED BY <4>1
    <3>2. Tail(ring) \in Seq(S)
      BY <1>1, <3>1, HeadTailProperties
    <3> QED BY <2>2, <3>2 DEF PushRecentRoot
  <2> QED BY <2>1, <2>2
<1> HIDE DEF pushed
<1>3. older \in Seq(S \cup {root})
  BY <1>2, SeqMonotonic
<1>4. /\ pushed \in Seq(S \cup {root})
      /\ Len(pushed) = Len(older) + 1 /\ pushed[Len(older) + 1] = root
  BY <1>2, <1>3, AppendProperties
<1>5. Len(older) + 1 \in DOMAIN pushed
  <2>1. Len(older) \in Nat /\ DOMAIN pushed = 1 .. Len(pushed)
    BY <1>3, <1>4, LenProperties
  <2> QED BY <1>4, <2>1
<1>6. /\ ApplyTransition(t, frontier, root, k).recentRoots = pushed
      /\ ApplyTransition(t, frontier, root, k).root = root
  BY DEF ApplyTransition, pushed, ring
<1> QED BY <1>4, <1>5, <1>6 DEF RingOf, IsRecentRoot

LEMMA FreshTreeDef ==
  /\ FreshTree.leafCount = 0
  /\ FreshTree.frontier = Replay(<< >>).frontier
  /\ FreshTree.root = Replay(<< >>).root
  /\ RingOf(FreshTree)
<1>1. /\ FreshTree.leafCount = 0
      /\ FreshTree.frontier = Replay(<< >>).frontier
      /\ FreshTree.root = Replay(<< >>).root
      /\ FreshTree.recentRoots = <<Replay(<< >>).root>>
  BY DEF FreshTree, EmptyTree
<1>2. FreshTree.recentRoots \in Seq({FreshTree.root}) /\ IsRecentRoot(FreshTree, FreshTree.root)
  BY <1>1 DEF IsRecentRoot
<1> QED BY <1>1, <1>2 DEF RingOf

\* One shield after another leaves what a replay gives.
LEMMA GrownTreeDef ==
  ASSUME NEW notes \in Seq(Note)
  PROVE  /\ GrownTree(notes).leafCount = Len(notes)
         /\ GrownTree(notes).frontier = Replay(LeavesOf(notes)).frontier
         /\ GrownTree(notes).root = Replay(LeavesOf(notes)).root
         /\ RingOf(GrownTree(notes))
<1> DEFINE g == CHOOSE f : GrownTo(f, notes, Len(notes))
           leaves == LeavesOf(notes)
           first(j) == SubSeq(leaves, 1, j)
           Q(j) == /\ g[j].leafCount = j
                   /\ g[j].frontier = Replay(first(j)).frontier
                   /\ g[j].root = Replay(first(j)).root
                   /\ RingOf(g[j])
           T == {j \in Nat : j <= Len(notes) => Q(j)}
<1>0. Len(notes) \in Nat
  BY LenProperties
<1>1. GrownTo(g, notes, Len(notes))
  BY <1>0, GrownToExist
<1>2. GrownTree(notes) = g[Len(notes)]
  BY DEF GrownTree, GrownTo, Shielded
<1> HIDE DEF g
<1>3. g[0] = FreshTree /\ \A j \in 1 .. Len(notes) : g[j] = Shielded(g[j - 1], notes[j])
  BY <1>0, <1>1 DEF GrownTo
<1>4. /\ leaves \in Seq(TreeLeaves) /\ Len(leaves) = Len(notes)
      /\ \A i \in 1 .. Len(notes) : leaves[i] = LeafOf(notes[i])
  BY LeavesOfDef
<1> HIDE DEF leaves
<1>5. 0 \in T
  <2>1. first(0) = << >>
    BY SubSeqEmpty
  <2> QED BY <1>3, <2>1, FreshTreeDef
<1>6. ASSUME NEW j \in Nat, j \in T
      PROVE  j + 1 \in T
  <2>1. CASE j + 1 <= Len(notes)
    <3>1. j \in 0 .. Len(leaves) - 1 /\ j + 1 \in 1 .. Len(notes) /\ (j + 1) - 1 = j /\ Q(j)
      BY <1>0, <1>4, <1>6, <2>1
    <3>2. /\ first(j) \in Seq(TreeLeaves) /\ Len(first(j)) = j /\ leaves[j + 1] \in TreeLeaves
          /\ first(j + 1) = Append(first(j), leaves[j + 1])
      BY <1>4, <3>1, PrefixAppend
    <3>3. g[j + 1] = Shielded(g[j], notes[j + 1])
      BY <1>3, <3>1
    <3>4. leaves[j + 1] = LeafOf(notes[j + 1])
      BY <1>4, <3>1
    <3> HIDE DEF first
    <3>5. ApplyFrontierTransition(Replay(first(j)).frontier, j, <<leaves[j + 1]>>) = Replay(first(j + 1))
      BY <3>2, ReplayOneMore
    <3>6. RingOf(g[j + 1])
      BY <3>1, <3>3, RingApplied DEF Shielded
    <3>7. Q(j + 1)
      BY <3>1, <3>3, <3>4, <3>5, <3>6 DEF Shielded, ApplyTransition
    <3> QED BY <3>7
  <2>2. CASE ~(j + 1 <= Len(notes))
    BY <2>2
  <2> QED BY <2>1, <2>2
<1>7. Nat \subseteq T
  <2> HIDE DEF T
  <2> QED BY <1>5, <1>6, NatInduct
<1>8. Q(Len(notes))
  <2> HIDE DEF Q
  <2> QED BY <1>0, <1>7
<1>9. first(Len(notes)) = leaves
  BY <1>4, SubSeqFull
<1> HIDE DEF first
<1> QED BY <1>2, <1>8, <1>9 DEF leaves

LEMMA InitClawback == Init => ClawbackInv
<1> SUFFICES ASSUME Init PROVE ClawbackInv
  OBVIOUS
<1>1. log \in Seq(Note) /\ Len(log) \in Nat /\ DOMAIN log = 1 .. Len(log)
  BY ClawbackAssumption, LenProperties DEF Init, Leaves
<1>2. LogInv
  BY <1>1, ClawbackAssumption, GrownTreeDef DEF Init, LogInv, NumberOf
<1>3. TreeInv
  BY <1>1, GrownTreeDef DEF Init, TreeInv
<1>4. FrozenInv
  <2>1. << >> \in Seq(Numbers)
    BY EmptySeq
  <2>2. ToSet(<< >>) = {}
    BY DEF ToSet
  <2>3. Cardinality({}) = 0 /\ Len(<< >>) = 0
    BY FS_EmptySet
  <2> QED BY <2>1, <2>2, <2>3, CapacityRoom DEF Init, FrozenInv
<1>5. IssuerInv /\ ProofInv
  BY DEF Init, IssuerInv, ProofInv
<1> QED BY <1>2, <1>3, <1>4, <1>5 DEF ClawbackInv

----------------------------------------------------------------------------
(* Sets of numbers.                                                         *)

LEMMA RangeOf ==
  ASSUME NEW S, NEW s \in Seq(S)
  PROVE  /\ ToSet(s) = {s[i] : i \in 1 .. Len(s)}
         /\ ToSet(s) \subseteq S
         /\ IsFiniteSet(ToSet(s)) /\ Cardinality(ToSet(s)) <= Len(s)
<1>1. Len(s) \in Nat /\ DOMAIN s = 1 .. Len(s) /\ s \in [1 .. Len(s) -> S]
  BY LenProperties
<1>2. ToSet(s) = {s[i] : i \in 1 .. Len(s)}
  BY <1>1 DEF ToSet
<1>3. s \in Surjection(1 .. Len(s), ToSet(s))
  BY <1>1, <1>2 DEF Surjection
<1>4. IsFiniteSet(1 .. Len(s)) /\ Cardinality(1 .. Len(s)) = Len(s)
  BY <1>1, FS_Interval
<1>5. IsFiniteSet(ToSet(s)) /\ Cardinality(ToSet(s)) <= Cardinality(1 .. Len(s))
  BY <1>3, <1>4, FS_Surjection
<1> QED BY <1>1, <1>2, <1>4, <1>5

LEMMA MinMax ==
  ASSUME NEW k \in Nat, NEW T \in SUBSET (0 .. k - 1), T # {}
  PROVE  Min(T) \in T /\ Max(T) \in T
<1> DEFINE Least(U) == \E x \in U : \A y \in U : x <= y
           Greatest(U) == \E x \in U : \A y \in U : x >= y
           N == {c \in Nat : \A U \in SUBSET (0 .. c - 1) : U # {} => Least(U) /\ Greatest(U)}
<1>1. 0 \in N
  <2>1. \A U \in SUBSET (0 .. 0 - 1) : U = {}
    OBVIOUS
  <2> HIDE DEF Least, Greatest
  <2> QED BY <2>1
<1>2. ASSUME NEW c \in Nat, c \in N
      PROVE  c + 1 \in N
  <2> SUFFICES ASSUME NEW U \in SUBSET (0 .. (c + 1) - 1), U # {}
               PROVE  Least(U) /\ Greatest(U)
    OBVIOUS
  <2>1. CASE c \notin U
    <3>1. U \in SUBSET (0 .. c - 1)
      BY <2>1
    <3> QED BY <1>2, <3>1
  <2>2. CASE c \in U
    <3> DEFINE V == U \ {c}
    <3>1. V \in SUBSET (0 .. c - 1) /\ U = V \cup {c}
      BY <2>2
    <3>2. Greatest(U)
      <4>1. \A y \in U : c >= y
        OBVIOUS
      <4> QED BY <2>2, <4>1
    <3>3. Least(U)
      <4>1. CASE V = {}
        BY <3>1, <4>1
      <4>2. CASE V # {}
        <5>1. Least(V)
          <6> HIDE DEF V, Least, Greatest
          <6> QED BY <1>2, <3>1, <4>2
        <5>2. PICK x \in V : \A y \in V : x <= y
          BY <5>1
        <5>3. \A y \in U : x <= y
          BY <3>1, <5>2
        <5> QED BY <3>1, <5>2, <5>3
      <4> QED BY <4>1, <4>2
    <3> QED BY <3>2, <3>3
  <2> QED BY <2>1, <2>2
<1>3. Nat \subseteq N
  <2> HIDE DEF N
  <2> QED BY <1>1, <1>2, NatInduct
<1>4. Least(T) /\ Greatest(T)
  BY <1>3
<1> QED BY <1>4 DEF Min, Max

\* There is always a commitment left, and the randomness gives one of these.
LEMMA FreshNumbersDef ==
  ASSUME LogInv
  PROVE  FreshNumbers \subseteq Unused /\ Unused \subseteq 6 .. IMT_MAX - 1
<1> DEFINE numbers == [i \in 1 .. Len(log) |-> log[i].rho]
<1>1. Len(log) \in Nat /\ DOMAIN log = 1 .. Len(log)
  BY LenProperties DEF LogInv
<1>2. numbers \in Seq(Int) /\ Len(numbers) = Len(log)
  <2>1. numbers = [i \in 1 .. Len(log) |-> numbers[i]]
    OBVIOUS
  <2>2. \A i \in 1 .. Len(log) : numbers[i] \in Int
    BY DEF LogInv
  <2> HIDE DEF numbers
  <2> QED BY <1>1, <2>1, <2>2, LenOfFunction
<1>3. Unused = (6 .. IMT_MAX - 1) \ ToSet(numbers)
  BY <1>1 DEF Unused, ToSet, NumberOf
<1>4. IMT_MAX \in Nat /\ TREE_CAPACITY \in Nat /\ TREE_CAPACITY + 6 < IMT_MAX
  BY ImtMaxAssumption, CapacityRoom, ClawbackAssumption
<1>5. Unused # {}
  <2> SUFFICES ASSUME Unused = {} PROVE FALSE
    OBVIOUS
  <2>1. 6 .. IMT_MAX - 1 \in SUBSET ToSet(numbers)
    BY <1>3
  <2> HIDE DEF numbers
  <2>2. IsFiniteSet(ToSet(numbers)) /\ Cardinality(ToSet(numbers)) <= Len(numbers)
    BY <1>2, RangeOf
  <2>3. Cardinality(6 .. IMT_MAX - 1) <= Cardinality(ToSet(numbers))
    BY <2>1, <2>2, FS_Subset
  <2>4. Cardinality(6 .. IMT_MAX - 1) = IMT_MAX - 6
    BY <1>4, FS_Interval
  <2>5. Cardinality(ToSet(numbers)) \in Nat
    BY <2>2, FS_CardinalityType
  <2> QED BY <1>1, <1>2, <1>4, <2>2, <2>3, <2>4, <2>5 DEF LogInv
<1>6. Unused \in SUBSET (0 .. IMT_MAX - 1)
  BY <1>3, <1>4
<1>7. Min(Unused) \in Unused /\ Max(Unused) \in Unused
  BY <1>4, <1>5, <1>6, MinMax
<1> QED BY <1>3, <1>7 DEF FreshNumbers

\* What a spender or the issuer reads of the frozen commitments.
LEMMA FrozenSeenDef ==
  ASSUME FrozenInv, NEW seen \in FrozenSeen
  PROVE  seen \in Seq(Numbers) /\ Len(seen) <= Len(frozen) /\ Len(seen) \in Nat
<1>1. Len(frozen) \in Nat /\ \A i \in 1 .. Len(frozen) : frozen[i] \in Numbers
  BY LenProperties, ElementOfSeq DEF FrozenInv
<1>2. ASSUME NEW n \in 0 .. Len(frozen)
      PROVE  SubSeq(frozen, 1, n) \in Seq(Numbers) /\ Len(SubSeq(frozen, 1, n)) <= Len(frozen)
  <2>1. n \in Int /\ \A i \in 1 .. n : frozen[i] \in Numbers
    BY <1>1
  <2> QED BY <1>1, <2>1, SubSeqProperties
<1>3. ASSUME NEW n \in 1 .. Len(frozen)
      PROVE  SubSeq(frozen, n, Len(frozen)) \in Seq(Numbers) /\ Len(SubSeq(frozen, n, Len(frozen))) <= Len(frozen)
  <2>1. n \in Int /\ Len(frozen) \in Int /\ \A i \in n .. Len(frozen) : frozen[i] \in Numbers
    BY <1>1
  <2> QED BY <1>1, <2>1, SubSeqProperties
<1>4. seen \in Seq(Numbers) /\ Len(seen) <= Len(frozen)
  BY <1>2, <1>3 DEF FrozenSeen
<1> QED BY <1>4, LenProperties

LEMMA SeenFits ==
  ASSUME ClawbackInv, NEW seen \in FrozenSeen
  PROVE  SeenInv(seen)
BY FrozenSeenDef, CapacityRoom, LenProperties DEF ClawbackInv, FrozenInv, SeenInv

----------------------------------------------------------------------------
(* The frozen root.                                                         *)

LEMMA StartFreezeInv ==
  ASSUME ClawbackInv, NEW seen \in FrozenSeen, StartFreeze(seen)
  PROVE  IssuerInv'
<1>1. seen \in Seq(Numbers) /\ Len(seen) <= Len(frozen) /\ Len(seen) \in Nat
  BY FrozenSeenDef DEF ClawbackInv
<1>2. desk.target \in Numbers
  BY DEF StartFreeze, CanFreeze, Numbers
<1>3. Len(seen) + 3 <= TREE_CAPACITY /\ Len(frozen) + 3 <= TREE_CAPACITY /\ frozen' = frozen
  <2>1. Len(frozen) \in Nat
    BY LenProperties DEF ClawbackInv, FrozenInv
  <2> QED BY <1>1, <2>1, CapacityRoom DEF StartFreeze, chainVars
<1>4. issuer' = [target |-> desk.target, seen |-> seen, root |-> ComputeFreeze(seen, desk.target)]
  BY DEF StartFreeze
<1> QED BY <1>1, <1>2, <1>3, <1>4 DEF IssuerInv

LEMMA FreezeInv ==
  ASSUME ClawbackInv, Freeze
  PROVE  FrozenInv'
<1>1. PICK seen \in Seq(Numbers) : \E target \in Numbers :
         /\ Len(seen) + 3 <= TREE_CAPACITY
         /\ issuer = [target |-> target, seen |-> seen, root |-> ComputeFreeze(seen, target)]
  BY DEF ClawbackInv, IssuerInv, Freeze
<1>2. PICK target \in Numbers :
         /\ Len(seen) + 3 <= TREE_CAPACITY
         /\ issuer = [target |-> target, seen |-> seen, root |-> ComputeFreeze(seen, target)]
  BY <1>1
<1> DEFINE cms == seen \o <<target>>
<1>3. /\ frozen' = Append(frozen, target)
      /\ frozenRoot' = FrozenRootOf(cms)
      /\ behind' = ToSet(seen) \cup {target}
  BY <1>2 DEF Freeze, ComputeFreeze
<1>4. frozen' \in Seq(Numbers) /\ Len(frozen') + 2 <= TREE_CAPACITY
  <2>1. frozen \in Seq(Numbers) /\ Len(frozen) \in Nat /\ Len(frozen) + 3 <= TREE_CAPACITY
    BY LenProperties DEF ClawbackInv, FrozenInv, IssuerInv, Freeze
  <2>2. Len(frozen') = Len(frozen) + 1 /\ frozen' \in Seq(Numbers)
    BY <1>3, <2>1
  <2> QED BY <2>1, <2>2, CapacityRoom
<1>5. cms \in Seq(Numbers) /\ Len(cms) = Len(seen) + 1 /\ Len(seen) \in Nat
  BY LenProperties
<1>6. ToSet(cms) = ToSet(seen) \cup {target}
  <2>1. /\ \A i \in 1 .. Len(seen) : cms[i] = seen[i]
        /\ cms[Len(seen) + 1] = target
    BY <1>5
  <2>2. \A i \in 1 .. Len(seen) + 1 : i \in 1 .. Len(seen) \/ i = Len(seen) + 1
    BY <1>5
  <2>3. \A i \in 1 .. Len(seen) : i \in 1 .. Len(seen) + 1
    BY <1>5
  <2>4. Len(seen) + 1 \in 1 .. Len(seen) + 1
    BY <1>5
  <2>5. ToSet(cms) = {cms[i] : i \in 1 .. Len(seen) + 1} /\ ToSet(seen) = {seen[i] : i \in 1 .. Len(seen)}
    BY <1>5, RangeOf
  <2> HIDE DEF cms
  <2> QED BY <2>1, <2>2, <2>3, <2>4, <2>5
<1> HIDE DEF cms
<1>7. ToSet(cms) \subseteq Numbers /\ Cardinality(ToSet(cms)) <= Len(seen) + 1 /\ Cardinality(ToSet(cms)) \in Nat
  BY <1>5, RangeOf, FS_CardinalityType
<1>8. Cardinality(ToSet(cms)) + 2 <= TREE_CAPACITY
  BY <1>2, <1>5, <1>7, CapacityRoom
<1> QED BY <1>3, <1>4, <1>6, <1>7, <1>8 DEF FrozenInv

----------------------------------------------------------------------------
(* Witnesses.                                                               *)

LEMMA BuildInv ==
  ASSUME NEW w, NEW seen, Build(w, seen), WitnessInv(w), SeenInv(seen)
  PROVE  ProofInv'
<1>1. log' = log /\ tree' = tree
  BY DEF Build, chainVars
<1>2. WitnessInv(w)'
  BY <1>1 DEF WitnessInv, Minting, Unused
<1>3. proof' = << [signals |-> SignalsOf(w, LiveView(seen)), view |-> LiveView(seen)] >>
  BY DEF Build
<1>4. LiveView(seen)' = LiveView(seen)
  BY <1>1 DEF LiveView
<1>5. SeenInv(seen)'
  BY DEF SeenInv
<1> QED BY <1>2, <1>3, <1>4, <1>5 DEF ProofInv

LEMMA MintedDef ==
  ASSUME LogInv, NEW asset \in Assets, NEW value \in Nat, NEW owner \in Owners, NEW f \in FreshNumbers
  PROVE  Minted(asset, value, owner, f) \in Minting /\ Minted(asset, value, owner, f).rho = f
<1>1. f \in Unused /\ f \in 6 .. IMT_MAX - 1
  BY FreshNumbersDef
<1> QED BY <1>1 DEF Minted, Minting, Draft

LEMMA LogNote ==
  ASSUME LogInv, NEW i \in 1 .. Len(log)
  PROVE  /\ log[i] \in Note
         /\ log[i].asset \in Assets /\ log[i].owner \in Owners /\ log[i].value \in Nat /\ log[i].value \in Value
         /\ log[i].rho \in 6 .. IMT_MAX - 1
<1>1. log[i] \in Note
  BY ElementOfSeq DEF LogInv
<1> QED BY <1>1, NotesAssumption DEF Note, Value, LogInv

LEMMA BuildShieldInv ==
  ASSUME ClawbackInv, BuildShield
  PROVE  ProofInv'
<1>1. PICK d \in Deposits, f \in FreshNumbers : Build(ShieldWitness(Minted(d.asset, d.value, d.owner, f)), << >>)
  BY DEF BuildShield
<1>2. Minted(d.asset, d.value, d.owner, f) \in Minting
  BY MintedDef, ClawbackAssumption DEF ClawbackInv
<1>3. WitnessInv(ShieldWitness(Minted(d.asset, d.value, d.owner, f)))
  BY <1>2 DEF WitnessInv
<1>4. SeenInv(<< >>)
  BY EmptySeq, CapacityRoom DEF SeenInv
<1> QED BY <1>1, <1>3, <1>4, BuildInv

LEMMA BuildTransferInv ==
  ASSUME ClawbackInv, BuildTransfer
  PROVE  ProofInv'
<1>1. PICK i \in Unspent, j \in Unspent :
         \E payee \in Owners, f \in FreshNumbers, g \in FreshNumbers, seen \in FrozenSeen :
           \E amount \in 1 .. log[i].value + log[j].value :
             f # g /\ Build(Payment(log[i], log[j], payee, amount, f, g), seen)
  BY DEF BuildTransfer
<1>2. PICK payee \in Owners, f \in FreshNumbers, g \in FreshNumbers, seen \in FrozenSeen :
           \E amount \in 1 .. log[i].value + log[j].value :
             f # g /\ Build(Payment(log[i], log[j], payee, amount, f, g), seen)
  BY <1>1
<1>3. PICK amount \in 1 .. log[i].value + log[j].value :
         f # g /\ Build(Payment(log[i], log[j], payee, amount, f, g), seen)
  BY <1>2
<1> DEFINE o == Minted(log[i].asset, amount, payee, f)
           p == Minted(log[i].asset, log[i].value + log[j].value - amount, log[i].owner, g)
<1>4. i \in 1 .. Len(log) /\ j \in 1 .. Len(log)
  BY LenProperties DEF ClawbackInv, LogInv, Unspent
<1>5. /\ log[i].asset \in Assets /\ log[i].owner \in Owners
      /\ log[i].value \in Nat /\ log[j].value \in Nat
  BY <1>4, LogNote DEF ClawbackInv
<1>6. amount \in Nat /\ log[i].value + log[j].value - amount \in Nat
  BY <1>5
<1>7. o \in Minting /\ o.rho = f
  BY <1>5, <1>6, MintedDef DEF ClawbackInv
<1>8. p \in Minting /\ p.rho = g /\ p.owner = log[i].owner
  BY <1>5, <1>6, MintedDef DEF ClawbackInv, Minted
<1>9. Payment(log[i], log[j], payee, amount, f, g) = TransferWitness(log, log[i], log[j], o, p)
  BY DEF Payment
<1> HIDE DEF o, p
<1>10. WitnessInv(TransferWitness(log, log[i], log[j], o, p))
  BY <1>3, <1>4, <1>7, <1>8 DEF WitnessInv
<1> QED BY <1>3, <1>9, <1>10, SeenFits, BuildInv

LEMMA BuildUnshieldInv ==
  ASSUME ClawbackInv, BuildUnshield
  PROVE  ProofInv'
<1> DEFINE Change(i, amount, f) ==
             IF amount = log[i].value THEN << >>
             ELSE <<Minted(log[i].asset, log[i].value - amount, log[i].owner, f)>>
<1>1. PICK i \in Unspent, recipient \in Owners, f \in FreshNumbers, seen \in FrozenSeen :
         \E amount \in 1 .. log[i].value :
           Build(UnshieldWitness(log, log[i], amount, recipient, Change(i, amount, f)), seen)
  BY DEF BuildUnshield
<1>2. PICK amount \in 1 .. log[i].value :
         Build(UnshieldWitness(log, log[i], amount, recipient, Change(i, amount, f)), seen)
  BY <1>1
<1>3. i \in 1 .. Len(log)
  BY LenProperties DEF ClawbackInv, LogInv, Unspent
<1>4. log[i].asset \in Assets /\ log[i].owner \in Owners /\ log[i].value \in Nat
  BY <1>3, LogNote DEF ClawbackInv
<1>5. amount \in Nat /\ log[i].value - amount \in Nat
  BY <1>4
<1>6. Minted(log[i].asset, log[i].value - amount, log[i].owner, f) \in Minting
  BY <1>4, <1>5, MintedDef DEF ClawbackInv
<1>7. /\ Change(i, amount, f) \in {<< >>} \cup {<<o>> : o \in Minting}
      /\ \A k \in DOMAIN Change(i, amount, f) : Change(i, amount, f)[k].owner = log[i].owner
  BY <1>6 DEF Minted
<1> HIDE DEF Change
<1>8. WitnessInv(UnshieldWitness(log, log[i], amount, recipient, Change(i, amount, f)))
  BY <1>3, <1>5, <1>7 DEF WitnessInv
<1> QED BY <1>2, <1>8, SeenFits, BuildInv

\* In every case: notes of the tree are spent, and one or two are made, except by an
\* exact unshield.
LEMMA WitnessShape ==
  ASSUME NEW w, WitnessInv(w)
  PROVE  /\ \A k \in DOMAIN w.ins : \E i \in 1 .. Len(log) : w.ins[k] = log[i]
         /\ w.kind = "shield" => w.ins = << >>
         /\ \/ w.outs = << >>
            \/ \E o \in Minting : w.outs = <<o>>
            \/ \E o, p \in Minting : w.outs = <<o, p>> /\ o.rho # p.rho
<1> DEFINE FromTree == \A k \in DOMAIN w.ins : \E n \in 1 .. Len(log) : w.ins[k] = log[n]
           ShieldSpendsNothing == w.kind = "shield" => w.ins = << >>
           Outs == \/ w.outs = << >>
                   \/ \E o \in Minting : w.outs = <<o>>
                   \/ \E o, p \in Minting : w.outs = <<o, p>> /\ o.rho # p.rho
           Shape == FromTree /\ ShieldSpendsNothing /\ Outs
<1>1. ASSUME NEW o \in Minting, w = ShieldWitness(o)
      PROVE  Shape
  <2>1. w.ins = << >> /\ w.outs = <<o>>
    BY <1>1 DEF ShieldWitness
  <2>2. FromTree /\ ShieldSpendsNothing
    BY <2>1
  <2>3. Outs
    BY <2>1
  <2> QED BY <2>2, <2>3
<1>2. ASSUME NEW i \in 1 .. Len(log), NEW j \in 1 .. Len(log), NEW o \in Minting, NEW p \in Minting, o.rho # p.rho,
             w = TransferWitness(log, log[i], log[j], o, p)
      PROVE  Shape
  <2>1. w.ins = <<log[i], log[j]>> /\ w.kind = "transfer" /\ w.outs = <<o, p>>
    BY <1>2 DEF TransferWitness
  <2>2. \A k \in DOMAIN w.ins : w.ins[k] = log[i] \/ w.ins[k] = log[j]
    BY <2>1
  <2>3. FromTree /\ ShieldSpendsNothing
    BY <2>1, <2>2
  <2>4. Outs
    BY <1>2, <2>1
  <2> QED BY <2>3, <2>4
<1>3. ASSUME NEW i \in 1 .. Len(log), NEW amount \in Nat, NEW recipient \in Owners,
             NEW change \in {<< >>} \cup {<<o>> : o \in Minting},
             w = UnshieldWitness(log, log[i], amount, recipient, change)
      PROVE  Shape
  <2>1. w.ins = <<log[i]>> /\ w.kind = "unshield" /\ w.outs = change
    BY <1>3 DEF UnshieldWitness
  <2>2. \A k \in DOMAIN w.ins : w.ins[k] = log[i]
    BY <2>1
  <2>3. FromTree /\ ShieldSpendsNothing
    BY <2>1, <2>2
  <2>4. Outs
    BY <1>3, <2>1
  <2> QED BY <2>3, <2>4
<1>4. Shape
  <2> HIDE DEF Shape
  <2> QED BY <1>1, <1>2, <1>3 DEF WitnessInv
<1> QED BY <1>4

----------------------------------------------------------------------------
(* A submission.                                                            *)

LEMMA SignalsOfDef ==
  ASSUME NEW w, NEW v
  PROVE  LET s == SignalsOf(w, v)
         IN  /\ s.w = w
             /\ s.nullifiers = [i \in DOMAIN w.ins |-> Nullifier(w.ins[i])]
             /\ s.unfrozen = [i \in DOMAIN w.ins |-> FrozenNonMembership(v.frozen, NumberOf(w.ins[i]))]
             /\ s.oldFrontier = v.frontier
             /\ s.nextIndex = v.nextIndex
             /\ s.newFrontier = Transition(w, v).frontier
             /\ s.newRoot = Transition(w, v).root
BY DEF SignalsOf

LEMMA LeavesOfAppend ==
  ASSUME NEW notes \in Seq(Note), NEW o \in Note
  PROVE  LeavesOf(Append(notes, o)) = Append(LeavesOf(notes), LeafOf(o))
<1> DEFINE more == Append(notes, o)
           leaves == LeavesOf(notes)
           n == Len(notes)
<1>1. /\ more \in Seq(Note) /\ Len(more) = n + 1 /\ n \in Nat
      /\ \A i \in 1 .. n : more[i] = notes[i]
      /\ more[n + 1] = o
  BY AppendProperties, LenProperties
<1>2. /\ leaves \in Seq(TreeLeaves) /\ Len(leaves) = n
      /\ \A i \in 1 .. n : leaves[i] = LeafOf(notes[i])
  BY LeavesOfDef
<1> HIDE DEF more, leaves, n
<1>3. /\ LeavesOf(more) \in Seq(TreeLeaves) /\ Len(LeavesOf(more)) = n + 1
      /\ \A i \in 1 .. n + 1 : LeavesOf(more)[i] = LeafOf(more[i])
  BY <1>1, LeavesOfDef
<1>4. LeafOf(o) \in TreeLeaves
  BY DEF TreeLeaves
<1>5. /\ Append(leaves, LeafOf(o)) \in Seq(TreeLeaves) /\ Len(Append(leaves, LeafOf(o))) = n + 1
      /\ \A i \in 1 .. n : Append(leaves, LeafOf(o))[i] = leaves[i]
      /\ Append(leaves, LeafOf(o))[n + 1] = LeafOf(o)
  BY <1>2, <1>4, AppendProperties
<1>6. \A i \in 1 .. n + 1 : LeavesOf(more)[i] = Append(leaves, LeafOf(o))[i]
  <2>1. \A i \in 1 .. n + 1 : i \in 1 .. n \/ i = n + 1
    BY <1>1
  <2> QED BY <1>1, <1>2, <1>3, <1>5, <2>1
<1>7. LeavesOf(more) = Append(leaves, LeafOf(o))
  BY <1>3, <1>5, <1>6, SeqEqual
<1> QED BY <1>7 DEF more, leaves

\* The tree after a submission is the replay of the leaves and the new ones; an
\* exact unshield leaves it as it is.
SubmitsTree(w) ==
  /\ log' = log \o w.outs
  /\ tree'.leafCount = tree.leafCount + Len(w.outs)
  /\ tree.leafCount + Len(Inserted(w)) <= TREE_CAPACITY
  /\ LET t == ApplyFrontierTransition(tree.frontier, tree.leafCount, Inserted(w))
     IN  /\ tree'.frontier = IF w.outs = << >> THEN tree.frontier ELSE t.frontier
         /\ tree'.root = t.root

LEMMA SubmitTree ==
  ASSUME ClawbackInv, Submit, NEW w, NEW v, proof = << [signals |-> SignalsOf(w, v), view |-> v] >>, WitnessInv(w)
  PROVE  SubmitsTree(w) /\ \A i \in DOMAIN w.outs : w.outs[i].value \in Value
<1> DEFINE s == SignalsOf(w, v)
           t == ApplyFrontierTransition(v.frontier, v.nextIndex, Inserted(w))
<1>1. /\ proof[1].signals = s
      /\ WitnessOk(s) /\ Accepts(s)
      /\ tree' = ApplyTransition(tree, s.newFrontier, s.newRoot, Len(s.w.outs))
      /\ log' = log \o s.w.outs
  BY DEF Submit
<1>2. /\ s.w = w
      /\ s.oldFrontier = v.frontier /\ s.nextIndex = v.nextIndex
      /\ s.newFrontier = Transition(w, v).frontier /\ s.newRoot = Transition(w, v).root
  <2> HIDE DEF t
  <2>1. LET u == SignalsOf(w, v)
        IN  /\ u.w = w
            /\ u.nullifiers = [i \in DOMAIN w.ins |-> Nullifier(w.ins[i])]
            /\ u.unfrozen = [i \in DOMAIN w.ins |-> FrozenNonMembership(v.frozen, NumberOf(w.ins[i]))]
            /\ u.oldFrontier = v.frontier
            /\ u.nextIndex = v.nextIndex
            /\ u.newFrontier = Transition(w, v).frontier
            /\ u.newRoot = Transition(w, v).root
    BY SignalsOfDef
  <2> QED BY <2>1
<1> HIDE DEF s
<1>3. tree.frontier = v.frontier /\ tree.leafCount = v.nextIndex
  BY <1>1, <1>2 DEF Accepts, CheckOldFrontier, CheckNextIndex
<1>4. \A i \in DOMAIN w.outs : w.outs[i].value \in Value
  BY <1>1, <1>2 DEF WitnessOk, NewNotes
<1>5. tree.leafCount + Len(Inserted(w)) <= TREE_CAPACITY
  BY <1>1, <1>2, <1>3 DEF WitnessOk, Advanced, IndicesFit
<1>6. tree'.frontier = s.newFrontier /\ tree'.root = s.newRoot /\ tree'.leafCount = tree.leafCount + Len(w.outs)
  BY <1>1, <1>2 DEF ApplyTransition
<1>7. CASE w.outs = << >>
  <2>1. Transition(w, v) = [t EXCEPT !.frontier = v.frontier]
    BY <1>7 DEF Transition
  <2>2. Inserted(w) = <<EMPTY_LEAF>>
    BY <1>7 DEF Inserted
  <2>3. t = [frontier |-> t.frontier, root |-> t.root]
    <3>1. v.frontier = Replay(LeavesOf(log)).frontier /\ v.nextIndex = Len(LeavesOf(log))
      BY <1>3, LeavesOfDef DEF ClawbackInv, LogInv, TreeInv
    <3>2. LeavesOf(log) \in Seq(TreeLeaves) /\ EMPTY_LEAF \in TreeLeaves
      BY LeavesOfDef DEF TreeLeaves, ClawbackInv, LogInv
    <3>3. t = Replay(Append(LeavesOf(log), EMPTY_LEAF))
      BY <2>2, <3>1, <3>2, ReplayOneMore
    <3>4. /\ Append(LeavesOf(log), EMPTY_LEAF) \in Seq(TreeLeaves)
          /\ Len(Append(LeavesOf(log), EMPTY_LEAF)) = Len(log) + 1
      BY <3>2, AppendProperties, LeavesOfDef DEF ClawbackInv, LogInv
    <3>5. \A i \in 0 .. Len(Append(LeavesOf(log), EMPTY_LEAF)) - 1 : Fits(i)
      <4>1. Len(Inserted(w)) = 1
        BY <2>2
      <4>2. Len(log) \in Nat
        BY LenProperties DEF ClawbackInv, LogInv
      <4>3. Len(log) + 1 <= TREE_CAPACITY
        BY <1>5, <4>1 DEF ClawbackInv, LogInv
      <4> QED BY <3>4, <4>2, <4>3, CapacityRoom
    <3> HIDE DEF t
    <3> QED BY <3>3, <3>4, <3>5, ReplayIsTree
  <2>4. Transition(w, v).frontier = v.frontier /\ Transition(w, v).root = t.root
    <3> HIDE DEF t
    <3> QED BY <2>1, <2>3
  <2> QED BY <1>1, <1>2, <1>3, <1>4, <1>5, <1>6, <1>7, <2>4 DEF SubmitsTree
<1>8. CASE w.outs # << >>
  <2>1. Transition(w, v) = t
    BY <1>8 DEF Transition
  <2> QED BY <1>1, <1>2, <1>3, <1>4, <1>5, <1>6, <1>8, <2>1 DEF SubmitsTree
<1> QED BY <1>7, <1>8

LEMMA SubmitInv ==
  ASSUME ClawbackInv, Submit
  PROVE  LogInv' /\ TreeInv'
<1>0. RingOf(tree)'
  <2>1. RingOf(tree)
    BY DEF ClawbackInv, TreeInv
  <2>2. PICK frontier, root, k : tree' = ApplyTransition(tree, frontier, root, k)
    BY DEF Submit
  <2>3. RingOf(ApplyTransition(tree, frontier, root, k))
    BY <2>1, RingApplied
  <2> QED BY <2>2, <2>3 DEF RingOf, IsRecentRoot
<1>1. PICK w, v : proof = << [signals |-> SignalsOf(w, v), view |-> v] >> /\ WitnessInv(w)
  BY DEF ClawbackInv, ProofInv, Submit
<1>2. SubmitsTree(w) /\ \A i \in DOMAIN w.outs : w.outs[i].value \in Value
  BY <1>1, SubmitTree
<1> DEFINE leaves == LeavesOf(log)
           n == Len(log)
<1>3. /\ log \in Seq(Note) /\ n \in Nat /\ n <= TREE_CAPACITY
      /\ tree.leafCount = n
      /\ \A i \in 1 .. n : log[i].rho \in 6 .. IMT_MAX - 1
      /\ \A i, j \in 1 .. n : log[i].rho = log[j].rho => i = j
      /\ tree.frontier = Replay(leaves).frontier /\ tree.root = Replay(leaves).root
  BY LenProperties DEF ClawbackInv, LogInv, TreeInv
<1>4. leaves \in Seq(TreeLeaves) /\ Len(leaves) = n
  BY <1>3, LeavesOfDef
<1>5. TREE_CAPACITY \in Nat /\ \A i \in 0 .. TREE_CAPACITY - 1 : Fits(i)
  BY CapacityRoom
<1>6. \A x \in Unused : x \in 6 .. IMT_MAX - 1 /\ \A i \in 1 .. n : log[i].rho # x
  <2>1. DOMAIN log = 1 .. n
    BY <1>3, LenProperties
  <2> QED BY <2>1 DEF Unused, NumberOf
<1> HIDE DEF leaves, n
<1>7. \A o \in Draft : o.value \in Value => o \in Note
  BY DEF Draft, Note
<1>8. CASE w.outs = << >>
  <2>1. log' = log
    BY <1>2, <1>3, <1>8, ConcatEmptySeq DEF SubmitsTree
  <2>2. Inserted(w) = <<EMPTY_LEAF>> /\ Len(Inserted(w)) = 1
    BY <1>8 DEF Inserted
  <2>3. tree'.frontier = tree.frontier /\ tree'.leafCount = n
    BY <1>2, <1>3, <1>8 DEF SubmitsTree
  <2>4. tree'.root = Replay(Append(leaves, EMPTY_LEAF)).root
    <3>1. EMPTY_LEAF \in TreeLeaves
      BY DEF TreeLeaves
    <3>2. ApplyFrontierTransition(Replay(leaves).frontier, Len(leaves), <<EMPTY_LEAF>>) = Replay(Append(leaves, EMPTY_LEAF))
      BY <1>4, <3>1, ReplayOneMore
    <3> QED BY <1>2, <1>3, <1>4, <2>2, <3>2 DEF SubmitsTree
  <2>5. Replay(Append(leaves, EMPTY_LEAF)).root = Replay(leaves).root
    <3>1. EMPTY_LEAF \in TreeLeaves /\ TREE_DEPTH \in 0 .. TREE_DEPTH
      BY TreeDepthAssumption DEF TreeLeaves
    <3>2. n + 1 <= TREE_CAPACITY
      BY <1>2, <1>3, <2>2 DEF SubmitsTree
    <3>3. Append(leaves, EMPTY_LEAF) \in Seq(TreeLeaves) /\ Len(Append(leaves, EMPTY_LEAF)) = n + 1
      BY <1>4, <3>1, AppendProperties
    <3>4. /\ \A i \in 0 .. Len(Append(leaves, EMPTY_LEAF)) - 1 : Fits(i)
          /\ \A i \in 0 .. Len(leaves) - 1 : Fits(i)
      <4>1. (n + 1) - 1 = n /\ \A i \in 0 .. n : i \in 0 .. TREE_CAPACITY - 1
        BY <1>3, <1>5, <3>2
      <4>2. \A i \in 0 .. n - 1 : i \in 0 .. n
        BY <1>3
      <4> QED BY <1>4, <1>5, <3>3, <4>1, <4>2
    <3>5. Replay(Append(leaves, EMPTY_LEAF)).root = Node(Append(leaves, EMPTY_LEAF), TREE_DEPTH, 0)
      BY <3>3, <3>4, ReplayIsTree
    <3>6. Replay(leaves).root = Node(leaves, TREE_DEPTH, 0)
      BY <1>4, <3>4, ReplayIsTree
    <3>7. Node(Append(leaves, EMPTY_LEAF), TREE_DEPTH, 0) = Node(leaves, TREE_DEPTH, 0)
      BY <1>4, <3>1, NodesWithEmptyLeaf
    <3> QED BY <3>5, <3>6, <3>7
  <2> QED BY <1>0, <1>3, <2>1, <2>3, <2>4, <2>5 DEF LogInv, TreeInv, leaves, n
<1>9. ASSUME NEW o \in Draft, w.outs = <<o>>, o.rho \in Unused
      PROVE  LogInv' /\ TreeInv'
  <2>1. o \in Note
    <3>1. 1 \in DOMAIN w.outs /\ w.outs[1] = o
      BY <1>9
    <3> QED BY <1>2, <1>7, <3>1
  <2>2. log' = Append(log, o)
    BY <1>2, <1>3, <1>9 DEF SubmitsTree
  <2>3. Inserted(w) = <<LeafOf(o)>> /\ Len(Inserted(w)) = 1 /\ Len(w.outs) = 1 /\ w.outs # << >>
    BY <1>9 DEF Inserted
  <2>4. LeavesOf(log') = Append(leaves, LeafOf(o))
    BY <1>3, <2>1, <2>2, LeavesOfAppend DEF leaves
  <2>5. ApplyFrontierTransition(Replay(leaves).frontier, Len(leaves), <<LeafOf(o)>>) = Replay(Append(leaves, LeafOf(o)))
    BY <1>4, <2>1, ReplayOneMore DEF TreeLeaves
  <2>6. TreeInv'
    BY <1>0, <1>2, <1>3, <1>4, <2>3, <2>4, <2>5 DEF SubmitsTree, TreeInv
  <2>7. /\ log' \in Seq(Note) /\ Len(log') = n + 1
        /\ \A i \in 1 .. n : log'[i] = log[i]
        /\ log'[n + 1] = o
    BY <1>3, <2>1, <2>2, AppendProperties DEF n
  <2>8. tree'.leafCount = n + 1 /\ n + 1 <= TREE_CAPACITY
    BY <1>2, <1>3, <2>3 DEF SubmitsTree
  <2>9. \A i \in 1 .. n + 1 : i \in 1 .. n \/ i = n + 1
    BY <1>3
  <2>10. /\ \A i \in 1 .. n + 1 : log'[i].rho \in 6 .. IMT_MAX - 1
         /\ \A i, j \in 1 .. n + 1 : log'[i].rho = log'[j].rho => i = j
    <3>1. \A i \in 1 .. n + 1 : log'[i].rho \in 6 .. IMT_MAX - 1
      BY <1>3, <1>6, <1>9, <2>7, <2>9
    <3>2. ASSUME NEW i \in 1 .. n + 1, NEW j \in 1 .. n + 1, log'[i].rho = log'[j].rho
          PROVE  i = j
      <4>1. CASE i \in 1 .. n /\ j \in 1 .. n
        BY <1>3, <2>7, <3>2, <4>1
      <4>2. CASE i = n + 1 \/ j = n + 1
        BY <1>6, <1>9, <2>7, <2>9, <3>2, <4>2
      <4> QED BY <2>9, <4>1, <4>2
    <3> QED BY <3>1, <3>2
  <2> QED BY <2>6, <2>7, <2>8, <2>10 DEF LogInv
<1>10. ASSUME NEW o \in Draft, NEW p \in Draft, w.outs = <<o, p>>, o.rho \in Unused, p.rho \in Unused, o.rho # p.rho
       PROVE  LogInv' /\ TreeInv'
  <2>1. o \in Note /\ p \in Note
    <3>1. 1 \in DOMAIN w.outs /\ w.outs[1] = o /\ 2 \in DOMAIN w.outs /\ w.outs[2] = p
      BY <1>10
    <3> QED BY <1>2, <1>7, <3>1
  <2> DEFINE one == Append(log, o)
  <2>2. log' = Append(one, p)
    BY <1>2, <1>3, <1>10, <2>1 DEF SubmitsTree
  <2>3. Inserted(w) = <<LeafOf(o), LeafOf(p)>> /\ Len(Inserted(w)) = 2 /\ Len(w.outs) = 2 /\ w.outs # << >>
    BY <1>10 DEF Inserted
  <2>4. LeavesOf(log') = Append(Append(leaves, LeafOf(o)), LeafOf(p))
    <3>1. one \in Seq(Note) /\ LeavesOf(one) = Append(leaves, LeafOf(o))
      BY <1>3, <2>1, LeavesOfAppend, AppendProperties DEF leaves
    <3> HIDE DEF one
    <3>2. LeavesOf(Append(one, p)) = Append(LeavesOf(one), LeafOf(p))
      BY <2>1, <3>1, LeavesOfAppend
    <3> QED BY <2>2, <3>1, <3>2
  <2>5. ApplyFrontierTransition(Replay(leaves).frontier, Len(leaves), <<LeafOf(o), LeafOf(p)>>)
          = Replay(Append(Append(leaves, LeafOf(o)), LeafOf(p)))
    BY <1>4, <2>1, ReplayTwoMore DEF TreeLeaves
  <2>6. TreeInv'
    BY <1>0, <1>2, <1>3, <1>4, <2>3, <2>4, <2>5 DEF SubmitsTree, TreeInv
  <2>7. /\ one \in Seq(Note) /\ Len(one) = n + 1
        /\ \A i \in 1 .. n : one[i] = log[i]
        /\ one[n + 1] = o
    BY <1>3, <2>1, AppendProperties DEF n
  <2> HIDE DEF one
  <2>8. /\ log' \in Seq(Note) /\ Len(log') = n + 2
        /\ \A i \in 1 .. n + 1 : log'[i] = one[i]
        /\ log'[n + 2] = p
    <3>1. (n + 1) + 1 = n + 2
      BY <1>3
    <3> QED BY <2>1, <2>2, <2>7, <3>1, AppendProperties
  <2>9. tree'.leafCount = n + 2 /\ n + 2 <= TREE_CAPACITY
    BY <1>2, <1>3, <2>3 DEF SubmitsTree
  <2>10. /\ \A i \in 1 .. n + 2 : i \in 1 .. n \/ i = n + 1 \/ i = n + 2
         /\ \A i \in 1 .. n : i \in 1 .. n + 1
         /\ n + 1 \in 1 .. n + 1
    BY <1>3
  <2>11. (\A i \in 1 .. n : log'[i] = log[i]) /\ log'[n + 1] = o /\ log'[n + 2] = p
    BY <2>7, <2>8, <2>10
  <2>12. /\ \A i \in 1 .. n + 2 : log'[i].rho \in 6 .. IMT_MAX - 1
         /\ \A i, j \in 1 .. n + 2 : log'[i].rho = log'[j].rho => i = j
    <3>1. \A i \in 1 .. n + 2 : log'[i].rho \in 6 .. IMT_MAX - 1
      BY <1>3, <1>6, <1>10, <2>10, <2>11
    <3>2. ASSUME NEW i \in 1 .. n + 2, NEW j \in 1 .. n + 2, log'[i].rho = log'[j].rho
          PROVE  i = j
      <4>1. CASE i \in 1 .. n /\ j \in 1 .. n
        BY <1>3, <2>11, <3>2, <4>1
      <4>2. CASE i = n + 1
        BY <1>6, <1>10, <2>10, <2>11, <3>2, <4>2
      <4>3. CASE i = n + 2
        BY <1>6, <1>10, <2>10, <2>11, <3>2, <4>3
      <4>4. CASE j = n + 1 \/ j = n + 2
        BY <1>6, <1>10, <2>10, <2>11, <3>2, <4>4
      <4> QED BY <2>10, <4>1, <4>2, <4>3, <4>4
    <3> QED BY <3>1, <3>2
  <2> QED BY <2>6, <2>8, <2>9, <2>12 DEF LogInv
<1> QED BY <1>1, <1>8, <1>9, <1>10, WitnessShape DEF Minting

----------------------------------------------------------------------------
(* Every step.                                                              *)

Still == UNCHANGED <<tree, log, frozen, frozenRoot, behind>>

LEMMA StillInv ==
  ASSUME ClawbackInv, Still
  PROVE  LogInv' /\ TreeInv' /\ FrozenInv'
<1>1. LogInv' /\ TreeInv'
  BY DEF Still, ClawbackInv, LogInv, TreeInv, RingOf, IsRecentRoot
<1>2. FrozenInv'
  BY DEF Still, ClawbackInv, FrozenInv
<1> QED BY <1>1, <1>2

LEMMA IssuerStill ==
  ASSUME ClawbackInv, issuer' = issuer, frozen' = frozen
  PROVE  IssuerInv'
BY DEF ClawbackInv, IssuerInv

LEMMA ProofStill ==
  ASSUME ClawbackInv, proof' = proof, log' = log, tree' = tree
  PROVE  ProofInv'
<1>1. CASE proof = << >>
  BY <1>1 DEF ProofInv
<1>2. CASE proof # << >>
  <2>1. PICK w, seen :
          /\ proof = << [signals |-> SignalsOf(w, LiveView(seen)), view |-> LiveView(seen)] >>
          /\ WitnessInv(w)
          /\ SeenInv(seen)
    BY <1>2 DEF ClawbackInv, ProofInv
  <2>2. WitnessInv(w)'
    BY <2>1 DEF WitnessInv, Minting, Unused
  <2>3. LiveView(seen)' = LiveView(seen) /\ SeenInv(seen)'
    BY <2>1 DEF LiveView, SeenInv
  <2> QED BY <2>1, <2>2, <2>3 DEF ProofInv
<1> QED BY <1>1, <1>2

LEMMA NextClawback == ClawbackInv /\ [Next]_vars => ClawbackInv'
<1> SUFFICES ASSUME ClawbackInv, [Next]_vars
             PROVE  ClawbackInv'
  OBVIOUS
<1>1. CASE Still /\ issuer' = issuer /\ proof' = proof
  BY <1>1, StillInv, IssuerStill, ProofStill DEF Still, ClawbackInv
<1>2. CASE RunGate \/ LeaveGate \/ OpenPage \/ ClearKey \/ Decrypt \/ PickTarget
  <2>1. Still /\ issuer' = issuer /\ proof' = proof
    BY <1>2 DEF RunGate, LeaveGate, OpenPage, ClearKey, Decrypt, PickTarget, chainVars, Still
  <2> QED BY <1>1, <2>1
<1>3. CASE (\E i \in DOMAIN Listed(desk.listed) : Select(i)) \/ (\E n \in 1 .. AUTHORITIES : LoadKey(n))
  <2>1. Still /\ issuer' = issuer /\ proof' = proof
    BY <1>3 DEF Select, LoadKey, chainVars, Still
  <2> QED BY <1>1, <2>1
<1>4. CASE BuildShield
  <2>1. Still /\ issuer' = issuer
    BY <1>4 DEF BuildShield, Build, chainVars, Still
  <2> QED BY <1>4, <2>1, StillInv, IssuerStill, BuildShieldInv DEF ClawbackInv, Still
<1>5. CASE BuildTransfer
  <2>1. Still /\ issuer' = issuer
    BY <1>5 DEF BuildTransfer, Build, chainVars, Still
  <2> QED BY <1>5, <2>1, StillInv, IssuerStill, BuildTransferInv DEF ClawbackInv, Still
<1>6. CASE BuildUnshield
  <2>1. Still /\ issuer' = issuer
    BY <1>6 DEF BuildUnshield, Build, chainVars, Still
  <2> QED BY <1>6, <2>1, StillInv, IssuerStill, BuildUnshieldInv DEF ClawbackInv, Still
<1>7. CASE Submit
  <2>1. FrozenInv'
    BY <1>7 DEF Submit, ClawbackInv, FrozenInv
  <2>2. IssuerInv'
    BY <1>7, IssuerStill DEF Submit
  <2>3. ProofInv'
    BY <1>7 DEF Submit, ProofInv
  <2> QED BY <1>7, <2>1, <2>2, <2>3, SubmitInv DEF ClawbackInv
<1>8. CASE Discard
  <2>1. Still /\ issuer' = issuer
    BY <1>8 DEF Discard, chainVars, Still
  <2>2. ProofInv'
    BY <1>8 DEF Discard, ProofInv
  <2> QED BY <2>1, <2>2, StillInv, IssuerStill DEF ClawbackInv, Still
<1>9. CASE \E seen \in FrozenSeen : StartFreeze(seen)
  <2>1. Still /\ proof' = proof
    BY <1>9 DEF StartFreeze, chainVars, Still
  <2> QED BY <1>9, <2>1, StillInv, ProofStill, StartFreezeInv DEF ClawbackInv, Still
<1>10. CASE Freeze
  <2>1. LogInv' /\ TreeInv'
    BY <1>10 DEF Freeze, ClawbackInv, LogInv, TreeInv, RingOf, IsRecentRoot
  <2>2. IssuerInv'
    BY <1>10 DEF Freeze, IssuerInv
  <2>3. proof' = proof /\ log' = log /\ tree' = tree
    BY <1>10 DEF Freeze
  <2> QED BY <1>10, <2>1, <2>2, <2>3, ProofStill, FreezeInv DEF ClawbackInv
<1>11. CASE FreezeFails
  <2>1. Still /\ proof' = proof
    BY <1>11 DEF FreezeFails, chainVars, Still
  <2>2. IssuerInv'
    BY <1>11 DEF FreezeFails, IssuerInv
  <2> QED BY <2>1, <2>2, StillInv, ProofStill DEF ClawbackInv, Still
<1>12. CASE UNCHANGED vars
  <2>1. Still /\ issuer' = issuer /\ proof' = proof
    BY <1>12 DEF vars, chainVars, Still
  <2> QED BY <1>1, <2>1
<1> QED BY <1>2, <1>3, <1>4, <1>5, <1>6, <1>7, <1>8, <1>9, <1>10, <1>11, <1>12 DEF Next

\* The inductive invariant: the trees, the stored frozen root and everything that
\* is on its way to the contract, in every reachable state.
THEOREM ClawbackInvariant == Spec => []ClawbackInv
BY InitClawback, NextClawback, PTL DEF Spec

----------------------------------------------------------------------------
(* The trees.                                                               *)

LEMMA TreesAgreeHere == ClawbackInv => TreesAgree
<1> SUFFICES ASSUME ClawbackInv PROVE TreesAgree
  OBVIOUS
<1> DEFINE leaves == LeavesOf(log)
<1>1. /\ log \in Seq(Note) /\ DOMAIN log = 1 .. Len(log) /\ Len(log) \in Nat
      /\ Len(log) <= TREE_CAPACITY /\ tree.leafCount = Len(log)
      /\ \A i, j \in 1 .. Len(log) : log[i].rho = log[j].rho => i = j
      /\ tree.frontier = Replay(leaves).frontier
      /\ tree.root = Replay(leaves).root
  BY LenProperties DEF ClawbackInv, LogInv, TreeInv
<1>2. /\ leaves \in Seq(TreeLeaves) /\ Len(leaves) = Len(log)
      /\ \A i \in 1 .. Len(log) : leaves[i] = LeafOf(log[i])
  BY <1>1, LeavesOfDef
<1>3. leaves = [i \in DOMAIN log |-> LeafOf(log[i])]
  BY DEF LeavesOf
<1> HIDE DEF leaves
<1>4. \A i \in 1 .. Len(log) : i - 1 \in Nat /\ Fits(i - 1)
  BY <1>1, CapacityRoom
<1>5. tree.root = Node(leaves, TREE_DEPTH, 0)
  <2>1. \A i \in 0 .. Len(leaves) - 1 : Fits(i)
    BY <1>1, <1>2, CapacityRoom
  <2> QED BY <1>1, <1>2, <2>1, ReplayIsTree
<1>6. ASSUME NEW i \in 1 .. Len(log), NEW j \in 1 .. Len(log)
      PROVE  VerifyInclusionPath(leaves[j], InclusionPath(leaves, i - 1), tree.root) <=> i = j
  <2>1. IsSequence(leaves)
    BY <1>2, IsSequenceDef
  <2>2. Node(leaves, 0, i - 1) = leaves[i]
    BY <1>1, <1>2, <1>4, <2>1, NodeOfLeaf
  <2>3. VerifyInclusionPath(leaves[i], InclusionPath(leaves, i - 1), tree.root)
    BY <1>4, <1>5, <2>1, <2>2, PathComplete
  <2>4. ASSUME VerifyInclusionPath(leaves[j], InclusionPath(leaves, i - 1), tree.root)
        PROVE  i = j
    <3>1. leaves[j] = leaves[i]
      BY <2>3, <2>4, PathOpensOne
    <3>2. log[i] = log[j]
      BY <1>2, <3>1 DEF LeafOf
    <3> QED BY <1>1, <3>2
  <2> QED BY <2>3, <2>4
<1> QED BY <1>1, <1>3, <1>6 DEF TreesAgree

\* The contract's tree is at all times the replay of its leaves, whatever the order of
\* shields, transfers and unshields, and a path opens the root to one leaf only
\* (merkle.ts, frontier_transition.circom).
THEOREM TreesAlwaysAgree == Spec => []TreesAgree
BY ClawbackInvariant, TreesAgreeHere, PTL

----------------------------------------------------------------------------
(* The frozen notes.                                                        *)

\* There is room for the frozen commitments between the two guards of their tree.
LEMMA FrozenFits ==
  ASSUME ClawbackInv
  PROVE  \A m \in 0 .. Cardinality(behind) + 1 : Fits(m)
<1>1. Cardinality(behind) + 2 <= TREE_CAPACITY /\ behind \subseteq Numbers
  BY DEF ClawbackInv, FrozenInv
<1>2. Cardinality(behind) \in Nat
  <2>1. IsFiniteSet(Numbers)
    BY ImtMaxAssumption, FS_Interval DEF Numbers
  <2> QED BY <1>1, <2>1, FS_Subset, FS_CardinalityType
<1>3. \A m \in 0 .. Cardinality(behind) + 1 : m \in 0 .. TREE_CAPACITY - 1
  BY <1>1, <1>2, CapacityRoom
<1> QED BY <1>3, CapacityRoom

\* A witness that the contract accepts spends no note under the stored frozen root,
\* whatever list the low leaf was taken from.
LEMMA SpendsUnfrozen ==
  ASSUME ClawbackInv, Submit, NEW i \in 1 .. Len(log),
         Nullifier(log[i]) \in nullifiers' \ nullifiers
  PROVE  NumberOf(log[i]) \notin behind
<1>0. PICK w, seen :
        /\ proof = << [signals |-> SignalsOf(w, LiveView(seen)), view |-> LiveView(seen)] >>
        /\ WitnessInv(w)
        /\ SeenInv(seen)
  BY DEF ClawbackInv, ProofInv, Submit
<1> DEFINE v == LiveView(seen)
<1>1. /\ proof = << [signals |-> SignalsOf(w, v), view |-> v] >>
      /\ w.kind = "shield" => w.ins = << >>
      /\ ToSet(v.frozen) \subseteq Numbers
  <2>1. v.frozen = seen
    BY DEF LiveView, ViewOf
  <2> HIDE DEF v
  <2>2. ToSet(v.frozen) \subseteq Numbers
    BY <1>0, <2>1, RangeOf DEF SeenInv
  <2> QED BY <1>0, <2>2, WitnessShape DEF v
<1> HIDE DEF v
<1> DEFINE s == SignalsOf(w, v)
<1>2. /\ s.w = w
      /\ s.nullifiers = [k \in DOMAIN w.ins |-> Nullifier(w.ins[k])]
      /\ s.unfrozen = [k \in DOMAIN w.ins |-> FrozenNonMembership(v.frozen, NumberOf(w.ins[k]))]
  <2>1. LET u == SignalsOf(w, v)
        IN  /\ u.w = w
            /\ u.nullifiers = [k \in DOMAIN w.ins |-> Nullifier(w.ins[k])]
            /\ u.unfrozen = [k \in DOMAIN w.ins |-> FrozenNonMembership(v.frozen, NumberOf(w.ins[k]))]
            /\ u.oldFrontier = v.frontier
            /\ u.nextIndex = v.nextIndex
            /\ u.newFrontier = Transition(w, v).frontier
            /\ u.newRoot = Transition(w, v).root
    BY SignalsOfDef
  <2> QED BY <2>1
<1>3. /\ WitnessOk(s) /\ Accepts(s)
      /\ nullifiers' = nullifiers \cup ToSet(s.nullifiers)
  BY <1>1 DEF Submit
<1> HIDE DEF s
<1>4. PICK k \in DOMAIN w.ins : Nullifier(log[i]) = Nullifier(w.ins[k])
  <2>1. ToSet(s.nullifiers) = {s.nullifiers[k] : k \in DOMAIN w.ins}
    BY <1>2 DEF ToSet
  <2>2. \A k \in DOMAIN w.ins : s.nullifiers[k] = Nullifier(w.ins[k])
    BY <1>2
  <2> QED BY <1>3, <2>1, <2>2
<1>5. NumberOf(log[i]) = NumberOf(w.ins[k])
  BY <1>4 DEF Nullifier, NumberOf
<1> DEFINE x == NumberOf(w.ins[k])
           low == s.unfrozen[k].low
           path == s.unfrozen[k].path
<1>6. x \in 1 .. IMT_MAX - 1
  BY <1>5, ImtMaxAssumption DEF ClawbackInv, LogInv, NumberOf
<1>7. AbsentUnder(x, low, path, s.frozenRoot)
  BY <1>2, <1>3, <1>4 DEF WitnessOk, SpentNotes
<1>8. w.kind # "shield"
  BY <1>1, <1>4
<1>9. s.frozenRoot = frozenRoot
  BY <1>2, <1>3, <1>8 DEF Accepts
<1>10. low \in ImtLeaf
  <2>1. s.unfrozen[k] = FrozenNonMembership(v.frozen, x)
    BY <1>2, <1>4
  <2>2. ToSet(v.frozen) \subseteq 1 .. IMT_MAX - 1 /\ x \in Int
    BY <1>1, <1>6 DEF Numbers
  <2> HIDE DEF x
  <2>3. LET sorted == SortedFrozen(v.frozen)
            n == Cardinality(ToSet(v.frozen))
            j == LowIndex(sorted, x)
        IN  /\ j \in 0 .. n
            /\ \A m \in 1 .. n : sorted[m] < x <=> m <= j
            /\ FrozenNonMembership(v.frozen, x).low \in ImtLeaf
    BY <2>2, LowIndexDef
  <2> QED BY <2>1, <2>3
<1>11. PICK cms : ToSet(cms) = behind /\ frozenRoot = FrozenRootOf(cms)
  BY DEF ClawbackInv, FrozenInv
<1>12. ToSet(cms) \subseteq 1 .. IMT_MAX - 1
  BY <1>11 DEF ClawbackInv, FrozenInv, Numbers
<1>13. \A m \in 0 .. Cardinality(ToSet(cms)) + 1 : Fits(m)
  BY <1>11, FrozenFits
<1>14. AbsentUnder(x, low, path, FrozenRootOf(cms))
  BY <1>7, <1>9, <1>11
<1> HIDE DEF x, low, path
<1>15. x \notin ToSet(cms)
  BY <1>6, <1>10, <1>12, <1>13, <1>14, AbsentSound
<1> QED BY <1>5, <1>11, <1>15 DEF x

\* No transaction spends a note that the stored frozen root was computed from, by a
\* proof made before it was frozen or from a list that lacks it (lib.rs: the frozen
\* root of a spend is compared; imt.circom: the low leaf brackets the commitment).
THEOREM FrozenNeverSpent == Spec => FrozenUnspent
<1>1. ClawbackInv /\ [Next]_vars =>
        [\A i \in DOMAIN log :
           Nullifier(log[i]) \in nullifiers' \ nullifiers => NumberOf(log[i]) \notin behind]_vars
  <2> SUFFICES ASSUME ClawbackInv, [Next]_vars, NEW i \in DOMAIN log,
                      Nullifier(log[i]) \in nullifiers' \ nullifiers
               PROVE  NumberOf(log[i]) \notin behind
    OBVIOUS
  <2>1. Submit
    <3>1. nullifiers' # nullifiers
      OBVIOUS
    <3>2. ~UNCHANGED vars
      BY <3>1 DEF vars, chainVars
    <3>3. ~(RunGate \/ LeaveGate \/ OpenPage \/ ClearKey \/ Decrypt \/ PickTarget)
      BY <3>1 DEF RunGate, LeaveGate, OpenPage, ClearKey, Decrypt, PickTarget, chainVars
    <3>4. ~(\E n \in DOMAIN Listed(desk.listed) : Select(n)) /\ ~(\E n \in 1 .. AUTHORITIES : LoadKey(n))
      BY <3>1 DEF Select, LoadKey, chainVars
    <3>5. /\ BuildShield => nullifiers' = nullifiers
          /\ BuildTransfer => nullifiers' = nullifiers
          /\ BuildUnshield => nullifiers' = nullifiers
      <4>1. CASE BuildShield
        BY <4>1 DEF BuildShield, Build, chainVars
      <4>2. CASE BuildTransfer
        BY <4>2 DEF BuildTransfer, Build, chainVars
      <4>3. CASE BuildUnshield
        BY <4>3 DEF BuildUnshield, Build, chainVars
      <4> QED BY <4>1, <4>2, <4>3
    <3>6. ~Discard /\ ~(\E seen \in FrozenSeen : StartFreeze(seen)) /\ ~Freeze /\ ~FreezeFails
      BY <3>1 DEF Discard, StartFreeze, Freeze, FreezeFails, chainVars
    <3> QED BY <3>1, <3>2, <3>3, <3>4, <3>5, <3>6 DEF Next
  <2>2. i \in 1 .. Len(log)
    BY LenProperties DEF ClawbackInv, LogInv
  <2> QED BY <2>1, <2>2, SpendsUnfrozen
<1> QED BY <1>1, ClawbackInvariant, PTL DEF Spec, FrozenUnspent

----------------------------------------------------------------------------
(* Exactly the frozen notes.                                                *)

\* The way down from a root; d counts from the root here.
DownTo(g, root, bits, n) ==
  g = [d \in n .. TREE_DEPTH |-> IF d = TREE_DEPTH THEN root ELSE g[d + 1][bits[d + 1] + 1]]

LEMMA DownToExist ==
  ASSUME NEW root, NEW bits
  PROVE  \E g : DownTo(g, root, bits, 0)
<1> DEFINE S == {k \in Nat : k <= TREE_DEPTH => \E g : DownTo(g, root, bits, TREE_DEPTH - k)}
<1>0. TREE_DEPTH \in Nat
  BY TreeDepthAssumption
<1>1. 0 \in S
  <2> DEFINE g == [d \in TREE_DEPTH .. TREE_DEPTH |-> root]
  <2>1. DownTo(g, root, bits, TREE_DEPTH) /\ TREE_DEPTH - 0 = TREE_DEPTH
    BY <1>0 DEF DownTo
  <2> QED BY <2>1
<1>2. ASSUME NEW k \in Nat, k \in S
      PROVE  k + 1 \in S
  <2>1. CASE k + 1 <= TREE_DEPTH
    <3> DEFINE n == TREE_DEPTH - (k + 1)
    <3>1. n \in 0 .. TREE_DEPTH - 1 /\ n + 1 = TREE_DEPTH - k /\ k <= TREE_DEPTH
      BY <1>0, <2>1
    <3>2. PICK g : DownTo(g, root, bits, n + 1)
      BY <1>2, <3>1
    <3> HIDE DEF n
    <3> DEFINE h == [d \in n .. TREE_DEPTH |-> IF d = n THEN g[n + 1][bits[n + 1] + 1] ELSE g[d]]
    <3>3. ASSUME NEW d \in n .. TREE_DEPTH
          PROVE  h[d] = IF d = TREE_DEPTH THEN root ELSE h[d + 1][bits[d + 1] + 1]
      <4>1. CASE d = n
        <5>1. n + 1 \in n .. TREE_DEPTH /\ n + 1 # n /\ n # TREE_DEPTH
          BY <1>0, <3>1
        <5>2. h[n + 1] = g[n + 1]
          BY <5>1
        <5> QED BY <4>1, <5>1, <5>2
      <4>2. CASE d # n
        <5>1. d \in n + 1 .. TREE_DEPTH
          BY <1>0, <3>1, <4>2
        <5>2. g[d] = IF d = TREE_DEPTH THEN root ELSE g[d + 1][bits[d + 1] + 1]
          BY <3>2, <5>1 DEF DownTo
        <5>3. d # TREE_DEPTH => d + 1 \in n .. TREE_DEPTH /\ d + 1 # n
          BY <1>0, <3>1, <5>1
        <5>4. d # TREE_DEPTH => h[d + 1] = g[d + 1]
          BY <5>3
        <5> QED BY <4>2, <5>2, <5>4
      <4> QED BY <4>1, <4>2
    <3>4. h = [d \in n .. TREE_DEPTH |-> h[d]]
      OBVIOUS
    <3>5. DownTo(h, root, bits, n)
      <4> HIDE DEF h
      <4> QED BY <3>3, <3>4 DEF DownTo
    <3> QED BY <3>5 DEF n
  <2>2. CASE ~(k + 1 <= TREE_DEPTH)
    BY <2>2
  <2> QED BY <2>1, <2>2
<1>3. Nat \subseteq S
  <2> HIDE DEF S
  <2> QED BY <1>1, <1>2, NatInduct
<1>4. TREE_DEPTH - TREE_DEPTH = 0 /\ TREE_DEPTH \in S /\ TREE_DEPTH <= TREE_DEPTH
  BY <1>0, <1>3
<1> QED BY <1>4

LEMMA OpeningDef ==
  ASSUME NEW root, NEW bits
  PROVE  \E g : /\ DownTo(g, root, bits, 0)
                /\ Opening(root, bits) =
                     [node |-> g[0], siblings |-> [k \in 1 .. TREE_DEPTH |-> g[k][2 - bits[k]]], pathBits |-> bits]
<1> DEFINE g == CHOOSE f : DownTo(f, root, bits, 0)
<1>1. DownTo(g, root, bits, 0)
  BY DownToExist
<1>2. Opening(root, bits) =
        [node |-> g[0], siblings |-> [k \in 1 .. TREE_DEPTH |-> g[k][2 - bits[k]]], pathBits |-> bits]
  BY DEF Opening, DownTo
<1> HIDE DEF g
<1> QED BY <1>1, <1>2

\* Whatever a path opens is among the openings of the root.
LEMMA OpeningsComplete ==
  ASSUME NEW x, NEW path, NEW root, VerifyInclusionPath(x, path, root),
         path.pathBits \in [1 .. TREE_DEPTH -> {0, 1}]
  PROVE  \E o \in Openings(root) : o.node = x /\ VerifyInclusionPath(x, o, root)
<1> DEFINE bits == path.pathBits
           o == Opening(root, bits)
<1>0. TREE_DEPTH \in Nat
  BY TreeDepthAssumption
<1>1. PICK cur : IsOpening(cur, x, path) /\ root = cur[TREE_DEPTH]
  BY VerifyInclusionPathDef
<1>2. PICK g : /\ DownTo(g, root, bits, 0)
               /\ o = [node |-> g[0], siblings |-> [k \in 1 .. TREE_DEPTH |-> g[k][2 - bits[k]]], pathBits |-> bits]
  BY OpeningDef
<1> HIDE DEF o
<1> DEFINE T == {k \in Nat : k <= TREE_DEPTH => g[TREE_DEPTH - k] = cur[TREE_DEPTH - k]}
<1>3. g[TREE_DEPTH] = root /\ \A d \in 0 .. TREE_DEPTH - 1 : g[d] = g[d + 1][bits[d + 1] + 1]
  <2> HIDE DEF bits, T
  <2>1. DownTo(g, root, bits, 0)
    BY <1>2
  <2>2. TREE_DEPTH \in 0 .. TREE_DEPTH
    BY <1>0
  <2>3. g[TREE_DEPTH] = root
    BY <2>1, <2>2 DEF DownTo
  <2>4. ASSUME NEW d \in 0 .. TREE_DEPTH - 1
        PROVE  g[d] = g[d + 1][bits[d + 1] + 1]
    <3>1. d \in 0 .. TREE_DEPTH /\ d # TREE_DEPTH
      BY <1>0
    <3> QED BY <2>1, <3>1 DEF DownTo
  <2> QED BY <2>3, <2>4
<1>4. \A d \in 0 .. TREE_DEPTH - 1 :
        /\ cur[d + 1] = Hashed(cur[d], path, d + 1)
        /\ bits[d + 1] \in {0, 1}
        /\ cur[d + 1][bits[d + 1] + 1] = cur[d]
        /\ cur[d + 1][2 - bits[d + 1]] = path.siblings[d + 1]
  <2> TAKE d \in 0 .. TREE_DEPTH - 1
  <2>1. d + 1 \in 1 .. TREE_DEPTH
    BY <1>0
  <2>2. bits[d + 1] = 0 \/ bits[d + 1] = 1
    BY <2>1
  <2>3. cur[d + 1] = Hashed(cur[d], path, d + 1)
    BY <1>1 DEF IsOpening
  <2>4. CASE bits[d + 1] = 0
    <3>1. cur[d + 1] = <<cur[d], path.siblings[d + 1]>>
      BY <2>3, <2>4 DEF Hashed, HashNode
    <3> QED BY <2>3, <2>4, <3>1
  <2>5. CASE bits[d + 1] = 1
    <3>1. cur[d + 1] = <<path.siblings[d + 1], cur[d]>>
      BY <2>3, <2>5 DEF Hashed, HashNode
    <3> QED BY <2>3, <2>5, <3>1
  <2> QED BY <2>2, <2>4, <2>5
<1>5. 0 \in T
  <2>1. TREE_DEPTH - 0 = TREE_DEPTH
    BY <1>0
  <2> QED BY <1>1, <1>3, <2>1
<1>6. ASSUME NEW k \in Nat, k \in T
      PROVE  k + 1 \in T
  <2>1. CASE k + 1 <= TREE_DEPTH
    <3> DEFINE d == TREE_DEPTH - (k + 1)
    <3>1. d \in 0 .. TREE_DEPTH - 1 /\ d + 1 = TREE_DEPTH - k /\ k <= TREE_DEPTH
      BY <1>0, <2>1
    <3>2. g[d + 1] = cur[d + 1]
      BY <1>6, <3>1
    <3> HIDE DEF d, bits
    <3>3. g[d] = cur[d]
      BY <1>3, <1>4, <3>1, <3>2
    <3> QED BY <3>3 DEF d
  <2>2. CASE ~(k + 1 <= TREE_DEPTH)
    BY <2>2
  <2> QED BY <2>1, <2>2
<1>7. Nat \subseteq T
  <2> HIDE DEF T
  <2> QED BY <1>5, <1>6, NatInduct
<1>8. \A d \in 0 .. TREE_DEPTH : g[d] = cur[d]
  <2> TAKE d \in 0 .. TREE_DEPTH
  <2>1. TREE_DEPTH - d \in Nat /\ TREE_DEPTH - d <= TREE_DEPTH /\ TREE_DEPTH - (TREE_DEPTH - d) = d
    BY <1>0
  <2>2. TREE_DEPTH - d \in T
    BY <1>7, <2>1
  <2> QED BY <2>1, <2>2
<1> HIDE DEF T, bits
<1>9. o.node = x
  BY <1>0, <1>1, <1>2, <1>8 DEF IsOpening
<1>10. \A k \in 1 .. TREE_DEPTH : o.siblings[k] = path.siblings[k] /\ o.pathBits[k] = path.pathBits[k]
  <2> TAKE k \in 1 .. TREE_DEPTH
  <2>1. k - 1 \in 0 .. TREE_DEPTH - 1 /\ (k - 1) + 1 = k /\ k \in 0 .. TREE_DEPTH
    BY <1>0
  <2>2. cur[k][2 - bits[k]] = path.siblings[k]
    BY <1>4, <2>1
  <2> QED BY <1>2, <1>8, <2>1, <2>2 DEF bits
<1>11. VerifyInclusionPath(x, o, root)
  <2>1. PICK c : IsOpening(c, x, o) /\ (VerifyInclusionPath(x, o, root) <=> root = c[TREE_DEPTH])
    BY VerifyInclusionPathDef
  <2> DEFINE C == {k \in Nat : k <= TREE_DEPTH => c[k] = cur[k]}
  <2>2. 0 \in C
    BY <1>1, <2>1 DEF IsOpening
  <2>3. ASSUME NEW k \in Nat, k \in C
        PROVE  k + 1 \in C
    <3>1. CASE k + 1 <= TREE_DEPTH
      <4>1. k \in 0 .. TREE_DEPTH - 1 /\ k + 1 \in 1 .. TREE_DEPTH /\ k <= TREE_DEPTH
        BY <1>0, <3>1
      <4>2. c[k] = cur[k]
        BY <2>3, <4>1
      <4>3. c[k + 1] = Hashed(c[k], o, k + 1) /\ cur[k + 1] = Hashed(cur[k], path, k + 1)
        BY <1>1, <2>1, <4>1 DEF IsOpening
      <4> QED BY <1>10, <4>1, <4>2, <4>3 DEF Hashed
    <3>2. CASE ~(k + 1 <= TREE_DEPTH)
      BY <3>2
    <3> QED BY <3>1, <3>2
  <2>4. Nat \subseteq C
    <3> HIDE DEF C
    <3> QED BY <2>2, <2>3, NatInduct
  <2> QED BY <1>0, <1>1, <2>1, <2>4
<1>12. o \in Openings(root)
  BY DEF Openings, o, bits
<1> QED BY <1>9, <1>11, <1>12

LEMMA FrozenExactHere == ClawbackInv => FrozenExact
<1> SUFFICES ASSUME ClawbackInv, NEW x \in 1 .. IMT_MAX - 1
             PROVE  (\E o \in {o \in Openings(frozenRoot) : Len(o.node) = 3} :
                       AbsentUnder(x, o.node, o, frozenRoot)) <=> x \notin behind
  BY DEF FrozenExact
<1>1. PICK cms : ToSet(cms) = behind /\ frozenRoot = FrozenRootOf(cms)
  BY DEF ClawbackInv, FrozenInv
<1>2. ToSet(cms) \subseteq 1 .. IMT_MAX - 1
  BY <1>1 DEF ClawbackInv, FrozenInv, Numbers
<1>3. \A m \in 0 .. Cardinality(ToSet(cms)) + 1 : Fits(m)
  BY <1>1, FrozenFits
<1>4. ASSUME NEW o \in Openings(frozenRoot), Len(o.node) = 3, AbsentUnder(x, o.node, o, frozenRoot)
      PROVE  x \notin behind
  <2>1. VerifyInclusionPath(o.node, o, FrozenRootOf(cms))
    BY <1>1, <1>4 DEF AbsentUnder
  <2>2. o.node \in ImtLeaf
    <3>1. o.node # EMPTY_LEAF
      BY <1>4 DEF EMPTY_LEAF
    <3> QED BY <1>2, <1>3, <2>1, <3>1, FrozenTreeOpens
  <2> QED BY <1>1, <1>2, <1>3, <1>4, <2>2, AbsentSound
<1>5. ASSUME x \notin behind
      PROVE  \E o \in Openings(frozenRoot) : Len(o.node) = 3 /\ AbsentUnder(x, o.node, o, frozenRoot)
  <2> DEFINE low == FrozenNonMembership(cms, x).low
             path == FrozenNonMembership(cms, x).path
  <2>1. AbsentUnder(x, low, path, FrozenRootOf(cms))
    <3>1. LET shown == FrozenNonMembership(cms, x)
          IN  AbsentUnder(x, shown.low, shown.path, FrozenRootOf(cms))
      BY <1>1, <1>2, <1>3, <1>5, AbsentComplete
    <3> QED BY <3>1
  <2>2. path.pathBits \in [1 .. TREE_DEPTH -> {0, 1}] /\ low \in ImtLeaf
    <3>1. LET sorted == SortedFrozen(cms)
              n == Cardinality(ToSet(cms))
              j == LowIndex(sorted, x)
          IN  /\ j \in 0 .. n
              /\ \A i \in 1 .. n : sorted[i] < x <=> i <= j
              /\ FrozenNonMembership(cms, x).low \in ImtLeaf
      BY <1>2, LowIndexDef
    <3> QED BY <1>2, <3>1, FrozenPathBits
  <2> HIDE DEF low, path
  <2>3. PICK o \in Openings(frozenRoot) : o.node = low /\ VerifyInclusionPath(low, o, frozenRoot)
    <3>1. VerifyInclusionPath(low, path, frozenRoot)
      BY <1>1, <2>1 DEF AbsentUnder
    <3> QED BY <2>2, <3>1, OpeningsComplete
  <2>4. Len(low) = 3
    BY <2>2 DEF ImtLeaf
  <2>5. AbsentUnder(x, low, o, frozenRoot)
    BY <1>1, <2>1, <2>3 DEF AbsentUnder
  <2> QED BY <2>3, <2>4, <2>5
<1> QED BY <1>4, <1>5

\* Under the stored frozen root the absence of exactly the commitments that it was not
\* computed from can be shown, whichever low leaf and path a prover chooses (imt.ts,
\* freeze.ts, imt_non_membership.circom).
THEOREM FrozenAlwaysExact == Spec => []FrozenExact
BY ClawbackInvariant, FrozenExactHere, PTL

----------------------------------------------------------------------------
(* The constraints of a witness, gadget by gadget.                          *)

\* Where a caller finds something in its list.
LEMMA IndexInDef ==
  ASSUME NEW S, NEW s \in Seq(S), NEW x
  PROVE  /\ x \in ToSet(s) => IndexIn(s, x) \in 0 .. Len(s) - 1 /\ s[IndexIn(s, x) + 1] = x
         /\ x \notin ToSet(s) => IndexIn(s, x) = 0
<1> DEFINE I == {i \in 1 .. Len(s) : s[i] = x}
<1>1. CASE x \in ToSet(s)
  <2>1. IndexIn(s, x) = SelectInSeq(s, LAMBDA y : y = x) - 1
    BY <1>1 DEF IndexIn
  <2>2. Len(s) \in Nat /\ ToSet(s) = {s[i] : i \in 1 .. Len(s)}
    BY RangeOf, LenProperties
  <2>3. I # {}
    BY <1>1, <2>2
  <2>4. SelectInSeq(s, LAMBDA y : y = x) = Min(I)
    BY <2>3 DEF SelectInSeq
  <2>5. I \in SUBSET (0 .. (Len(s) + 1) - 1) /\ Len(s) + 1 \in Nat
    BY <2>2
  <2> HIDE DEF I
  <2>6. Min(I) \in I
    BY <2>3, <2>5, MinMax
  <2>7. Min(I) \in 1 .. Len(s) /\ s[Min(I)] = x
    BY <2>6 DEF I
  <2>8. (Min(I) - 1) + 1 = Min(I) /\ Min(I) - 1 \in 0 .. Len(s) - 1
    BY <2>2, <2>7
  <2> QED BY <1>1, <2>1, <2>4, <2>7, <2>8
<1>2. CASE x \notin ToSet(s)
  BY <1>2 DEF IndexIn
<1> QED BY <1>1, <1>2

\* The path of the k-th leaf opens that leaf only, and in an empty tree no leaf.
LEMMA PathExact ==
  ASSUME NEW T, EMPTY_LEAF \notin T, NEW leaves \in Seq(T), Len(leaves) <= TREE_CAPACITY,
         NEW k \in Nat, k < TREE_CAPACITY, NEW x \in T
  PROVE  VerifyInclusionPath(x, InclusionPath(leaves, k), Replay(leaves).root) <=> k < Len(leaves) /\ x = leaves[k + 1]
<1> DEFINE path == InclusionPath(leaves, k)
           there == Node(leaves, 0, k)
<1>1. Len(leaves) \in Nat /\ IsSequence(leaves) /\ Fits(k) /\ \A i \in 0 .. Len(leaves) - 1 : Fits(i)
  BY CapacityRoom, LenProperties, IsSequenceDef
<1>2. Replay(leaves).root = Node(leaves, TREE_DEPTH, 0)
  BY <1>1, ReplayIsTree
<1>3. there = IF k < Len(leaves) THEN leaves[k + 1] ELSE EMPTY_LEAF
  BY <1>1, NodeOfLeaf
<1>4. VerifyInclusionPath(there, path, Node(leaves, TREE_DEPTH, 0))
  BY <1>1, PathComplete
<1> HIDE DEF path, there
<1>5. VerifyInclusionPath(x, path, Node(leaves, TREE_DEPTH, 0)) <=> x = there
  BY <1>4, PathOpensOne
<1> QED BY <1>2, <1>3, <1>5 DEF path

\* A list of identities or notes as leaves; what is in the list is shown to be there,
\* and nothing else is.
LEMMA MemberExact ==
  ASSUME NEW S, NEW s \in Seq(S), Len(s) <= TREE_CAPACITY, NEW x \in S
  PROVE  LET leaves == [i \in DOMAIN s |-> LeafOf(s[i])]
         IN  VerifyInclusionPath(LeafOf(x), InclusionPath(leaves, IndexIn(s, x)), Replay(leaves).root) <=> x \in ToSet(s)
<1> DEFINE leaves == [i \in DOMAIN s |-> LeafOf(s[i])]
           T == {LeafOf(y) : y \in S}
           k == IndexIn(s, x)
<1>1. Len(s) \in Nat /\ DOMAIN s = 1 .. Len(s) /\ \A i \in 1 .. Len(s) : s[i] \in S
  BY LenProperties, ElementOfSeq
<1>2. leaves = [i \in 1 .. Len(s) |-> leaves[i]] /\ \A i \in 1 .. Len(s) : leaves[i] = LeafOf(s[i]) /\ leaves[i] \in T
  BY <1>1
<1>3. EMPTY_LEAF \notin T /\ LeafOf(x) \in T
  BY DEF EMPTY_LEAF, LeafOf
<1> HIDE DEF leaves, T
<1>4. leaves \in Seq(T) /\ Len(leaves) = Len(s)
  BY <1>1, <1>2, LenOfFunction
<1>5. /\ x \in ToSet(s) => k \in 0 .. Len(s) - 1 /\ s[k + 1] = x
      /\ x \notin ToSet(s) => k = 0
  BY IndexInDef
<1>6. k \in Nat /\ k < TREE_CAPACITY
  BY <1>1, <1>5, CapacityRoom
<1> HIDE DEF k
<1>7. VerifyInclusionPath(LeafOf(x), InclusionPath(leaves, k), Replay(leaves).root)
        <=> k < Len(leaves) /\ LeafOf(x) = leaves[k + 1]
  BY <1>3, <1>4, <1>6, PathExact
<1>8. k < Len(leaves) /\ LeafOf(x) = leaves[k + 1] <=> x \in ToSet(s)
  <2>1. CASE x \in ToSet(s)
    <3>1. k + 1 \in 1 .. Len(s) /\ k < Len(leaves)
      BY <1>1, <1>4, <1>5, <2>1
    <3> QED BY <1>2, <1>5, <2>1, <3>1
  <2>2. CASE x \notin ToSet(s)
    <3>1. ASSUME k < Len(leaves), LeafOf(x) = leaves[k + 1]
          PROVE  FALSE
      <4>1. k + 1 \in 1 .. Len(s)
        BY <1>1, <1>4, <1>6, <3>1
      <4>2. x = s[k + 1]
        BY <1>2, <3>1, <4>1 DEF LeafOf
      <4>3. ToSet(s) = {s[i] : i \in 1 .. Len(s)}
        BY RangeOf
      <4> QED BY <2>2, <4>1, <4>2, <4>3
    <3> QED BY <2>2, <3>1
  <2> QED BY <2>1, <2>2
<1> QED BY <1>7, <1>8 DEF leaves, k

\* A low leaf that the SDK picked shows absence exactly when there is absence.
LEMMA AbsentExact ==
  ASSUME NEW cms \in Seq(Numbers), Len(cms) + 2 <= TREE_CAPACITY, NEW x \in Numbers
  PROVE  LET shown == FrozenNonMembership(cms, x)
         IN  AbsentUnder(x, shown.low, shown.path, FrozenRootOf(cms)) <=> x \notin ToSet(cms)
<1> DEFINE shown == FrozenNonMembership(cms, x)
<1>1. /\ ToSet(cms) \subseteq 1 .. IMT_MAX - 1
      /\ Cardinality(ToSet(cms)) <= Len(cms) /\ Cardinality(ToSet(cms)) \in Nat
      /\ x \in 1 .. IMT_MAX - 1 /\ x \in Int
  BY RangeOf, FS_CardinalityType, ImtMaxAssumption DEF Numbers
<1>2. \A m \in 0 .. Cardinality(ToSet(cms)) + 1 : Fits(m)
  <2>1. Len(cms) \in Nat
    BY LenProperties
  <2>2. \A m \in 0 .. Cardinality(ToSet(cms)) + 1 : m \in 0 .. TREE_CAPACITY - 1
    BY <1>1, <2>1, CapacityRoom
  <2> QED BY <2>2, CapacityRoom
<1>3. ASSUME x \notin ToSet(cms)
      PROVE  AbsentUnder(x, shown.low, shown.path, FrozenRootOf(cms))
  <2>1. LET given == FrozenNonMembership(cms, x)
        IN  AbsentUnder(x, given.low, given.path, FrozenRootOf(cms))
    BY <1>1, <1>2, <1>3, AbsentComplete
  <2> QED BY <2>1
<1>4. shown.low \in ImtLeaf
  <2>1. LET sorted == SortedFrozen(cms)
            n == Cardinality(ToSet(cms))
            j == LowIndex(sorted, x)
        IN  /\ j \in 0 .. n
            /\ \A i \in 1 .. n : sorted[i] < x <=> i <= j
            /\ FrozenNonMembership(cms, x).low \in ImtLeaf
    BY <1>1, LowIndexDef
  <2> QED BY <2>1
<1> HIDE DEF shown
<1>5. ASSUME AbsentUnder(x, shown.low, shown.path, FrozenRootOf(cms))
      PROVE  x \notin ToSet(cms)
  BY <1>1, <1>2, <1>4, <1>5, AbsentSound
<1> QED BY <1>3, <1>5 DEF shown

----------------------------------------------------------------------------
(* What the builders derive passes the constraints exactly when the         *)
(* statement about the notes holds.                                         *)

LEMMA LiveViewDef ==
  ASSUME NEW seen
  PROVE  /\ LiveView(seen).kyc = Kyc /\ LiveView(seen).sanction = Sanctioned /\ LiveView(seen).assets = Registry
         /\ LiveView(seen).frozen = seen
         /\ LiveView(seen).frontier = tree.frontier /\ LiveView(seen).nextIndex = tree.leafCount
         /\ LiveView(seen).kView = K_VIEW
BY DEF LiveView, ViewOf

LEMMA ApprovedDef ==
  ASSUME NEW w, NEW seen, \A i \in DOMAIN Recipients(w) : Recipients(w)[i] \in Owners
  PROVE  Approved(SignalsOf(w, LiveView(seen))) <=>
           \A i \in DOMAIN Recipients(w) :
             /\ KycMembership(Recipients(w)[i], Abstracted(w, LiveView(seen)))
             /\ w.kind # "shield" => SanctionNonMembership(Recipients(w)[i], Abstracted(w, LiveView(seen)))
<1> DEFINE v == LiveView(seen)
           s == SignalsOf(w, v)
           pub == Abstracted(w, v)
           leaves == [i \in DOMAIN Kyc |-> LeafOf(Kyc[i])]
<1>1. v.kyc = Kyc /\ v.sanction = Sanctioned
  BY LiveViewDef
<1> HIDE DEF v
<1>2. pub.kyc = ToSet(Kyc) /\ pub.sanction = ToSet(Sanctioned)
  BY <1>1 DEF Abstracted
<1>3. KycLeaves(v) = leaves
  BY <1>1 DEF KycLeaves
<1>4. /\ s.w = w
      /\ s.kycRoot = Replay(KycLeaves(v)).root
      /\ s.kycPaths = [i \in DOMAIN Recipients(w) |-> InclusionPath(KycLeaves(v), IndexIn(v.kyc, Recipients(w)[i]))]
      /\ s.sanctionRoot = FrozenRootOf(v.sanction)
      /\ s.unsanctioned = [i \in DOMAIN Recipients(w) |-> FrozenNonMembership(v.sanction, Recipients(w)[i])]
  BY DEF SignalsOf
<1> HIDE DEF s, pub, leaves
<1>5. ASSUME NEW i \in DOMAIN Recipients(w)
      PROVE  /\ VerifyInclusionPath(LeafOf(Recipients(w)[i]), s.kycPaths[i], s.kycRoot) <=> Recipients(w)[i] \in ToSet(Kyc)
             /\ AbsentUnder(Recipients(w)[i], s.unsanctioned[i].low, s.unsanctioned[i].path, s.sanctionRoot)
                  <=> Recipients(w)[i] \notin ToSet(Sanctioned)
  <2> DEFINE x == Recipients(w)[i]
  <2>1. x \in Owners
    OBVIOUS
  <2>2. /\ s.kycPaths[i] = InclusionPath(leaves, IndexIn(Kyc, x)) /\ s.kycRoot = Replay(leaves).root
        /\ s.unsanctioned[i] = FrozenNonMembership(Sanctioned, x) /\ s.sanctionRoot = FrozenRootOf(Sanctioned)
    BY <1>1, <1>3, <1>4
  <2> HIDE DEF x
  <2>3. VerifyInclusionPath(LeafOf(x), InclusionPath(leaves, IndexIn(Kyc, x)), Replay(leaves).root) <=> x \in ToSet(Kyc)
    <3>1. Kyc \in Seq(Owners) /\ Len(Kyc) <= TREE_CAPACITY
      BY ClawbackAssumption
    <3>2. LET given == [j \in DOMAIN Kyc |-> LeafOf(Kyc[j])]
          IN  VerifyInclusionPath(LeafOf(x), InclusionPath(given, IndexIn(Kyc, x)), Replay(given).root) <=> x \in ToSet(Kyc)
      BY <2>1, <3>1, MemberExact
    <3> QED BY <3>2 DEF leaves
  <2>4. AbsentUnder(x, FrozenNonMembership(Sanctioned, x).low, FrozenNonMembership(Sanctioned, x).path,
                    FrozenRootOf(Sanctioned)) <=> x \notin ToSet(Sanctioned)
    <3>1. Sanctioned \in Seq(Numbers) /\ Len(Sanctioned) + 2 <= TREE_CAPACITY /\ x \in Numbers
      <4>1. Owners \subseteq Numbers /\ Sanctioned \in Seq(Owners) /\ Len(Sanctioned) + 2 <= TREE_CAPACITY
        BY ClawbackAssumption DEF Numbers
      <4> QED BY <2>1, <4>1, SeqMonotonic
    <3>2. LET shown == FrozenNonMembership(Sanctioned, x)
          IN  AbsentUnder(x, shown.low, shown.path, FrozenRootOf(Sanctioned)) <=> x \notin ToSet(Sanctioned)
      BY <3>1, AbsentExact
    <3> QED BY <3>2
  <2> QED BY <2>2, <2>3, <2>4 DEF x
<1>6. Approved(s) <=> \A i \in DOMAIN Recipients(w) :
                        /\ KycMembership(Recipients(w)[i], pub)
                        /\ w.kind # "shield" => SanctionNonMembership(Recipients(w)[i], pub)
  <2>1. Approved(s) <=> \A i \in DOMAIN Recipients(w) :
          /\ VerifyInclusionPath(LeafOf(Recipients(w)[i]), s.kycPaths[i], s.kycRoot)
          /\ w.kind # "shield" =>
               AbsentUnder(Recipients(w)[i], s.unsanctioned[i].low, s.unsanctioned[i].path, s.sanctionRoot)
    BY <1>4 DEF Approved
  <2> QED BY <1>2, <1>5, <2>1 DEF KycMembership, SanctionNonMembership
<1> QED BY <1>6 DEF s, pub, v

\* An asset's leaf is found by its identifier, and the limit is that of its entry.
LEMMA MeterDef ==
  ASSUME NEW asset, NEW value
  PROVE  LET leaves == [i \in DOMAIN Registry |->
                          AssetsLeafHash(DeriveAssetId(Registry[i].sac), Registry[i].sac, Registry[i].decimals, Registry[i].limit)]
             k == IndexIn([i \in DOMAIN Registry |-> DeriveAssetId(Registry[i].sac)], asset)
             leaf == leaves[k + 1]
         IN  /\ leaf[1] = DeriveAssetId(leaf[2])
             /\ VerifyInclusionPath(leaf, InclusionPath(leaves, k), Replay(leaves).root)
             /\ leaf[1] = asset /\ leaf[4] \in Value /\ value <= leaf[4]
                  <=> \E a \in ToSet(Registry) : DeriveAssetId(a.sac) = asset /\ a.limit \in Value /\ value <= a.limit
<1> DEFINE leaves == [i \in DOMAIN Registry |->
                        AssetsLeafHash(DeriveAssetId(Registry[i].sac), Registry[i].sac, Registry[i].decimals, Registry[i].limit)]
           ids == [i \in DOMAIN Registry |-> DeriveAssetId(Registry[i].sac)]
           k == IndexIn(ids, asset)
           Entry == [sac : Nat, decimals : Nat, limit : Nat]
           T == {AssetsLeafHash(DeriveAssetId(a.sac), a.sac, a.decimals, a.limit) : a \in Entry}
           I == {DeriveAssetId(a.sac) : a \in Entry}
           n == Len(Registry)
<1>1. /\ Registry \in Seq(Entry) /\ Registry # << >> /\ n <= TREE_CAPACITY
      /\ \A i, j \in DOMAIN Registry : Registry[i].sac = Registry[j].sac => i = j
  BY ClawbackAssumption
<1>2. n \in Nat /\ n >= 1 /\ DOMAIN Registry = 1 .. n /\ \A i \in 1 .. n : Registry[i] \in Entry
  <2>1. n \in Nat /\ DOMAIN Registry = 1 .. n /\ \A i \in 1 .. n : Registry[i] \in Entry
    BY <1>1, LenProperties, ElementOfSeq
  <2>2. n # 0
    BY <1>1, EmptySeq
  <2> QED BY <2>1, <2>2
<1>3. /\ leaves = [i \in 1 .. n |-> leaves[i]] /\ ids = [i \in 1 .. n |-> ids[i]]
      /\ \A i \in 1 .. n : leaves[i] = <<DeriveAssetId(Registry[i].sac), Registry[i].sac, Registry[i].decimals, Registry[i].limit>>
      /\ \A i \in 1 .. n : ids[i] = DeriveAssetId(Registry[i].sac)
  BY <1>2 DEF AssetsLeafHash
<1>4. \A i \in 1 .. n : leaves[i] \in T /\ ids[i] \in I
  BY <1>2
<1>5. EMPTY_LEAF \notin T
  BY DEF EMPTY_LEAF, AssetsLeafHash
<1>6. ToSet(Registry) = {Registry[i] : i \in 1 .. n}
  BY <1>1, RangeOf
<1> HIDE DEF leaves, ids, T, I, n, Entry
<1>7. leaves \in Seq(T) /\ Len(leaves) = n /\ ids \in Seq(I) /\ Len(ids) = n
  BY <1>2, <1>3, <1>4, LenOfFunction
<1>8. /\ ToSet(ids) = {ids[i] : i \in 1 .. n}
      /\ asset \in ToSet(ids) => k \in 0 .. n - 1 /\ ids[k + 1] = asset
      /\ asset \notin ToSet(ids) => k = 0
  BY <1>7, RangeOf, IndexInDef
<1>9. k \in Nat /\ k < n /\ k < TREE_CAPACITY /\ k + 1 \in 1 .. n
  BY <1>1, <1>2, <1>8, CapacityRoom DEF n
<1> HIDE DEF k
<1>10. VerifyInclusionPath(leaves[k + 1], InclusionPath(leaves, k), Replay(leaves).root)
  <2>1. leaves[k + 1] \in T /\ Len(leaves) <= TREE_CAPACITY
    BY <1>1, <1>4, <1>7, <1>9 DEF n
  <2>2. VerifyInclusionPath(leaves[k + 1], InclusionPath(leaves, k), Replay(leaves).root)
          <=> k < Len(leaves) /\ leaves[k + 1] = leaves[k + 1]
    BY <1>5, <1>7, <1>9, <2>1, PathExact
  <2> QED BY <1>7, <1>9, <2>2
<1>11. /\ leaves[k + 1][1] = DeriveAssetId(Registry[k + 1].sac)
       /\ leaves[k + 1][2] = Registry[k + 1].sac
       /\ leaves[k + 1][4] = Registry[k + 1].limit
  BY <1>3, <1>9
<1>12. ASSUME NEW m \in 1 .. n, DeriveAssetId(Registry[m].sac) = asset
       PROVE  m = k + 1
  <2>1. asset \in ToSet(ids)
    BY <1>3, <1>8, <1>12
  <2>2. DeriveAssetId(Registry[k + 1].sac) = asset
    BY <1>3, <1>8, <1>9, <2>1
  <2>3. Registry[m].sac = Registry[k + 1].sac
    BY <1>12, <2>2 DEF DeriveAssetId
  <2> QED BY <1>1, <1>2, <1>9, <2>3
<1>13. leaves[k + 1][1] = asset /\ leaves[k + 1][4] \in Value /\ value <= leaves[k + 1][4]
         <=> \E a \in ToSet(Registry) : DeriveAssetId(a.sac) = asset /\ a.limit \in Value /\ value <= a.limit
  BY <1>6, <1>9, <1>11, <1>12
<1> QED BY <1>10, <1>11, <1>13 DEF leaves, k, ids

LEMMA RegisteredDef ==
  ASSUME NEW w, NEW seen
  PROVE  Registered(SignalsOf(w, LiveView(seen))) <=>
           \A i \in DOMAIN Metered(w) :
             /\ Metered(w)[i].value \in Value
             /\ AssetsMembership(Metered(w)[i].asset, Metered(w)[i].value, Abstracted(w, LiveView(seen)))
<1> DEFINE v == LiveView(seen)
           s == SignalsOf(w, v)
           pub == Abstracted(w, v)
           leaves == [i \in DOMAIN Registry |->
                        AssetsLeafHash(DeriveAssetId(Registry[i].sac), Registry[i].sac, Registry[i].decimals, Registry[i].limit)]
           at(i) == IndexIn([j \in DOMAIN Registry |-> DeriveAssetId(Registry[j].sac)], Metered(w)[i].asset)
<1>1. v.assets = Registry
  BY LiveViewDef
<1> HIDE DEF v
<1>2. pub.assets = {[asset |-> DeriveAssetId(a.sac), limit |-> a.limit] : a \in ToSet(Registry)}
  BY <1>1 DEF Abstracted
<1>3. AssetLeaves(v) = leaves
  BY <1>1 DEF AssetLeaves
<1>4. /\ s.w = w
      /\ s.assetsRoot = Replay(AssetLeaves(v)).root
      /\ s.meters = [i \in DOMAIN Metered(w) |->
                       [leaf |-> AssetLeaves(v)[IndexIn([j \in DOMAIN v.assets |-> DeriveAssetId(v.assets[j].sac)],
                                                        Metered(w)[i].asset) + 1],
                        path |-> InclusionPath(AssetLeaves(v),
                                               IndexIn([j \in DOMAIN v.assets |-> DeriveAssetId(v.assets[j].sac)],
                                                       Metered(w)[i].asset))]]
  BY DEF SignalsOf
<1> HIDE DEF s, pub
<1>5. ASSUME NEW i \in DOMAIN Metered(w)
      PROVE  /\ s.meters[i].leaf[1] = DeriveAssetId(s.meters[i].leaf[2])
             /\ VerifyInclusionPath(s.meters[i].leaf, s.meters[i].path, s.assetsRoot)
             /\ s.meters[i].leaf[1] = Metered(w)[i].asset /\ s.meters[i].leaf[4] \in Value /\ Metered(w)[i].value <= s.meters[i].leaf[4]
                  <=> AssetsMembership(Metered(w)[i].asset, Metered(w)[i].value, pub)
  <2> DEFINE asset == Metered(w)[i].asset
             value == Metered(w)[i].value
  <2>1. s.meters[i].leaf = leaves[at(i) + 1] /\ s.meters[i].path = InclusionPath(leaves, at(i)) /\ s.assetsRoot = Replay(leaves).root
    BY <1>1, <1>3, <1>4
  <2>2. AssetsMembership(asset, value, pub) <=> \E a \in ToSet(Registry) : DeriveAssetId(a.sac) = asset /\ a.limit \in Value /\ value <= a.limit
    <3> HIDE DEF asset, value
    <3>1. AssetsMembership(asset, value, pub) <=> \E leaf \in pub.assets : leaf.asset = asset /\ leaf.limit \in Value /\ value <= leaf.limit
      BY DEF AssetsMembership
    <3>2. \A a \in ToSet(Registry) : [asset |-> DeriveAssetId(a.sac), limit |-> a.limit] \in pub.assets
      BY <1>2
    <3>3. \A leaf \in pub.assets : \E a \in ToSet(Registry) : leaf = [asset |-> DeriveAssetId(a.sac), limit |-> a.limit]
      BY <1>2
    <3>4. ASSUME NEW leaf \in pub.assets, leaf.asset = asset, leaf.limit \in Value /\ value <= leaf.limit
          PROVE  \E a \in ToSet(Registry) : DeriveAssetId(a.sac) = asset /\ a.limit \in Value /\ value <= a.limit
      <4>1. PICK a \in ToSet(Registry) : leaf = [asset |-> DeriveAssetId(a.sac), limit |-> a.limit]
        BY <3>3
      <4>2. leaf.asset = DeriveAssetId(a.sac) /\ leaf.limit = a.limit
        BY <4>1
      <4> QED BY <3>4, <4>2
    <3>5. ASSUME NEW a \in ToSet(Registry), DeriveAssetId(a.sac) = asset, a.limit \in Value /\ value <= a.limit
          PROVE  \E leaf \in pub.assets : leaf.asset = asset /\ leaf.limit \in Value /\ value <= leaf.limit
      <4> DEFINE leaf == [asset |-> DeriveAssetId(a.sac), limit |-> a.limit]
      <4>1. leaf \in pub.assets /\ leaf.asset = asset /\ leaf.limit \in Value /\ value <= leaf.limit
        BY <3>2, <3>5
      <4> QED BY <4>1
    <3> QED BY <3>1, <3>4, <3>5
  <2> HIDE DEF asset, value
  <2>3. LET given == [j \in DOMAIN Registry |->
                        AssetsLeafHash(DeriveAssetId(Registry[j].sac), Registry[j].sac, Registry[j].decimals, Registry[j].limit)]
            k == IndexIn([j \in DOMAIN Registry |-> DeriveAssetId(Registry[j].sac)], asset)
            leaf == given[k + 1]
        IN  /\ leaf[1] = DeriveAssetId(leaf[2])
            /\ VerifyInclusionPath(leaf, InclusionPath(given, k), Replay(given).root)
            /\ leaf[1] = asset /\ leaf[4] \in Value /\ value <= leaf[4]
                 <=> \E a \in ToSet(Registry) : DeriveAssetId(a.sac) = asset /\ a.limit \in Value /\ value <= a.limit
    BY MeterDef
  <2>4. at(i) = IndexIn([j \in DOMAIN Registry |-> DeriveAssetId(Registry[j].sac)], asset)
    BY DEF asset
  <2> QED BY <2>1, <2>2, <2>3, <2>4 DEF asset, value
<1> HIDE DEF leaves, at
<1>6. Registered(s) <=> \A i \in DOMAIN Metered(w) :
                          /\ Metered(w)[i].value \in Value
                          /\ AssetsMembership(Metered(w)[i].asset, Metered(w)[i].value, pub)
  <2>1. Registered(s) <=> \A i \in DOMAIN Metered(w) :
          /\ s.meters[i].leaf[1] = Metered(w)[i].asset
          /\ s.meters[i].leaf[1] = DeriveAssetId(s.meters[i].leaf[2])
          /\ Metered(w)[i].value \in Value
          /\ s.meters[i].leaf[4] \in Value /\ Metered(w)[i].value <= s.meters[i].leaf[4]
          /\ VerifyInclusionPath(s.meters[i].leaf, s.meters[i].path, s.assetsRoot)
    BY <1>4 DEF Registered
  <2> QED BY <1>5, <2>1
<1> QED BY <1>6 DEF s, pub, v

LEMMA SpentNotesDef ==
  ASSUME ClawbackInv, NEW w, NEW seen, SeenInv(seen),
         \A k \in DOMAIN w.ins : w.anchor = log /\ \E i \in 1 .. Len(log) : w.ins[k] = log[i]
  PROVE  SpentNotes(SignalsOf(w, LiveView(seen))) <=>
           \A k \in DOMAIN w.ins : SpendOK(w.ins[k], w.anchor, Abstracted(w, LiveView(seen)))
<1> DEFINE v == LiveView(seen)
           s == SignalsOf(w, v)
           pub == Abstracted(w, v)
           anchor == [i \in DOMAIN w.anchor |-> LeafOf(w.anchor[i])]
<1>1. v.frozen = seen
  BY LiveViewDef
<1> HIDE DEF v
<1>2. pub.frozen = {n \in ToSet(w.ins) : NumberOf(n) \in ToSet(seen)}
  BY <1>1 DEF Abstracted
<1>3. /\ s.w = w
      /\ s.keys = [i \in DOMAIN w.ins |-> w.ins[i].owner]
      /\ s.nullifiers = [i \in DOMAIN w.ins |-> Nullifier(w.ins[i])]
      /\ s.anchorRoot = Replay(anchor).root
      /\ s.inPaths = [i \in DOMAIN w.ins |-> InclusionPath(anchor, IndexIn(w.anchor, w.ins[i]))]
      /\ s.frozenRoot = FrozenRootOf(v.frozen)
      /\ s.unfrozen = [i \in DOMAIN w.ins |-> FrozenNonMembership(v.frozen, NumberOf(w.ins[i]))]
  BY DEF SignalsOf
<1> HIDE DEF s, pub
<1>4. ASSUME NEW k \in DOMAIN w.ins
      PROVE  LET n == w.ins[k]
             IN  /\ n.owner = s.keys[k] /\ s.nullifiers[k] = <<n.rho, s.keys[k]>> /\ n.value \in Value
                 /\ VerifyInclusionPath(LeafOf(n), s.inPaths[k], s.anchorRoot)
                 /\ \E i \in DOMAIN w.anchor : w.anchor[i] = n
                 /\ AbsentUnder(NumberOf(n), s.unfrozen[k].low, s.unfrozen[k].path, s.frozenRoot) <=> n \notin pub.frozen
  <2> DEFINE n == w.ins[k]
  <2>1. w.anchor = log /\ \E i \in 1 .. Len(log) : n = log[i]
    OBVIOUS
  <2>2. n \in ToSet(w.ins)
    BY DEF ToSet
  <2>3. /\ s.keys[k] = n.owner /\ s.nullifiers[k] = Nullifier(n)
        /\ s.inPaths[k] = InclusionPath(anchor, IndexIn(log, n)) /\ s.anchorRoot = Replay(anchor).root
        /\ s.unfrozen[k] = FrozenNonMembership(seen, NumberOf(n)) /\ s.frozenRoot = FrozenRootOf(seen)
    BY <1>1, <1>3, <2>1
  <2> HIDE DEF n, anchor
  <2>4. PICK i \in 1 .. Len(log) : n = log[i]
    BY <2>1
  <2>5. n \in Note /\ n.value \in Value /\ NumberOf(n) \in Numbers
    <3>1. log[i] \in Note /\ log[i].value \in Value /\ log[i].rho \in 6 .. IMT_MAX - 1
      BY LogNote DEF ClawbackInv
    <3>2. log[i].rho \in 1 .. IMT_MAX - 1
      BY <3>1, ImtMaxAssumption
    <3> QED BY <2>4, <3>1, <3>2 DEF NumberOf, Numbers
  <2>6. log \in Seq(Note) /\ Len(log) <= TREE_CAPACITY /\ ToSet(log) = {log[j] : j \in 1 .. Len(log)} /\ DOMAIN log = 1 .. Len(log)
    BY RangeOf, LenProperties DEF ClawbackInv, LogInv
  <2>7. n \in ToSet(log) /\ \E j \in DOMAIN w.anchor : w.anchor[j] = n
    BY <2>1, <2>4, <2>6
  <2>8. VerifyInclusionPath(LeafOf(n), InclusionPath(anchor, IndexIn(log, n)), Replay(anchor).root)
    <3>1. LET leaves == [j \in DOMAIN log |-> LeafOf(log[j])]
          IN  VerifyInclusionPath(LeafOf(n), InclusionPath(leaves, IndexIn(log, n)), Replay(leaves).root) <=> n \in ToSet(log)
      BY <2>5, <2>6, MemberExact
    <3> QED BY <2>1, <2>7, <3>1 DEF anchor
  <2>9. AbsentUnder(NumberOf(n), FrozenNonMembership(seen, NumberOf(n)).low, FrozenNonMembership(seen, NumberOf(n)).path,
                    FrozenRootOf(seen)) <=> NumberOf(n) \notin ToSet(seen)
    <3>1. LET shown == FrozenNonMembership(seen, NumberOf(n))
          IN  AbsentUnder(NumberOf(n), shown.low, shown.path, FrozenRootOf(seen)) <=> NumberOf(n) \notin ToSet(seen)
      BY <2>5, AbsentExact DEF SeenInv
    <3> QED BY <3>1
  <2>10. n \in pub.frozen <=> NumberOf(n) \in ToSet(seen)
    BY <1>2, <2>2 DEF n
  <2>11. s.nullifiers[k] = <<n.rho, s.keys[k]>>
    BY <2>3 DEF Nullifier
  <2> QED BY <2>3, <2>5, <2>7, <2>8, <2>9, <2>10, <2>11 DEF n
<1> HIDE DEF anchor
<1>5. SpentNotes(s) <=> \A k \in DOMAIN w.ins :
        LET n == w.ins[k]
        IN  /\ n.owner = s.keys[k] /\ s.nullifiers[k] = <<n.rho, s.keys[k]>> /\ n.value \in Value
            /\ VerifyInclusionPath(LeafOf(n), s.inPaths[k], s.anchorRoot)
            /\ AbsentUnder(NumberOf(n), s.unfrozen[k].low, s.unfrozen[k].path, s.frozenRoot)
  BY <1>3 DEF SpentNotes
<1>6. \A k \in DOMAIN w.ins : SpendOK(w.ins[k], w.anchor, pub)
        <=> /\ w.ins[k].value \in Value
            /\ \E i \in DOMAIN w.anchor : w.anchor[i] = w.ins[k]
            /\ w.ins[k] \notin pub.frozen
  BY DEF SpendOK
<1>7. SpentNotes(s) <=> \A k \in DOMAIN w.ins : SpendOK(w.ins[k], w.anchor, pub)
  BY <1>4, <1>5, <1>6
<1> QED BY <1>7 DEF s, pub, v

LEMMA NewNotesDef ==
  ASSUME NEW w, NEW v
  PROVE  NewNotes(SignalsOf(w, v)) <=> \A i \in DOMAIN w.outs : w.outs[i].value \in Value
<1> DEFINE s == SignalsOf(w, v)
<1>1. /\ s.w = w /\ s.kView = v.kView
      /\ s.commitments = [i \in DOMAIN w.outs |-> LeafOf(w.outs[i])]
      /\ s.cAuditor = [i \in DOMAIN w.outs |-> EncryptToAuditor(w.outs[i], v.kView)]
  BY DEF SignalsOf
<1> HIDE DEF s
<1>2. NewNotes(s) <=> \A i \in DOMAIN w.outs : w.outs[i].value \in Value
  BY <1>1 DEF NewNotes
<1> QED BY <1>2 DEF s

LEMMA AdvancedDef ==
  ASSUME ClawbackInv, NEW w, NEW seen, WitnessInv(w)
  PROVE  Advanced(SignalsOf(w, LiveView(seen))) <=> IndicesFit(tree.leafCount, Len(Inserted(w)))
<1> DEFINE v == LiveView(seen)
           s == SignalsOf(w, v)
           new == Inserted(w)
           c == CircuitTransition(tree.frontier, new, tree.leafCount)
           t == ApplyFrontierTransition(tree.frontier, tree.leafCount, new)
<1>1. v.frontier = tree.frontier /\ v.nextIndex = tree.leafCount
  BY LiveViewDef
<1> HIDE DEF v
<1>2. /\ s.w = w /\ s.oldFrontier = tree.frontier /\ s.nextIndex = tree.leafCount
      /\ s.newFrontier = Transition(w, v).frontier /\ s.newRoot = Transition(w, v).root
  BY <1>1 DEF SignalsOf
<1> HIDE DEF s
<1>3. IsFrontier(tree.frontier) /\ tree.leafCount \in Nat
  <2>1. /\ LeavesOf(log) \in Seq(TreeLeaves) /\ Len(LeavesOf(log)) = Len(log) /\ Len(log) \in Nat
        /\ Len(log) <= TREE_CAPACITY
    BY LeavesOfDef, LenProperties DEF ClawbackInv, LogInv
  <2>2. \A i \in 0 .. Len(LeavesOf(log)) - 1 : Fits(i)
    BY <2>1, CapacityRoom
  <2>3. FrontierOf(Replay(LeavesOf(log)).frontier, LeavesOf(log))
    BY <2>1, <2>2, ReplayIsTree
  <2> QED BY <2>1, <2>3 DEF FrontierOf, ClawbackInv, LogInv, TreeInv
<1>4. IsSequence(new) /\ Len(new) # 0
  <2>1. CASE w.outs = << >>
    BY <2>1 DEF Inserted, IsSequence
  <2>2. ASSUME NEW o, w.outs = <<o>>
        PROVE  IsSequence(new) /\ Len(new) # 0
    <3>1. new = <<LeafOf(o)>>
      BY <2>2 DEF Inserted
    <3> HIDE DEF new
    <3> QED BY <3>1 DEF IsSequence
  <2>3. ASSUME NEW o, NEW p, w.outs = <<o, p>>
        PROVE  IsSequence(new) /\ Len(new) # 0
    <3>1. new = <<LeafOf(o), LeafOf(p)>>
      BY <2>3 DEF Inserted
    <3> HIDE DEF new
    <3> QED BY <3>1 DEF IsSequence
  <2> HIDE DEF new
  <2> QED BY <2>1, <2>2, <2>3, WitnessShape
<1> HIDE DEF new
<1>5. c = t
  BY <1>3, <1>4, CircuitIsBuilder
<1>6. c = [frontier |-> c.frontier, root |-> c.root]
  BY DEF CircuitTransition
<1> HIDE DEF c, t
<1>7. Transition(w, v) = IF w.outs = << >> THEN [t EXCEPT !.frontier = tree.frontier] ELSE t
  BY <1>1 DEF Transition, new, t
<1>8. /\ Transition(w, v).frontier = IF w.outs = << >> THEN tree.frontier ELSE t.frontier
      /\ Transition(w, v).root = t.root
  BY <1>5, <1>6, <1>7
<1>9. Advanced(s) <=> /\ IndicesFit(tree.leafCount, Len(new))
                      /\ s.newFrontier = IF w.outs = << >> THEN tree.frontier ELSE c.frontier
                      /\ s.newRoot = c.root
  BY <1>2 DEF Advanced, new, c
<1>10. Advanced(s) <=> IndicesFit(tree.leafCount, Len(new))
  BY <1>2, <1>5, <1>8, <1>9
<1> QED BY <1>10 DEF s, v, new

\* The six constraints together, over the notes and the lists.
LEMMA WitnessOkDef ==
  ASSUME ClawbackInv, NEW w, NEW seen, WitnessInv(w), SeenInv(seen),
         \A k \in DOMAIN w.ins : w.anchor = log /\ \E i \in 1 .. Len(log) : w.ins[k] = log[i],
         \A i \in DOMAIN Recipients(w) : Recipients(w)[i] \in Owners
  PROVE  LET pub == Abstracted(w, LiveView(seen))
         IN  WitnessOk(SignalsOf(w, LiveView(seen))) <=>
               /\ \A k \in DOMAIN w.ins : SpendOK(w.ins[k], w.anchor, pub)
               /\ Conserved(w)
               /\ \A i \in DOMAIN w.outs : w.outs[i].value \in Value
               /\ \A i \in DOMAIN Metered(w) :
                     /\ Metered(w)[i].value \in Value
                     /\ AssetsMembership(Metered(w)[i].asset, Metered(w)[i].value, pub)
               /\ \A i \in DOMAIN Recipients(w) :
                     /\ KycMembership(Recipients(w)[i], pub)
                     /\ w.kind # "shield" => SanctionNonMembership(Recipients(w)[i], pub)
               /\ IndicesFit(pub.nextIndex, Len(Inserted(w)))
<1> DEFINE v == LiveView(seen)
           s == SignalsOf(w, v)
           pub == Abstracted(w, v)
<1>1. s.w = w
  BY DEF SignalsOf
<1>2. pub.nextIndex = tree.leafCount
  BY LiveViewDef DEF Abstracted
<1>3. WitnessOk(s) <=> SpentNotes(s) /\ Conserved(w) /\ NewNotes(s) /\ Registered(s) /\ Approved(s) /\ Advanced(s)
  BY <1>1 DEF WitnessOk
<1>4. SpentNotes(s) <=> \A k \in DOMAIN w.ins : SpendOK(w.ins[k], w.anchor, pub)
  BY SpentNotesDef
<1>5. NewNotes(s) <=> \A i \in DOMAIN w.outs : w.outs[i].value \in Value
  BY NewNotesDef
<1>6. Registered(s) <=> \A i \in DOMAIN Metered(w) :
        /\ Metered(w)[i].value \in Value
        /\ AssetsMembership(Metered(w)[i].asset, Metered(w)[i].value, pub)
  BY RegisteredDef
<1>7. Approved(s) <=> \A i \in DOMAIN Recipients(w) :
        /\ KycMembership(Recipients(w)[i], pub)
        /\ w.kind # "shield" => SanctionNonMembership(Recipients(w)[i], pub)
  BY ApprovedDef
<1>8. Advanced(s) <=> IndicesFit(pub.nextIndex, Len(Inserted(w)))
  BY <1>2, AdvancedDef
<1> HIDE DEF s, pub, v
<1>9. WitnessOk(s) <=>
        /\ \A k \in DOMAIN w.ins : SpendOK(w.ins[k], w.anchor, pub)
        /\ Conserved(w)
        /\ \A i \in DOMAIN w.outs : w.outs[i].value \in Value
        /\ \A i \in DOMAIN Metered(w) :
              /\ Metered(w)[i].value \in Value
              /\ AssetsMembership(Metered(w)[i].asset, Metered(w)[i].value, pub)
        /\ \A i \in DOMAIN Recipients(w) :
              /\ KycMembership(Recipients(w)[i], pub)
              /\ w.kind # "shield" => SanctionNonMembership(Recipients(w)[i], pub)
        /\ IndicesFit(pub.nextIndex, Len(Inserted(w)))
  BY <1>3, <1>4, <1>5, <1>6, <1>7, <1>8
<1> QED BY <1>9 DEF s, pub, v

LEMMA ShieldExact ==
  ASSUME ClawbackInv, NEW seen, SeenInv(seen), NEW o \in Minting
  PROVE  LET w == ShieldWitness(o)
         IN  WitnessOk(SignalsOf(w, LiveView(seen))) <=> Provable(w, Abstracted(w, LiveView(seen)))
<1> DEFINE w == ShieldWitness(o)
           pub == Abstracted(w, LiveView(seen))
<1>1. w.kind = "shield" /\ w.ins = << >> /\ w.outs = <<o>> /\ w.amount = o.value
  BY DEF ShieldWitness
<1>2. WitnessInv(w)
  BY DEF WitnessInv
<1>3. o.owner \in Owners
  BY DEF Minting, Draft
<1> HIDE DEF w, pub
<1>4. Recipients(w) = <<o.owner>>
  <2>1. Recipients(w) = [i \in DOMAIN w.outs |-> w.outs[i].owner]
    BY <1>1 DEF Recipients
  <2> QED BY <1>1, <2>1
<1>5. Metered(w) = << [asset |-> o.asset, value |-> o.value] >>
  <2>1. Metered(w) = [i \in DOMAIN w.outs |-> [asset |-> w.outs[i].asset, value |-> w.outs[i].value]]
    BY <1>1 DEF Metered
  <2> QED BY <1>1, <2>1
<1>6. Len(Inserted(w)) = 1
  <2>1. Inserted(w) = [i \in DOMAIN w.outs |-> LeafOf(w.outs[i])]
    BY <1>1 DEF Inserted
  <2>2. Inserted(w) = <<LeafOf(o)>>
    BY <1>1, <2>1
  <2> QED BY <2>2
<1>7. Conserved(w)
  BY <1>1 DEF Conserved
<1>8. WitnessOk(SignalsOf(w, LiveView(seen))) <=>
        /\ \A k \in DOMAIN w.ins : SpendOK(w.ins[k], w.anchor, pub)
        /\ Conserved(w)
        /\ \A i \in DOMAIN w.outs : w.outs[i].value \in Value
        /\ \A i \in DOMAIN Metered(w) :
              /\ Metered(w)[i].value \in Value
              /\ AssetsMembership(Metered(w)[i].asset, Metered(w)[i].value, pub)
        /\ \A i \in DOMAIN Recipients(w) :
              /\ KycMembership(Recipients(w)[i], pub)
              /\ w.kind # "shield" => SanctionNonMembership(Recipients(w)[i], pub)
        /\ IndicesFit(pub.nextIndex, Len(Inserted(w)))
  <2>1. /\ \A k \in DOMAIN w.ins : w.anchor = log /\ \E i \in 1 .. Len(log) : w.ins[k] = log[i]
        /\ \A i \in DOMAIN Recipients(w) : Recipients(w)[i] \in Owners
    BY <1>1, <1>3, <1>4
  <2>2. LET q == Abstracted(w, LiveView(seen))
        IN  WitnessOk(SignalsOf(w, LiveView(seen))) <=>
              /\ \A k \in DOMAIN w.ins : SpendOK(w.ins[k], w.anchor, q)
              /\ Conserved(w)
              /\ \A i \in DOMAIN w.outs : w.outs[i].value \in Value
              /\ \A i \in DOMAIN Metered(w) :
                    /\ Metered(w)[i].value \in Value
                    /\ AssetsMembership(Metered(w)[i].asset, Metered(w)[i].value, q)
              /\ \A i \in DOMAIN Recipients(w) :
                    /\ KycMembership(Recipients(w)[i], q)
                    /\ w.kind # "shield" => SanctionNonMembership(Recipients(w)[i], q)
              /\ IndicesFit(q.nextIndex, Len(Inserted(w)))
    BY <1>2, <2>1, WitnessOkDef
  <2> QED BY <2>2 DEF pub
<1>9. WitnessOk(SignalsOf(w, LiveView(seen))) <=>
        /\ o.value \in Value
        /\ AssetsMembership(o.asset, o.value, pub)
        /\ KycMembership(o.owner, pub)
        /\ IndicesFit(pub.nextIndex, 1)
  <2>1. \A k \in DOMAIN w.ins : SpendOK(w.ins[k], w.anchor, pub)
    BY <1>1
  <2>2. (\A i \in DOMAIN w.outs : w.outs[i].value \in Value) <=> o.value \in Value
    BY <1>1
  <2>3. (\A i \in DOMAIN Metered(w) : /\ Metered(w)[i].value \in Value
                                      /\ AssetsMembership(Metered(w)[i].asset, Metered(w)[i].value, pub))
          <=> o.value \in Value /\ AssetsMembership(o.asset, o.value, pub)
    BY <1>5
  <2>4. (\A i \in DOMAIN Recipients(w) : /\ KycMembership(Recipients(w)[i], pub)
                                         /\ w.kind # "shield" => SanctionNonMembership(Recipients(w)[i], pub))
          <=> KycMembership(o.owner, pub)
    BY <1>1, <1>4 DEF KycMembership, SanctionNonMembership
  <2> QED BY <1>6, <1>7, <1>8, <2>1, <2>2, <2>3, <2>4 DEF KycMembership, SanctionNonMembership
<1>10. Provable(w, pub) <=> ShieldStatement(o, pub)
  BY <1>1 DEF Provable
<1> QED BY <1>9, <1>10 DEF ShieldStatement, w, pub

LEMMA TransferExact ==
  ASSUME ClawbackInv, NEW seen, SeenInv(seen), NEW i \in 1 .. Len(log), NEW j \in 1 .. Len(log),
         NEW o \in Minting, NEW p \in Minting, o.rho # p.rho, p.owner = log[i].owner
  PROVE  LET w == TransferWitness(log, log[i], log[j], o, p)
         IN  WitnessOk(SignalsOf(w, LiveView(seen))) <=> Provable(w, Abstracted(w, LiveView(seen)))
<1> DEFINE m == log[i]
           n == log[j]
           w == TransferWitness(log, m, n, o, p)
           pub == Abstracted(w, LiveView(seen))
<1>1. w.kind = "transfer" /\ w.anchor = log /\ w.ins = <<m, n>> /\ w.outs = <<o, p>>
  BY DEF TransferWitness
<1>2. WitnessInv(w)
  BY DEF WitnessInv
<1>3. o.owner \in Owners /\ o.value \in Nat /\ p.value \in Nat
  BY DEF Minting, Draft
<1>4. m.value \in Nat /\ n.value \in Nat
  BY LogNote DEF ClawbackInv
<1>5. \A k \in DOMAIN w.ins : w.anchor = log /\ \E q \in 1 .. Len(log) : w.ins[k] = log[q]
  BY <1>1
<1> HIDE DEF w, pub, m, n
<1>6. Recipients(w) = <<o.owner>>
  <2>1. Recipients(w) = <<w.outs[1].owner>>
    BY <1>1 DEF Recipients
  <2> QED BY <1>1, <2>1
<1>7. Metered(w) = << [asset |-> o.asset, value |-> o.value], [asset |-> p.asset, value |-> p.value] >>
  <2>1. Metered(w) = [k \in DOMAIN w.outs |-> [asset |-> w.outs[k].asset, value |-> w.outs[k].value]]
    BY <1>1 DEF Metered
  <2> QED BY <1>1, <2>1
<1>8. Len(Inserted(w)) = 2
  <2>1. Inserted(w) = [k \in DOMAIN w.outs |-> LeafOf(w.outs[k])]
    BY <1>1 DEF Inserted
  <2>2. Inserted(w) = <<LeafOf(o), LeafOf(p)>>
    BY <1>1, <2>1
  <2> QED BY <2>2
<1>9. Conserved(w) <=> /\ m.owner = n.owner
                       /\ n.asset = m.asset /\ o.asset = m.asset /\ p.asset = m.asset
                       /\ m.value + n.value = o.value + p.value
  <2>1. Conserved(w) <=> /\ w.ins[1].owner = w.ins[2].owner
                         /\ \A q \in {w.ins[2], w.outs[1], w.outs[2]} : q.asset = w.ins[1].asset
                         /\ w.ins[1].value + w.ins[2].value = w.outs[1].value + w.outs[2].value
    BY <1>1 DEF Conserved
  <2> QED BY <1>1, <2>1
<1>10. WitnessOk(SignalsOf(w, LiveView(seen))) <=>
        /\ \A k \in DOMAIN w.ins : SpendOK(w.ins[k], w.anchor, pub)
        /\ Conserved(w)
        /\ \A k \in DOMAIN w.outs : w.outs[k].value \in Value
        /\ \A k \in DOMAIN Metered(w) :
              /\ Metered(w)[k].value \in Value
              /\ AssetsMembership(Metered(w)[k].asset, Metered(w)[k].value, pub)
        /\ \A k \in DOMAIN Recipients(w) :
              /\ KycMembership(Recipients(w)[k], pub)
              /\ w.kind # "shield" => SanctionNonMembership(Recipients(w)[k], pub)
        /\ IndicesFit(pub.nextIndex, Len(Inserted(w)))
  <2>1. \A k \in DOMAIN Recipients(w) : Recipients(w)[k] \in Owners
    BY <1>3, <1>6
  <2>2. LET r == Abstracted(w, LiveView(seen))
        IN  WitnessOk(SignalsOf(w, LiveView(seen))) <=>
              /\ \A k \in DOMAIN w.ins : SpendOK(w.ins[k], w.anchor, r)
              /\ Conserved(w)
              /\ \A k \in DOMAIN w.outs : w.outs[k].value \in Value
              /\ \A k \in DOMAIN Metered(w) :
                    /\ Metered(w)[k].value \in Value
                    /\ AssetsMembership(Metered(w)[k].asset, Metered(w)[k].value, r)
              /\ \A k \in DOMAIN Recipients(w) :
                    /\ KycMembership(Recipients(w)[k], r)
                    /\ w.kind # "shield" => SanctionNonMembership(Recipients(w)[k], r)
              /\ IndicesFit(r.nextIndex, Len(Inserted(w)))
    BY <1>2, <1>5, <2>1, WitnessOkDef
  <2> QED BY <2>2 DEF pub
<1>11. WitnessOk(SignalsOf(w, LiveView(seen))) <=>
        /\ SpendOK(m, log, pub) /\ SpendOK(n, log, pub)
        /\ Conserved(w)
        /\ o.value \in Value /\ p.value \in Value
        /\ AssetsMembership(o.asset, o.value, pub) /\ AssetsMembership(p.asset, p.value, pub)
        /\ KycMembership(o.owner, pub) /\ SanctionNonMembership(o.owner, pub)
        /\ IndicesFit(pub.nextIndex, 2)
  <2>1. (\A k \in DOMAIN w.ins : SpendOK(w.ins[k], w.anchor, pub)) <=> SpendOK(m, log, pub) /\ SpendOK(n, log, pub)
    BY <1>1
  <2>2. (\A k \in DOMAIN w.outs : w.outs[k].value \in Value) <=> o.value \in Value /\ p.value \in Value
    BY <1>1
  <2>3. (\A k \in DOMAIN Metered(w) : /\ Metered(w)[k].value \in Value
                                      /\ AssetsMembership(Metered(w)[k].asset, Metered(w)[k].value, pub))
          <=> /\ o.value \in Value /\ AssetsMembership(o.asset, o.value, pub)
              /\ p.value \in Value /\ AssetsMembership(p.asset, p.value, pub)
    BY <1>7
  <2>4. (\A k \in DOMAIN Recipients(w) : /\ KycMembership(Recipients(w)[k], pub)
                                         /\ w.kind # "shield" => SanctionNonMembership(Recipients(w)[k], pub))
          <=> KycMembership(o.owner, pub) /\ SanctionNonMembership(o.owner, pub)
    BY <1>1, <1>6 DEF KycMembership, SanctionNonMembership
  <2> QED BY <1>8, <1>10, <2>1, <2>2, <2>3, <2>4 DEF KycMembership, SanctionNonMembership
<1>12. Provable(w, pub) <=> TransferInputs(log, m, n, pub) /\ TransferOutputs(m, n, o, p, 0, pub)
  BY <1>1 DEF Provable
<1>13. ASSUME SpendOK(m, log, pub), SpendOK(n, log, pub)
       PROVE  TransferOutputs(m, n, o, p, 0, pub) <=>
         /\ o.value \in Value /\ o.asset = m.asset /\ AssetsMembership(o.asset, o.value, pub)
         /\ p.value \in Value /\ p.asset = m.asset /\ AssetsMembership(p.asset, p.value, pub)
         /\ m.value + n.value = o.value + p.value
         /\ KycMembership(o.owner, pub) /\ SanctionNonMembership(o.owner, pub)
         /\ IndicesFit(pub.nextIndex, 2)
  <2>1. m.value + n.value \in Nat /\ m.value + n.value <= 2 * MAX_VALUE
    BY <1>13, NotesAssumption DEF SpendOK, Value
  <2>2. ASSUME o.value \in Value, p.value \in Value
        PROVE  Balanced(m.value + n.value, o.value + p.value, 0) <=> m.value + n.value = o.value + p.value
    <3>1. o.value + p.value \in Nat /\ o.value + p.value <= 2 * MAX_VALUE
      BY <2>2, NotesAssumption DEF Value
    <3> QED BY <2>1, <3>1, BalancedWithoutFee
  <2> QED BY <2>2 DEF TransferOutputs, Recipient
<1>14. WitnessOk(SignalsOf(w, LiveView(seen))) <=> Provable(w, pub)
  <2>1. CASE SpendOK(m, log, pub) /\ SpendOK(n, log, pub)
    BY <1>9, <1>11, <1>12, <1>13, <2>1 DEF TransferInputs
  <2>2. CASE ~(SpendOK(m, log, pub) /\ SpendOK(n, log, pub))
    BY <1>11, <1>12, <2>2 DEF TransferInputs
  <2> QED BY <2>1, <2>2
<1> QED BY <1>14 DEF w, pub, m, n

LEMMA UnshieldExact ==
  ASSUME ClawbackInv, NEW seen, SeenInv(seen), NEW i \in 1 .. Len(log), NEW amount \in Nat, NEW recipient \in Owners,
         NEW change \in {<< >>} \cup {<<o>> : o \in Minting},
         \A k \in DOMAIN change : change[k].owner = log[i].owner
  PROVE  LET w == UnshieldWitness(log, log[i], amount, recipient, change)
         IN  WitnessOk(SignalsOf(w, LiveView(seen))) <=> Provable(w, Abstracted(w, LiveView(seen)))
<1> DEFINE n == log[i]
           w == UnshieldWitness(log, n, amount, recipient, change)
           pub == Abstracted(w, LiveView(seen))
           rest == IF change = << >> THEN 0 ELSE change[1].value
<1>1. /\ w.kind = "unshield" /\ w.anchor = log /\ w.ins = <<n>> /\ w.outs = change
      /\ w.amount = amount /\ w.recipient = recipient
  BY DEF UnshieldWitness
<1>2. WitnessInv(w)
  BY DEF WitnessInv
<1>3. \A k \in DOMAIN w.ins : w.anchor = log /\ \E q \in 1 .. Len(log) : w.ins[k] = log[q]
  BY <1>1
<1> HIDE DEF w, pub, n, rest
<1>4. Recipients(w) = <<recipient>>
  BY <1>1 DEF Recipients
<1>5. Metered(w) = << [asset |-> n.asset, value |-> amount] >>
  BY <1>1 DEF Metered
<1>6. Len(Inserted(w)) = 1
  <2>1. CASE change = << >>
    <3>1. Inserted(w) = <<EMPTY_LEAF>>
      BY <1>1, <2>1 DEF Inserted
    <3> QED BY <3>1
  <2>2. CASE change # << >>
    <3>1. PICK o \in Minting : change = <<o>>
      BY <2>2
    <3>2. Inserted(w) = [k \in DOMAIN change |-> LeafOf(change[k])]
      BY <1>1, <2>2 DEF Inserted
    <3>3. Inserted(w) = <<LeafOf(o)>>
      BY <3>1, <3>2
    <3> QED BY <3>3
  <2> QED BY <2>1, <2>2
<1>7. Conserved(w) <=> /\ \A k \in DOMAIN change : change[k].asset = n.asset
                       /\ n.value = amount + rest
  <2>1. Conserved(w) <=> /\ \A k \in DOMAIN w.outs : w.outs[k].asset = w.ins[1].asset
                         /\ w.ins[1].value = w.amount + (IF w.outs = << >> THEN 0 ELSE w.outs[1].value)
    BY <1>1 DEF Conserved
  <2>2. w.ins[1] = n
    BY <1>1
  <2> QED BY <1>1, <2>1, <2>2 DEF rest
<1>8. WitnessOk(SignalsOf(w, LiveView(seen))) <=>
        /\ \A k \in DOMAIN w.ins : SpendOK(w.ins[k], w.anchor, pub)
        /\ Conserved(w)
        /\ \A k \in DOMAIN w.outs : w.outs[k].value \in Value
        /\ \A k \in DOMAIN Metered(w) :
              /\ Metered(w)[k].value \in Value
              /\ AssetsMembership(Metered(w)[k].asset, Metered(w)[k].value, pub)
        /\ \A k \in DOMAIN Recipients(w) :
              /\ KycMembership(Recipients(w)[k], pub)
              /\ w.kind # "shield" => SanctionNonMembership(Recipients(w)[k], pub)
        /\ IndicesFit(pub.nextIndex, Len(Inserted(w)))
  <2>1. \A k \in DOMAIN Recipients(w) : Recipients(w)[k] \in Owners
    BY <1>4
  <2>2. LET r == Abstracted(w, LiveView(seen))
        IN  WitnessOk(SignalsOf(w, LiveView(seen))) <=>
              /\ \A k \in DOMAIN w.ins : SpendOK(w.ins[k], w.anchor, r)
              /\ Conserved(w)
              /\ \A k \in DOMAIN w.outs : w.outs[k].value \in Value
              /\ \A k \in DOMAIN Metered(w) :
                    /\ Metered(w)[k].value \in Value
                    /\ AssetsMembership(Metered(w)[k].asset, Metered(w)[k].value, r)
              /\ \A k \in DOMAIN Recipients(w) :
                    /\ KycMembership(Recipients(w)[k], r)
                    /\ w.kind # "shield" => SanctionNonMembership(Recipients(w)[k], r)
              /\ IndicesFit(r.nextIndex, Len(Inserted(w)))
    BY <1>2, <1>3, <2>1, WitnessOkDef
  <2> QED BY <2>2 DEF pub
<1>9. WitnessOk(SignalsOf(w, LiveView(seen))) <=>
        /\ SpendOK(n, log, pub)
        /\ Conserved(w)
        /\ \A k \in DOMAIN change : change[k].value \in Value
        /\ amount \in Value /\ AssetsMembership(n.asset, amount, pub)
        /\ KycMembership(recipient, pub) /\ SanctionNonMembership(recipient, pub)
        /\ IndicesFit(pub.nextIndex, 1)
  <2>1. (\A k \in DOMAIN w.ins : SpendOK(w.ins[k], w.anchor, pub)) <=> SpendOK(n, log, pub)
    BY <1>1
  <2>2. (\A k \in DOMAIN Metered(w) : /\ Metered(w)[k].value \in Value
                                      /\ AssetsMembership(Metered(w)[k].asset, Metered(w)[k].value, pub))
          <=> amount \in Value /\ AssetsMembership(n.asset, amount, pub)
    BY <1>5
  <2>3. (\A k \in DOMAIN Recipients(w) : /\ KycMembership(Recipients(w)[k], pub)
                                         /\ w.kind # "shield" => SanctionNonMembership(Recipients(w)[k], pub))
          <=> KycMembership(recipient, pub) /\ SanctionNonMembership(recipient, pub)
    BY <1>1, <1>4 DEF KycMembership, SanctionNonMembership
  <2> QED BY <1>1, <1>6, <1>8, <2>1, <2>2, <2>3 DEF KycMembership, SanctionNonMembership
<1>10. Provable(w, pub) <=> UnshieldStatement(log, n, amount, recipient, change, 0, pub)
  BY <1>1 DEF Provable
<1>11. ASSUME SpendOK(n, log, pub), amount \in Value, \A k \in DOMAIN change : change[k].value \in Value
       PROVE  Balanced(n.value, amount + rest, 0) <=> n.value = amount + rest
  <2>1. n.value \in Nat /\ n.value <= 2 * MAX_VALUE
    BY <1>11, NotesAssumption DEF SpendOK, Value
  <2>2. rest \in Value
    <3>1. CASE change = << >>
      BY <3>1, NotesAssumption DEF rest, Value
    <3>2. CASE change # << >>
      <4>1. PICK o \in Minting : change = <<o>>
        BY <3>2
      <4>2. 1 \in DOMAIN change
        BY <4>1
      <4> QED BY <1>11, <3>2, <4>2 DEF rest
    <3> QED BY <3>1, <3>2
  <2>3. amount + rest \in Nat /\ amount + rest <= 2 * MAX_VALUE
    BY <1>11, <2>2, NotesAssumption DEF Value
  <2> QED BY <2>1, <2>3, BalancedWithoutFee
<1>12. UnshieldStatement(log, n, amount, recipient, change, 0, pub) <=>
         /\ SpendOK(n, log, pub)
         /\ amount \in Value
         /\ \A k \in DOMAIN change : change[k].value \in Value /\ change[k].asset = n.asset
         /\ n.value = amount + rest
         /\ AssetsMembership(n.asset, amount, pub)
         /\ KycMembership(recipient, pub) /\ SanctionNonMembership(recipient, pub)
         /\ IndicesFit(pub.nextIndex, 1)
  BY <1>11 DEF UnshieldStatement, Recipient, rest
<1>13. WitnessOk(SignalsOf(w, LiveView(seen))) <=> Provable(w, pub)
  BY <1>7, <1>9, <1>10, <1>12
<1> QED BY <1>13 DEF w, pub, n

\* What a builder puts together can be proved exactly when the statement holds.
LEMMA WitnessExact ==
  ASSUME ClawbackInv, NEW w, WitnessInv(w), NEW seen, SeenInv(seen)
  PROVE  WitnessOk(SignalsOf(w, LiveView(seen))) <=> Provable(w, Abstracted(w, LiveView(seen)))
BY ShieldExact, TransferExact, UnshieldExact DEF WitnessInv

LEMMA BuildersAgreeHere == ClawbackInv => BuildersAgree
<1> SUFFICES ASSUME ClawbackInv, NEW i \in DOMAIN proof
             PROVE  WitnessOk(proof[i].signals)
                      <=> Provable(proof[i].signals.w, Abstracted(proof[i].signals.w, proof[i].view))
  BY DEF BuildersAgree
<1>1. PICK w, seen :
        /\ proof = << [signals |-> SignalsOf(w, LiveView(seen)), view |-> LiveView(seen)] >>
        /\ WitnessInv(w)
        /\ SeenInv(seen)
  <2>1. proof # << >>
    OBVIOUS
  <2> QED BY <2>1 DEF ClawbackInv, ProofInv
<1>2. proof[i].signals = SignalsOf(w, LiveView(seen)) /\ proof[i].view = LiveView(seen)
  BY <1>1
<1>3. SignalsOf(w, LiveView(seen)).w = w
  BY DEF SignalsOf
<1> QED BY <1>1, <1>2, <1>3, WitnessExact

\* What the SDK's builders derive from the notes and the lists (paths, low leaves, the
\* registry leaf, the tree transition) satisfies the circuit's constraints exactly when
\* the statement of the circuit holds of the notes (witness.ts, circuits/lib).
THEOREM BuildersAlwaysAgree == Spec => []BuildersAgree
BY ClawbackInvariant, BuildersAgreeHere, PTL

----------------------------------------------------------------------------
(* A note that is not frozen can be withdrawn.                              *)

\* The frozen root depends on the set of the commitments only.
LEMMA FrozenRootOfSet ==
  ASSUME NEW cms, NEW others, ToSet(cms) = ToSet(others)
  PROVE  FrozenRootOf(cms) = FrozenRootOf(others)
BY DEF FrozenRootOf, SortedFrozen

\* And it tells the set: what one list shows absent is not in the other.
LEMMA FrozenRootTells ==
  ASSUME NEW cms, ToSet(cms) \subseteq 1 .. IMT_MAX - 1,
         \A i \in 0 .. Cardinality(ToSet(cms)) + 1 : Fits(i),
         NEW others, ToSet(others) \subseteq 1 .. IMT_MAX - 1,
         \A i \in 0 .. Cardinality(ToSet(others)) + 1 : Fits(i),
         FrozenRootOf(cms) = FrozenRootOf(others)
  PROVE  ToSet(cms) \subseteq ToSet(others)
<1> SUFFICES ASSUME NEW x \in ToSet(cms), x \notin ToSet(others) PROVE FALSE
  OBVIOUS
<1> DEFINE shown == FrozenNonMembership(others, x)
<1>1. x \in 1 .. IMT_MAX - 1 /\ x \in Int
  BY ImtMaxAssumption
<1>2. AbsentUnder(x, shown.low, shown.path, FrozenRootOf(others))
  <2>1. LET given == FrozenNonMembership(others, x)
        IN  AbsentUnder(x, given.low, given.path, FrozenRootOf(others))
    BY <1>1, AbsentComplete
  <2> QED BY <2>1
<1>3. shown.low \in ImtLeaf
  <2>1. LET sorted == SortedFrozen(others)
            n == Cardinality(ToSet(others))
            j == LowIndex(sorted, x)
        IN  /\ j \in 0 .. n
            /\ \A i \in 1 .. n : sorted[i] < x <=> i <= j
            /\ FrozenNonMembership(others, x).low \in ImtLeaf
    BY <1>1, LowIndexDef
  <2> QED BY <2>1
<1> HIDE DEF shown
<1>4. AbsentUnder(x, shown.low, shown.path, FrozenRootOf(cms))
  BY <1>2
<1>5. x \notin ToSet(cms)
  BY <1>1, <1>3, <1>4, AbsentSound
<1> QED BY <1>5

\* The stored frozen root is that of the frozen list exactly when it was computed
\* from all of them.
LEMMA BehindAll ==
  ASSUME ClawbackInv
  PROVE  FrozenRootOf(frozen) = frozenRoot <=> behind = ToSet(frozen)
<1>1. PICK cms : ToSet(cms) = behind /\ frozenRoot = FrozenRootOf(cms)
  BY DEF ClawbackInv, FrozenInv
<1>2. /\ ToSet(cms) \subseteq 1 .. IMT_MAX - 1
      /\ \A i \in 0 .. Cardinality(ToSet(cms)) + 1 : Fits(i)
  BY <1>1, FrozenFits DEF ClawbackInv, FrozenInv, Numbers
<1>3. /\ ToSet(frozen) \subseteq 1 .. IMT_MAX - 1
      /\ \A i \in 0 .. Cardinality(ToSet(frozen)) + 1 : Fits(i)
  <2>1. frozen \in Seq(Numbers) /\ Len(frozen) + 2 <= TREE_CAPACITY /\ Len(frozen) \in Nat
    BY LenProperties DEF ClawbackInv, FrozenInv
  <2>2. /\ ToSet(frozen) \subseteq Numbers
        /\ Cardinality(ToSet(frozen)) <= Len(frozen) /\ Cardinality(ToSet(frozen)) \in Nat
    BY <2>1, RangeOf, FS_CardinalityType
  <2>3. \A i \in 0 .. Cardinality(ToSet(frozen)) + 1 : i \in 0 .. TREE_CAPACITY - 1
    BY <2>1, <2>2, CapacityRoom
  <2> QED BY <2>2, <2>3, CapacityRoom DEF Numbers
<1>4. ASSUME behind = ToSet(frozen)
      PROVE  FrozenRootOf(frozen) = frozenRoot
  BY <1>1, <1>4, FrozenRootOfSet
<1>5. ASSUME FrozenRootOf(frozen) = frozenRoot
      PROVE  behind = ToSet(frozen)
  <2>1. FrozenRootOf(frozen) = FrozenRootOf(cms)
    BY <1>1, <1>5
  <2>2. ToSet(frozen) \subseteq ToSet(cms)
    BY <1>2, <1>3, <2>1, FrozenRootTells
  <2>3. ToSet(cms) \subseteq ToSet(frozen)
    BY <1>2, <1>3, <2>1, FrozenRootTells
  <2> QED BY <1>1, <2>2, <2>3
<1> QED BY <1>4, <1>5

\* The checks on the withdrawal of an unspent note come down to the frozen root.
LEMMA WithdrawalAccepted ==
  ASSUME ClawbackInv, NEW i \in 1 .. Len(log), Nullifier(log[i]) \notin nullifiers
  PROVE  Accepts(SignalsOf(FullUnshield(log[i]), LiveView(frozen))) <=> behind = ToSet(frozen)
<1> DEFINE n == log[i]
           w == FullUnshield(n)
           v == LiveView(frozen)
           s == SignalsOf(w, v)
<1>1. w.kind = "unshield" /\ w.anchor = log /\ w.ins = <<n>>
  BY DEF FullUnshield, UnshieldWitness
<1>2. v.frozen = frozen /\ v.frontier = tree.frontier /\ v.nextIndex = tree.leafCount
  BY LiveViewDef
<1> HIDE DEF w, v
<1>3. /\ s.w = w
      /\ s.nullifiers = [k \in DOMAIN w.ins |-> Nullifier(w.ins[k])]
      /\ s.anchorRoot = Replay([k \in DOMAIN w.anchor |-> LeafOf(w.anchor[k])]).root
      /\ s.frozenRoot = FrozenRootOf(v.frozen)
      /\ s.oldFrontier = v.frontier
      /\ s.nextIndex = v.nextIndex
  BY DEF SignalsOf
<1> HIDE DEF s
<1>4. s.anchorRoot = tree.root
  <2>1. LeavesOf(log) = [k \in DOMAIN log |-> LeafOf(log[k])]
    BY DEF LeavesOf
  <2> QED BY <1>1, <1>3, <2>1 DEF ClawbackInv, TreeInv
<1>5. IsRecentRoot(tree, s.anchorRoot)
  BY <1>4 DEF ClawbackInv, TreeInv, RingOf
<1>6. \A k \in DOMAIN s.nullifiers : s.nullifiers[k] \notin nullifiers \cup {s.nullifiers[j] : j \in 1 .. k - 1}
  <2>1. DOMAIN s.nullifiers = {1} /\ s.nullifiers[1] = Nullifier(n)
    BY <1>1, <1>3
  <2> QED BY <2>1
<1>7. Accepts(s) <=> s.frozenRoot = frozenRoot
  BY <1>1, <1>2, <1>3, <1>5, <1>6 DEF Accepts, CheckOldFrontier, CheckNextIndex
<1>8. Accepts(s) <=> behind = ToSet(frozen)
  BY <1>2, <1>3, <1>7, BehindAll
<1> QED BY <1>8 DEF s, w, v, n

LEMMA HonestAcceptedHere == ClawbackInv => HonestAccepted
<1> SUFFICES ASSUME ClawbackInv, Quiet, NEW i \in {j \in Unspent : NumberOf(log[j]) \notin ToSet(frozen)},
                    Provable(FullUnshield(log[i]), Abstracted(FullUnshield(log[i]), LiveView(frozen)))
             PROVE  /\ WitnessOk(SignalsOf(FullUnshield(log[i]), LiveView(frozen)))
                    /\ Accepts(SignalsOf(FullUnshield(log[i]), LiveView(frozen))) <=> behind = ToSet(frozen)
  BY DEF HonestAccepted
<1>1. i \in 1 .. Len(log) /\ Nullifier(log[i]) \notin nullifiers
  BY LenProperties DEF Unspent, ClawbackInv, LogInv
<1>2. log[i].value \in Nat /\ log[i].owner \in Owners
  BY <1>1, LogNote DEF ClawbackInv
<1>3. SeenInv(frozen)
  BY DEF ClawbackInv, FrozenInv, SeenInv
<1>4. WitnessOk(SignalsOf(FullUnshield(log[i]), LiveView(frozen)))
        <=> Provable(FullUnshield(log[i]), Abstracted(FullUnshield(log[i]), LiveView(frozen)))
  <2>1. WitnessInv(UnshieldWitness(log, log[i], log[i].value, log[i].owner, << >>))
    BY <1>1, <1>2 DEF WitnessInv
  <2> QED BY <1>3, <2>1, WitnessExact DEF FullUnshield
<1> QED BY <1>1, <1>4, WithdrawalAccepted

\* An unfrozen note that its owner may withdraw can be withdrawn, and the contract
\* accepts it exactly when the stored frozen root lost no freeze (lib.rs
\* set_frozen_root, freeze.ts computeFreeze).
THEOREM HonestAlwaysAccepted == Spec => []HonestAccepted
BY ClawbackInvariant, HonestAcceptedHere, PTL
=============================================================================
