---------------------------- MODULE WalletSafety ----------------------------
(***************************************************************************)
(* What the wallet promises, for every request, seed and reading of the     *)
(* chain: the invariant WalletInv is inductive, and the wallet implements   *)
(* the purse.                                                               *)
(*                                                                          *)
(* First the numbers, the filters over openings and the types; then what a  *)
(* transaction the wallet builds looks like (Built), which is all the later *)
(* parts know of the circuits; then every action is brought under one of    *)
(* nine headings (WalletSteps), and the invariant is proved heading by      *)
(* heading.                                                                 *)
(***************************************************************************)
EXTENDS WalletProperties, NoteLemmas

----------------------------------------------------------------------------
(* Numbers and finite sets.                                                 *)

LEMMA SmallestNumber ==
  ASSUME NEW S \in SUBSET Nat, S # {}
  PROVE  \E n \in S : \A m \in S : n <= m
<1>1. PICK n \in S : \A m \in S : <<m, n>> \notin OpToRel(<, Nat)
  BY NatLessThanWellFounded, WFMin
<1>2. ASSUME NEW m \in S PROVE n <= m
  <2>1. ~(m < n)
    BY <1>1 DEF OpToRel
  <2> QED BY <2>1
<1> QED BY <1>2

LEMMA MinIsElement ==
  ASSUME NEW S \in SUBSET Nat, S # {}
  PROVE  Min(S) \in S
BY SmallestNumber DEF Min

\* A finite set leaves two of the first numbers out.
LEMMA TwoLeft ==
  ASSUME NEW U, IsFiniteSet(U), NEW x
  PROVE  {r \in 0 .. Cardinality(U) + 1 : r \notin U} \ {x} # {}
<1> DEFINE c == Cardinality(U)
           all == 0 .. c + 1
<1>1. c \in Nat
  BY FS_CardinalityType
<1>2. IsFiniteSet(all) /\ Cardinality(all) = c + 2
  BY <1>1, FS_Interval
<1>3. ASSUME all \subseteq U \cup {x} PROVE FALSE
  <2>1. /\ IsFiniteSet(U \cup {x})
        /\ Cardinality(U \cup {x}) <= c + 1
    BY <1>1, FS_AddElement
  <2>2. Cardinality(all) <= Cardinality(U \cup {x}) /\ Cardinality(U \cup {x}) \in Nat
    <3> HIDE DEF all
    <3> QED BY <1>3, <2>1, FS_Subset, FS_CardinalityType
  <2> QED BY <1>1, <1>2, <2>1, <2>2
<1> QED BY <1>3

LEMMA RhosFinite ==
  ASSUME NEW S \in SUBSET Note, IsFiniteSet(S)
  PROVE  {n.rho : n \in S} \subseteq Nat /\ IsFiniteSet({n.rho : n \in S})
<1> DEFINE g == [n \in S |-> n.rho]
<1>0. \A n \in S : n.rho \in Nat
  BY DEF Note
<1>1. g \in Surjection(S, Range(g))
  <2>1. g \in [S -> Nat]
    BY <1>0
  <2> QED BY <2>1, Fun_RangeProperties
<1>2. Range(g) = {n.rho : n \in S}
  BY DEF Range
<1> QED BY <1>0, <1>1, <1>2, FS_Surjection

----------------------------------------------------------------------------
(* Filtering a sequence.                                                   *)

\* f gives the filtered prefixes of s up to length n.
Filters(f, s, T, n) ==
  f = [i \in 0 .. n |->
         IF i = 0 THEN << >>
         ELSE IF s[i] \in T THEN Append(f[i - 1], s[i]) ELSE f[i - 1]]

LEMMA FiltersExist ==
  ASSUME NEW s, NEW T, NEW n \in Nat
  PROVE  \E f : Filters(f, s, T, n)
<1> DEFINE Bad == {k \in Nat : ~ \E f : Filters(f, s, T, k)}
<1>1. SUFFICES ASSUME Bad # {} PROVE FALSE
  OBVIOUS
<1>2. PICK k \in Bad : \A m \in Bad : k <= m
  <2>1. Bad \in SUBSET Nat
    OBVIOUS
  <2> HIDE DEF Bad
  <2> QED BY <1>1, <2>1, SmallestNumber
<1>3. k \in Nat /\ ~ \E f : Filters(f, s, T, k)
  OBVIOUS
<1>4. k # 0
  <2>1. Filters([i \in 0 .. 0 |-> << >>], s, T, 0)
    BY DEF Filters
  <2> QED BY <1>3, <2>1
<1>5. k - 1 \in Nat /\ k - 1 \notin Bad
  BY <1>2, <1>3, <1>4
<1>6. PICK f : Filters(f, s, T, k - 1)
  BY <1>5
<1> DEFINE last == IF s[k] \in T THEN Append(f[k - 1], s[k]) ELSE f[k - 1]
           g == [i \in 0 .. k |-> IF i = k THEN last ELSE f[i]]
<1>7. ASSUME NEW i \in 0 .. k
      PROVE  g[i] = IF i = 0 THEN << >> ELSE IF s[i] \in T THEN Append(g[i - 1], s[i]) ELSE g[i - 1]
  <2>1. CASE i = k
    <3>1. k - 1 \in 0 .. k /\ k - 1 # k
      BY <1>3, <1>4
    <3>2. g[i - 1] = f[k - 1] /\ g[i] = last
      BY <2>1, <3>1
    <3> QED BY <1>4, <2>1, <3>2
  <2>2. CASE i # k
    <3>1. i \in 0 .. k - 1 /\ (i # 0 => i - 1 \in 0 .. k /\ i - 1 # k)
      BY <1>3, <2>2
    <3>2. f[i] = IF i = 0 THEN << >> ELSE IF s[i] \in T THEN Append(f[i - 1], s[i]) ELSE f[i - 1]
      BY <1>6, <3>1 DEF Filters
    <3>3. g[i] = f[i] /\ (i # 0 => g[i - 1] = f[i - 1])
      BY <2>2, <3>1
    <3> QED BY <3>2, <3>3
  <2> QED BY <2>1, <2>2
<1>8. Filters(g, s, T, k)
  <2>1. g = [i \in 0 .. k |-> g[i]]
    OBVIOUS
  <2> HIDE DEF g
  <2> QED BY <1>7, <2>1 DEF Filters
<1> QED BY <1>3, <1>8

Distinct(s) == \A i, j \in 1 .. Len(s) : s[i] = s[j] => i = j

\* A filtered prefix holds elements of the prefix that pass, each as often as it
\* stands there.
FilteredPrefix(r, s, T, S, i) ==
  /\ r \in Seq(S)
  /\ \A k \in 1 .. Len(r) : r[k] \in T /\ \E j \in 1 .. i : r[k] = s[j]
  /\ Distinct(s) => Distinct(r)

LEMMA FilterProperties ==
  ASSUME NEW S, NEW s \in Seq(S), NEW T
  PROVE  FilteredPrefix(Filter(s, T), s, T, S, Len(s))
<1>1. Len(s) \in Nat
  BY LenProperties
<1> DEFINE n == Len(s)
           F == CHOOSE f : Filters(f, s, T, n)
<1>2. Filters(F, s, T, n)
  BY <1>1, FiltersExist
<1>3. Filter(s, T) = F[n]
  BY DEF Filter, Filters
<1> HIDE DEF F
<1> DEFINE Bad == {i \in 0 .. n : ~FilteredPrefix(F[i], s, T, S, i)}
<1>4. SUFFICES ASSUME Bad # {} PROVE FALSE
  <2>1. n \in 0 .. n
    BY <1>1
  <2>2. Bad = {} => FilteredPrefix(F[n], s, T, S, n)
    BY <2>1
  <2> QED BY <1>3, <2>2
<1>5. PICK i \in Bad : \A m \in Bad : i <= m
  <2>1. Bad \in SUBSET Nat
    BY <1>1
  <2> HIDE DEF Bad
  <2> QED BY <1>4, <2>1, SmallestNumber
<1>6. i \in 0 .. n /\ ~FilteredPrefix(F[i], s, T, S, i)
  OBVIOUS
<1>7. F[i] = IF i = 0 THEN << >> ELSE IF s[i] \in T THEN Append(F[i - 1], s[i]) ELSE F[i - 1]
  BY <1>2, <1>6 DEF Filters
<1>8. i # 0
  BY <1>6, <1>7 DEF FilteredPrefix, Distinct
<1>9. i - 1 \in 0 .. n /\ i - 1 \notin Bad
  BY <1>1, <1>5, <1>6, <1>8
<1> DEFINE r == F[i - 1]
<1>10. FilteredPrefix(r, s, T, S, i - 1)
  BY <1>9
<1>11. /\ r \in Seq(S) /\ Len(r) \in Nat
       /\ \A k \in 1 .. Len(r) : r[k] \in T /\ \E j \in 1 .. i - 1 : r[k] = s[j]
       /\ Distinct(s) => Distinct(r)
  BY <1>10, LenProperties DEF FilteredPrefix
<1>12. i \in 1 .. n /\ \A j \in 1 .. i - 1 : j \in 1 .. i /\ j # i /\ j \in 1 .. n
  BY <1>1, <1>6, <1>8
<1> HIDE DEF r
<1>13. CASE s[i] \notin T
  BY <1>6, <1>7, <1>8, <1>11, <1>12, <1>13 DEF FilteredPrefix, r
<1>14. CASE s[i] \in T
  <2> DEFINE q == Append(r, s[i])
  <2>1. F[i] = q
    BY <1>7, <1>8, <1>14 DEF r
  <2>2. s[i] \in S
    BY <1>12, ElementOfSeq
  <2>3. /\ q \in Seq(S) /\ Len(q) = Len(r) + 1 /\ q[Len(r) + 1] = s[i]
        /\ \A k \in 1 .. Len(r) : q[k] = r[k]
    BY <1>11, <2>2, AppendProperties
  <2> HIDE DEF q
  <2>4. \A k \in 1 .. Len(q) : k \in 1 .. Len(r) \/ k = Len(r) + 1
    BY <1>11, <2>3
  <2>5. ASSUME NEW k \in 1 .. Len(q) PROVE q[k] \in T /\ \E j \in 1 .. i : q[k] = s[j]
    BY <1>11, <1>12, <1>14, <2>3, <2>4
  <2>6. ASSUME Distinct(s), NEW k \in 1 .. Len(q), NEW m \in 1 .. Len(q), q[k] = q[m] PROVE k = m
    <3>1. ASSUME NEW l \in 1 .. Len(r) PROVE q[l] # s[i]
      BY <1>11, <1>12, <2>3, <2>6 DEF Distinct
    <3> QED BY <1>11, <2>3, <2>4, <2>6, <3>1 DEF Distinct
  <2> QED BY <1>6, <2>1, <2>3, <2>5, <2>6 DEF FilteredPrefix, Distinct
<1> QED BY <1>13, <1>14

----------------------------------------------------------------------------
(* The shape of the state: TypeOK, with the types of what the tab holds and  *)
(* of what it sent, and that the sets new notes avoid are finite.            *)

Leaf == [asset : Assets, limit : Nat]

PublicInput ==
  [kyc : SUBSET Owners, sanction : SUBSET Owners, assets : SUBSET Leaf,
   frozen : SUBSET Note, frontier : Leaves, nextIndex : Nat]

Transaction ==
  [kind : {"shield", "transfer", "unshield"}, anchor : Leaves, nullifiers : Seq(Nullifiers),
   outputs : Leaves, newRoot : Leaves, amount : Nat, recipient : Owners \cup {<< >>},
   pub : PublicInput]

Operation ==
  [pc : {"idle", "tree", "notes", "frozen", "reads", "submit", "poll"}, amount : Nat,
   kind : {"none", "shield", "transfer", "unshield"}, shields : 0 .. 2, prepared : BOOLEAN,
   view : Leaves, picked : Leaves, frontier : Seq(Leaves), leafCount : Seq(Nat),
   keep : Seq(Opening), tx : Seq(Transaction),
   status : {"none", "pending", "success", "failed", "expired"}]

ChainTyped ==
  /\ tree \in TreeState
  /\ log \in Leaves
  /\ nullifiers \subseteq Nullifiers
  /\ frozen \in Leaves
  /\ {paidOut, pulled} \subseteq Nat
  /\ returned \subseteq Note

NetTyped ==
  /\ source \in Sources
  /\ {indexed, aged} \subseteq [leaves : Nat, freezes : Nat]
  /\ indexed.leaves <= Len(log) /\ indexed.freezes <= Len(frozen)
  /\ {others, faults} \subseteq Nat
  /\ orphans \subseteq Transaction /\ IsFiniteSet(orphans)

StoreTyped ==
  /\ store \subseteq Opening
  /\ abandoned \subseteq Opening /\ IsFiniteSet(abandoned)
  /\ screen.result \in {"none", "ok", "error"}

OpTyped ==
  /\ op \in Operation
  /\ Len(op.tx) <= 1
  /\ op.status # "none" => op.pc = "poll"
  /\ op.pc \in {"submit", "poll"} <=> op.tx # << >>

Shape == ChainTyped /\ NetTyped /\ StoreTyped /\ OpTyped

LEMMA ShapeTypes == Shape => TypeOK
BY DEF Shape, ChainTyped, NetTyped, StoreTyped, OpTyped, TypeOK, Operation

LEMMA Constants ==
  /\ {Me, Bank, Other} \subseteq Owners
  /\ Me # Bank /\ Me # Other /\ Bank # Other
  /\ Token \in Assets /\ 1 \in Value /\ LIMIT \in Nat
  /\ Seeds \in Leaves /\ Len(Seeds) \in Nat
  /\ \A r \in Requests : r.amount \in Nat /\ r.kind \in {"shield", "transfer", "unshield"}
<1>1. Me # Bank /\ Me # Other /\ Bank # Other
  <2>1. /\ Cardinality({Me, Bank, Other}) = 3
        /\ IsFiniteSet({Me}) /\ Cardinality({Me}) = 1
    BY WalletAssumption, FS_Singleton
  <2>2. \A x : Cardinality({Me, x}) <= 2 /\ IsFiniteSet({Me, x})
    <3>1. \A x : {Me, x} = {Me} \cup {x}
      OBVIOUS
    <3> QED BY <2>1, <3>1, FS_AddElement
  <2>3. Me = Bank => {Me, Bank, Other} = {Me, Other}
    OBVIOUS
  <2>4. Me = Other \/ Bank = Other => {Me, Bank, Other} = {Me, Bank}
    OBVIOUS
  <2> QED BY <2>1, <2>2, <2>3, <2>4
<1> QED BY <1>1, WalletAssumption, LenProperties DEF Request, Leaves

\* The operation holds one transaction or none.
LEMMA OneTransaction ==
  ASSUME OpTyped
  PROVE  /\ op.tx = << >> => ToSet(op.tx) = {}
         /\ op.tx # << >> => /\ op.tx = <<op.tx[1]>>
                             /\ op.tx[1] \in Transaction
                             /\ ToSet(op.tx) = {op.tx[1]}
         /\ ToSet(op.tx) \subseteq Transaction /\ IsFiniteSet(ToSet(op.tx))
         /\ ToSet(op.keep) \subseteq Opening /\ IsFiniteSet(ToSet(op.keep))
<1>1. op.tx \in Seq(Transaction) /\ op.keep \in Seq(Opening) /\ Len(op.tx) <= 1
  BY DEF OpTyped, Operation
<1>2. /\ ToSet(op.tx) \subseteq Transaction /\ IsFiniteSet(ToSet(op.tx))
      /\ ToSet(op.keep) \subseteq Opening /\ IsFiniteSet(ToSet(op.keep))
  BY <1>1, ElementsFinite
<1>3. op.tx = << >> => ToSet(op.tx) = {}
  BY DEF ToSet
<1>4. ASSUME op.tx # << >>
      PROVE  op.tx = <<op.tx[1]>> /\ op.tx[1] \in Transaction /\ ToSet(op.tx) = {op.tx[1]}
  <2>1. Len(op.tx) = 1 /\ DOMAIN op.tx = 1 .. 1
    <3>1. Len(op.tx) # 0
      BY <1>1, <1>4, EmptySeq
    <3>2. Len(op.tx) \in Nat /\ DOMAIN op.tx = 1 .. Len(op.tx)
      BY <1>1, LenProperties
    <3>3. PICK k \in Nat : k = Len(op.tx)
      BY <3>2
    <3>4. k # 0 /\ k <= 1
      BY <1>1, <3>1, <3>3
    <3>5. k = 1
      BY <3>4
    <3> QED BY <3>2, <3>3, <3>5
  <2>2. op.tx[1] \in Transaction
    BY <1>1, <2>1, ElementOfSeq
  <2>3. <<op.tx[1]>> \in Seq(Transaction) /\ Len(<<op.tx[1]>>) = 1
    BY <2>2
  <2>4. op.tx = <<op.tx[1]>>
    BY <1>1, <2>1, <2>3, SeqEqual
  <2>5. ToSet(op.tx) = {op.tx[1]}
    BY <2>1 DEF ToSet
  <2> QED BY <2>2, <2>4, <2>5
<1> QED BY <1>2, <1>3, <1>4

----------------------------------------------------------------------------
(* New notes.                                                              *)

LEMMA SampledFinite ==
  ASSUME Shape
  PROVE  Sampled \subseteq Note /\ IsFiniteSet(Sampled)
<1>1. ToSet(log) \subseteq Note /\ IsFiniteSet(ToSet(log))
  BY ElementsFinite DEF Shape, ChainTyped, Leaves
<1>2. {l.note : l \in abandoned} \subseteq Note /\ IsFiniteSet({l.note : l \in abandoned})
  <2> DEFINE g == [l \in abandoned |-> l.note]
  <2>0. abandoned \subseteq Opening /\ IsFiniteSet(abandoned)
    BY DEF Shape, StoreTyped
  <2>1. g \in [abandoned -> Note]
    BY <2>0 DEF Opening
  <2>2. Range(g) = {l.note : l \in abandoned}
    BY DEF Range
  <2>3. g \in Surjection(abandoned, Range(g))
    BY <2>1, Fun_RangeProperties
  <2> QED BY <2>0, <2>1, <2>2, <2>3, FS_Surjection DEF Opening
<1> DEFINE sent == orphans \cup ToSet(op.tx)
           g == [pi \in sent |-> ToSet(pi.outputs)]
<1>3. sent \subseteq Transaction /\ IsFiniteSet(sent)
  BY OneTransaction, FS_Union DEF Shape, NetTyped
<1>4. \A pi \in sent : ToSet(pi.outputs) \subseteq Note /\ IsFiniteSet(ToSet(pi.outputs))
  BY <1>3, ElementsFinite DEF Transaction, Leaves
<1>5. IsFiniteSet({ToSet(pi.outputs) : pi \in sent})
  <2>1. g \in [sent -> SUBSET Note]
    BY <1>4
  <2>2. Range(g) = {ToSet(pi.outputs) : pi \in sent}
    BY DEF Range
  <2>3. g \in Surjection(sent, Range(g))
    <3> HIDE DEF g, sent
    <3> QED BY <2>1, Fun_RangeProperties
  <2>4. IsFiniteSet(Range(g))
    <3> HIDE DEF g, sent
    <3> QED BY <1>3, <2>3, FS_Surjection
  <2> QED BY <2>2, <2>4
<1>6. /\ IsFiniteSet(UNION {ToSet(pi.outputs) : pi \in sent})
      /\ UNION {ToSet(pi.outputs) : pi \in sent} \subseteq Note
  BY <1>4, <1>5, FS_UNION
<1> HIDE DEF sent
<1>7. Sampled = (ToSet(log) \cup {l.note : l \in abandoned}) \cup UNION {ToSet(pi.outputs) : pi \in sent}
  BY DEF Sampled, sent
<1> QED BY <1>1, <1>2, <1>6, <1>7, FS_Union

\* A new note has a rho that no sampled note has, and the two of one transaction
\* have different ones.
LEMMA NewNote ==
  ASSUME Shape, NEW v, NEW o, NEW k \in {1, 2}
  PROVE  LET n == FreshNote(v, o, k)
         IN  /\ n = [asset |-> Token, value |-> v, owner |-> o, rho |-> n.rho]
             /\ n.rho \in Nat
             /\ \A m \in Sampled : m.rho # n.rho
             /\ v \in Value /\ o \in Owners => n \in Note
             /\ \A w, p : FreshNote(w, p, 1).rho # FreshNote(v, o, 2).rho
<1> DEFINE used == {n.rho : n \in Sampled}
           unused == {r \in 0 .. Cardinality(used) + 1 : r \notin used}
           first == Min(unused)
           second == Min(unused \ {first})
<1>1. used \subseteq Nat /\ IsFiniteSet(used)
  BY SampledFinite, RhosFinite
<1>2. Cardinality(used) \in Nat
  BY <1>1, FS_CardinalityType
<1>3. unused \in SUBSET Nat /\ unused # {} /\ unused \ {first} # {}
  <2>1. \A x : unused \ {x} # {}
    <3> HIDE DEF used
    <3> QED BY <1>1, TwoLeft
  <2>2. unused \in SUBSET Nat
    BY <1>2
  <2> HIDE DEF unused
  <2> QED BY <2>1, <2>2
<1>4. /\ first \in Nat \ used /\ second \in Nat \ used
      /\ first # second
  <2>1. first \in unused /\ second \in unused \ {first}
    <3> HIDE DEF unused
    <3> QED BY <1>3, MinIsElement
  <2> QED BY <1>3, <2>1
<1>5. \A w, p, j : FreshNote(w, p, j) = [asset |-> Token, value |-> w, owner |-> p,
                                      rho |-> IF j = 1 THEN first ELSE second]
  BY DEF FreshNote
<1> HIDE DEF first, second
<1>6. \A m \in Sampled : m.rho \in used
  OBVIOUS
<1> QED BY <1>4, <1>5, <1>6, Constants DEF Note

----------------------------------------------------------------------------
(* What the wallet reads and picks.                                        *)

LEMMA PrefixTyped ==
  ASSUME NEW s \in Leaves, NEW m \in Nat, m <= Len(s)
  PROVE  SubSeq(s, 1, m) \in Leaves
<1>1. \A i \in 1 .. m : s[i] \in Note
  BY LenProperties, ElementOfSeq DEF Leaves
<1> QED BY <1>1, SubSeqProperties DEF Leaves

LEMMA SuffixTyped ==
  ASSUME NEW s \in Leaves, NEW m \in Nat
  PROVE  SubSeq(s, m + 1, Len(s)) \in Leaves
<1>1. Len(s) \in Nat /\ \A i \in 1 .. Len(s) : s[i] \in Note
  BY LenProperties, ElementOfSeq DEF Leaves
<1>2. \A i \in m + 1 .. Len(s) : s[i] \in Note
  BY <1>1
<1> QED BY <1>1, <1>2, SubSeqProperties DEF Leaves

LEMMA ViewsTyped ==
  ASSUME Shape
  PROVE  ChainView \in Leaves /\ FrozenView \in Leaves
<1>1. /\ log \in Leaves /\ frozen \in Leaves /\ Len(log) \in Nat /\ Len(frozen) \in Nat
      /\ indexed.leaves \in Nat /\ indexed.freezes \in Nat
      /\ aged.leaves \in Nat /\ aged.freezes \in Nat
      /\ indexed.leaves <= Len(log) /\ indexed.freezes <= Len(frozen)
  BY LenProperties DEF Shape, ChainTyped, NetTyped, Leaves
<1>2. FrozenView \in Leaves
  BY <1>1, PrefixTyped, SuffixTyped DEF FrozenView
<1>3. SubSeq(log, 1, Min({indexed.leaves, LEAVES_LIMIT})) \in Leaves
  <2> DEFINE m == Min({indexed.leaves, LEAVES_LIMIT})
  <2>1. LEAVES_LIMIT \in Nat
    BY WalletAssumption
  <2>2. {indexed.leaves, LEAVES_LIMIT} \in SUBSET Nat
    BY <1>1, <2>1
  <2>3. m \in {indexed.leaves, LEAVES_LIMIT} /\ m <= indexed.leaves
    BY <2>2, SmallestNumber DEF Min
  <2>4. m \in Nat
    BY <2>2, <2>3
  <2> HIDE DEF m
  <2>5. m <= Len(log)
    BY <1>1, <2>3, <2>4
  <2> QED BY <1>1, <2>4, <2>5, PrefixTyped DEF m
<1>4. Bridge(FetchLiveCommitments) \in Leaves
  <2> DEFINE events == FetchLiveCommitments
  <2>1. events \in Leaves
    BY <1>1, SuffixTyped DEF FetchLiveCommitments
  <2> HIDE DEF events
  <2>2. CASE events # << >> /\ events[1] \in ToSet(Seeds)
    <3> DEFINE p == CHOOSE p \in DOMAIN Seeds : Seeds[p] = events[1]
    <3>1. p \in DOMAIN Seeds
      BY <2>2 DEF ToSet
    <3>2. DOMAIN Seeds = 1 .. Len(Seeds)
      BY Constants, LenProperties DEF Leaves
    <3> HIDE DEF p
    <3>3. p - 1 \in Nat /\ p - 1 <= Len(Seeds)
      BY <3>1, <3>2, Constants
    <3>4. SubSeq(Seeds, 1, p - 1) \in Leaves
      BY <3>3, Constants, PrefixTyped
    <3>5. SubSeq(Seeds, 1, p - 1) \o events \in Leaves
      BY <2>1, <3>4, ConcatProperties DEF Leaves
    <3> QED BY <2>2, <3>5 DEF Bridge, p, events
  <2>3. CASE ~(events # << >> /\ events[1] \in ToSet(Seeds))
    BY <2>1, <2>3 DEF Bridge, events
  <2> QED BY <2>2, <2>3
<1> QED BY <1>2, <1>3, <1>4 DEF ChainView

----------------------------------------------------------------------------
\* The openings the wallet knows, its seeds included.
KnownOpenings ==
  {l \in {[leafIndex |-> i - 1, note |-> Seeds[i]] : i \in DOMAIN Seeds} \cup store :
     l.note.owner = Me}

\* allLiveNotes is a sequence of notes, each the opening known at one of different
\* leaf indices.
LEMMA LiveNotes ==
  ASSUME Shape
  PROVE  /\ AllLiveNotes \in Seq(Note)
         /\ \E at \in Seq(Nat) :
              /\ Len(at) = Len(AllLiveNotes) /\ Distinct(at)
              /\ \A k \in 1 .. Len(at) :
                   \E l \in KnownOpenings : l.leafIndex = at[k] /\ l.note = AllLiveNotes[k]
<1> DEFINE all == {l.leafIndex : l \in KnownOpenings}
           slots == [i \in 1 .. TREE_CAPACITY |-> i - 1]
           at == Filter(slots, all)
<1>1. KnownOpenings \subseteq Opening
  <2>1. store \subseteq Opening
    BY DEF Shape, StoreTyped
  <2>2. \A i \in DOMAIN Seeds : [leafIndex |-> i - 1, note |-> Seeds[i]] \in Opening
    <3>1. DOMAIN Seeds = 1 .. Len(Seeds) /\ \A i \in 1 .. Len(Seeds) : Seeds[i] \in Note
      BY Constants, LenProperties, ElementOfSeq DEF Leaves
    <3>2. \A i \in DOMAIN Seeds : i - 1 \in Nat
      BY <3>1, Constants
    <3> QED BY <3>1, <3>2 DEF Opening
  <2> QED BY <2>1, <2>2 DEF KnownOpenings
<1>2. slots \in Seq(Nat) /\ Distinct(slots)
  <2>1. \A i \in 1 .. TREE_CAPACITY : i - 1 \in Nat
    BY TreeAssumption
  <2>2. slots \in [1 .. TREE_CAPACITY -> Nat]
    BY <2>1
  <2>3. slots \in Seq(Nat) /\ Len(slots) = TREE_CAPACITY
    <3> HIDE DEF slots
    <3> QED BY <2>2, TreeAssumption, SeqDef, LenProperties
  <2>4. \A i, j \in 1 .. TREE_CAPACITY : slots[i] = slots[j] => i = j
    BY TreeAssumption
  <2> HIDE DEF slots
  <2> QED BY <2>3, <2>4 DEF Distinct
<1>3. FilteredPrefix(at, slots, all, Nat, Len(slots))
  <2> HIDE DEF slots, all
  <2> QED BY <1>2, FilterProperties
<1>4. at \in Seq(Nat) /\ Distinct(at) /\ \A k \in 1 .. Len(at) : at[k] \in all
  <2> HIDE DEF slots, all, at
  <2> QED BY <1>2, <1>3 DEF FilteredPrefix
<1>5. DOMAIN at = 1 .. Len(at) /\ Len(at) \in Nat
  <2> HIDE DEF at
  <2> QED BY <1>4, LenProperties
<1> DEFINE known(k) == CHOOSE l \in KnownOpenings : l.leafIndex = at[k]
<1>6. AllLiveNotes = [k \in DOMAIN at |-> known(k).note]
  BY DEF AllLiveNotes, KnownOpenings
<1> HIDE DEF at
<1>7. \A k \in 1 .. Len(at) : known(k) \in KnownOpenings /\ known(k).leafIndex = at[k]
  BY <1>4
<1> HIDE DEF known
<1>8. AllLiveNotes \in [1 .. Len(at) -> Note]
  BY <1>1, <1>5, <1>6, <1>7 DEF Opening
<1>9. AllLiveNotes \in Seq(Note) /\ Len(AllLiveNotes) = Len(at)
  BY <1>5, <1>8, SeqDef, LenProperties
<1> QED BY <1>4, <1>5, <1>6, <1>7, <1>9

LEMMA SpendableTyped ==
  ASSUME Shape, NEW view
  PROVE  SpendableNotes(view) \in Seq(Note) /\ Len(SpendableNotes(view)) \in Nat
<1> DEFINE T == {n \in ToSet(view) : ~IsNullifierUsed(Nullifier(n))}
<1>1. FilteredPrefix(Filter(AllLiveNotes, T), AllLiveNotes, T, Note, Len(AllLiveNotes))
  <2> HIDE DEF T
  <2> QED BY LiveNotes, FilterProperties
<1> QED BY <1>1, LenProperties DEF FilteredPrefix, SpendableNotes

\* TwoHighest takes two different positions.
LEMMA TwoPositions ==
  ASSUME NEW notes \in Seq(Note), Len(notes) \in Nat, Len(notes) >= 2
  PROVE  \E i, j \in 1 .. Len(notes) : i # j /\ TwoHighest(notes) = <<notes[i], notes[j]>>
<1> DEFINE n == Len(notes)
           highest(I) == CHOOSE i \in I : \A j \in I \ {i} :
                            \/ notes[i].value > notes[j].value
                            \/ notes[i].value = notes[j].value /\ i < j
<1>1. DOMAIN notes = 1 .. n /\ \A i \in 1 .. n : notes[i].value \in Nat /\ notes[i].value <= MAX_VALUE
  <2>1. DOMAIN notes = 1 .. n /\ \A i \in 1 .. n : notes[i] \in Note
    BY LenProperties, ElementOfSeq
  <2>2. \A v \in Value : v \in Nat /\ v <= MAX_VALUE
    BY NotesAssumption DEF Value
  <2>3. \A m \in Note : m.value \in Value
    BY DEF Note
  <2> QED BY <2>1, <2>2, <2>3
<1>2. ASSUME NEW I \in SUBSET (1 .. n), I # {}
      PROVE  highest(I) \in I
  <2> DEFINE missing == {MAX_VALUE - notes[i].value : i \in I}
  <2>1. missing \in SUBSET Nat /\ missing # {}
    <3>1. \A i \in I : MAX_VALUE - notes[i].value \in Nat
      BY <1>1, NotesAssumption
    <3> QED BY <1>2, <3>1
  <2>2. PICK m \in missing : \A x \in missing : m <= x
    <3> HIDE DEF missing
    <3> QED BY <2>1, SmallestNumber
  <2> DEFINE J == {i \in I : MAX_VALUE - notes[i].value = m}
  <2>3. J \in SUBSET Nat /\ J # {}
    <3>1. J \subseteq I /\ \A i \in I : i \in Nat
      OBVIOUS
    <3>2. \E i \in I : MAX_VALUE - notes[i].value = m
      BY <2>2
    <3> QED BY <3>1, <3>2
  <2>4. PICK i \in J : \A j \in J : i <= j
    <3> HIDE DEF J
    <3> QED BY <2>3, SmallestNumber
  <2>5. ASSUME NEW j \in I \ {i}
        PROVE  \/ notes[i].value > notes[j].value
               \/ notes[i].value = notes[j].value /\ i < j
    <3>1. /\ notes[i].value \in Nat /\ notes[j].value \in Nat
          /\ MAX_VALUE - notes[i].value <= MAX_VALUE - notes[j].value
      BY <1>1, <2>2, <2>4, <2>5
    <3>2. CASE j \in J
      <4>1. notes[i].value = notes[j].value
        BY <3>1, <3>2, <2>4, NotesAssumption
      <4>2. i < j
        BY <2>3, <2>4, <2>5, <3>2
      <4> QED BY <4>1, <4>2
    <3>3. CASE j \notin J
      <4>1. MAX_VALUE - notes[i].value # MAX_VALUE - notes[j].value
        BY <2>4, <2>5, <3>3
      <4> QED BY <3>1, <4>1, NotesAssumption
    <3> QED BY <3>2, <3>3
  <2> QED BY <2>4, <2>5
<1> DEFINE a == highest(DOMAIN notes)
           b == highest(DOMAIN notes \ {a})
<1>3. a \in 1 .. n
  <2>1. DOMAIN notes \in SUBSET (1 .. n) /\ DOMAIN notes # {}
    BY <1>1
  <2> HIDE DEF highest
  <2> QED BY <1>2, <2>1, <1>1
<1>4. b \in DOMAIN notes \ {a}
  <2> HIDE DEF a
  <2>1. DOMAIN notes \ {a} \in SUBSET (1 .. n) /\ DOMAIN notes \ {a} # {}
    BY <1>1
  <2> HIDE DEF highest
  <2> QED BY <1>2, <2>1
<1>5. TwoHighest(notes) = <<notes[a], notes[b]>>
  BY DEF TwoHighest
<1> HIDE DEF a, b
<1> QED BY <1>1, <1>3, <1>4, <1>5

----------------------------------------------------------------------------
(* What the wallet builds.                                                 *)

Amounts == {r.amount : r \in Requests}

\* What the wallet saves when a transaction succeeds.
Keep(pi) ==
  CASE pi.kind = "shield"   -> <<[leafIndex |-> pi.pub.nextIndex, note |-> pi.outputs[1]]>>
    [] pi.kind = "transfer" -> <<[leafIndex |-> pi.pub.nextIndex + 1, note |-> pi.outputs[2]]>>
    [] OTHER                -> << >>

\* A deposit of one requested amount, as one note of the wallet's.
Deposits(pi) ==
  /\ pi.kind = "shield"
  /\ Len(pi.outputs) = 1
  /\ pi.outputs[1].owner = Me
  /\ pi.outputs[1].value = pi.amount
  /\ pi.amount \in Amounts
  /\ pi.nullifiers = << >>

\* A payment of one requested amount to the bank, out of two different notes of the
\* wallet's that are leaves of the anchor; the change is the wallet's.
Pays(pi) ==
  /\ pi.kind = "transfer"
  /\ Len(pi.outputs) = 2
  /\ pi.outputs[1].owner = Bank /\ pi.outputs[1].value \in Amounts
  /\ pi.outputs[2].owner = Me
  /\ pi.outputs[1].rho # pi.outputs[2].rho
  /\ \E a, b \in ToSet(pi.anchor) :
       /\ a # b
       /\ a.owner = Me /\ b.owner = Me
       /\ pi.nullifiers = <<Nullifier(a), Nullifier(b)>>
       /\ a.value + b.value = pi.outputs[1].value + pi.outputs[2].value

\* One requested amount redeemed out of one note of the wallet's, the rest coming
\* back as one note when there is a rest.
Redeems(pi) ==
  /\ pi.kind = "unshield"
  /\ pi.amount \in Amounts
  /\ \E a \in ToSet(pi.anchor) :
       /\ a.owner = Me
       /\ pi.nullifiers = <<Nullifier(a)>>
       /\ \/ pi.outputs = << >> /\ a.value = pi.amount
          \/ /\ Len(pi.outputs) = 1
             /\ pi.outputs[1].owner = Me
             /\ a.value = pi.amount + pi.outputs[1].value

\* A transaction is built on one view of the chain: its root continues the
\* frontier it was built on, and what it spends is anchored there.
Built(pi) ==
  /\ pi.newRoot = FrontierTransition(pi.pub.frontier, pi.pub.nextIndex, pi.outputs)
  /\ pi.kind # "shield" => pi.anchor = pi.pub.frontier
  /\ Deposits(pi) \/ Pays(pi) \/ Redeems(pi)

\* The outputs are new: no sampled note has their rhos.
NewOutputs(pi) == \A n \in ToSet(pi.outputs), m \in Sampled : n.rho # m.rho

\* What a spend was asked for, and the notes picked for it.
Picked ==
  /\ op.pc # "idle" => op.amount \in Amounts
  /\ op.pc = "frozen" =>
       /\ \A i \in DOMAIN op.picked : op.picked[i].owner = Me
       /\ op.kind = "unshield" => Len(op.picked) = 1
       /\ op.kind # "unshield" => Len(op.picked) = 2 /\ op.picked[1] # op.picked[2]

LEMMA PubTyped ==
  ASSUME NEW view \in Leaves, NEW frontier \in Leaves, NEW nextIndex \in Nat
  PROVE  /\ Pub(view, frontier, nextIndex) \in PublicInput
         /\ Pub(view, frontier, nextIndex).frontier = frontier
         /\ Pub(view, frontier, nextIndex).nextIndex = nextIndex
<1>1. ToSet(view) \subseteq Note
  BY ElementsFinite DEF Leaves
<1>2. Registry \subseteq Leaf
  BY Constants DEF Registry, Leaf
<1> QED BY <1>1, <1>2, Constants DEF Pub, PublicInput

LEMMA NullifierTyped ==
  ASSUME NEW n \in Note
  PROVE  Nullifier(n) \in Nullifiers
BY DEF Nullifier, Nullifiers, Note

LEMMA ShieldBuilt ==
  ASSUME Shape, Picked, op.pc = "reads",
         NEW frontier \in Leaves, NEW nextIndex \in Nat, NEW w, NEW pub,
         w = ShieldWitness(FreshNote(op.amount, Me, 1)),
         pub = Pub(<< >>, frontier, nextIndex),
         Provable(w, pub)
  PROVE  LET pi == PublicInputs(w, pub)
         IN  /\ pi \in Transaction /\ Built(pi) /\ NewOutputs(pi)
             /\ <<[leafIndex |-> nextIndex, note |-> w.outs[1]]>> = Keep(pi)
             /\ Keep(pi) \in Seq(Opening)
<1> DEFINE n == FreshNote(op.amount, Me, 1)
           pi == PublicInputs(w, pub)
<1>0. << >> \in Leaves
  BY DEF Leaves
<1>1. pub \in PublicInput /\ pub.frontier = frontier /\ pub.nextIndex = nextIndex
  BY <1>0, PubTyped
<1>2. n.value \in Value /\ n.value = op.amount /\ n.owner = Me
  <2>1. n.value = op.amount /\ n.owner = Me
    BY DEF FreshNote
  <2>2. ShieldStatement(n, pub)
    BY DEF Provable, ShieldWitness
  <2> QED BY <2>1, <2>2 DEF ShieldStatement
<1>3. /\ n \in Note
      /\ \A m \in Sampled : m.rho # n.rho
  BY <1>2, NewNote, Constants
<1>4. op.amount \in Nat /\ op.amount \in Amounts
  BY DEF Shape, OpTyped, Operation, Picked
<1> HIDE DEF n
<1>5. /\ w.kind = "shield" /\ w.anchor = << >> /\ w.ins = << >> /\ w.outs = <<n>>
      /\ w.amount = op.amount /\ w.recipient = << >>
  BY <1>2 DEF ShieldWitness, n
<1>6. <<n>> \in Leaves /\ Len(<<n>>) = 1 /\ <<n>>[1] = n /\ ToSet(<<n>>) = {n}
  <2>1. DOMAIN <<n>> = 1 .. 1 /\ <<n>>[1] = n
    OBVIOUS
  <2> QED BY <1>3, <2>1 DEF Leaves, ToSet
<1>7. FrontierTransition(frontier, nextIndex, <<n>>) \in Leaves
  BY <1>6, FrontierTransitionAppends
<1>8. /\ pi.kind = "shield" /\ pi.anchor = << >> /\ pi.nullifiers = << >> /\ pi.outputs = <<n>>
      /\ pi.newRoot = FrontierTransition(frontier, nextIndex, <<n>>)
      /\ pi.amount = op.amount /\ pi.recipient = << >> /\ pi.pub = pub
  BY <1>1, <1>5 DEF PublicInputs
<1>9. pi \in Transaction
  <2>1. << >> \in Seq(Nullifiers)
    OBVIOUS
  <2> QED BY <1>0, <1>1, <1>4, <1>5, <1>6, <1>7, <2>1 DEF PublicInputs, Transaction
<1> HIDE DEF pi
<1>10. Built(pi)
  BY <1>1, <1>2, <1>4, <1>6, <1>8 DEF Built, Deposits
<1>11. NewOutputs(pi)
  BY <1>3, <1>6, <1>8 DEF NewOutputs
<1>12. <<[leafIndex |-> nextIndex, note |-> w.outs[1]]>> = Keep(pi)
  BY <1>1, <1>5, <1>6, <1>8 DEF Keep
<1>13. Keep(pi) \in Seq(Opening)
  <2>1. [leafIndex |-> nextIndex, note |-> n] \in Opening
    BY <1>3 DEF Opening
  <2>2. Keep(pi) = <<[leafIndex |-> nextIndex, note |-> n]>>
    BY <1>5, <1>6, <1>12
  <2> QED BY <2>1, <2>2
<1> QED BY <1>9, <1>10, <1>11, <1>12, <1>13 DEF pi

LEMMA ViewSpend ==
  ASSUME NEW view \in Leaves, NEW n, NEW pub, SpendOK(n, view, pub)
  PROVE  n \in Note /\ n \in ToSet(view)
<1>1. PICK i \in DOMAIN view : view[i] = n
  BY DEF SpendOK
<1>2. DOMAIN view = 1 .. Len(view) /\ \A j \in 1 .. Len(view) : view[j] \in Note
  BY LenProperties, ElementOfSeq DEF Leaves
<1> QED BY <1>1, <1>2 DEF ToSet

LEMMA UnshieldBuilt ==
  ASSUME Shape, Picked, op.pc = "frozen", op.kind = "unshield", NEW pub,
         pub = Pub(FrozenView, op.view, Len(op.view)),
         Provable(UnshieldOfPicked, pub)
  PROVE  LET pi == PublicInputs(UnshieldOfPicked, pub)
         IN  /\ pi \in Transaction /\ Built(pi) /\ NewOutputs(pi)
             /\ KeptAfter(UnshieldOfPicked) = Keep(pi)
             /\ Keep(pi) \in Seq(Opening)
<1> DEFINE w == UnshieldOfPicked
           pi == PublicInputs(w, pub)
           in == op.picked[1]
           rest == in.value - op.amount
           out == IF rest = 0 THEN << >> ELSE <<Change(rest, 1)>>
<1>0. op.view \in Leaves /\ Len(op.view) \in Nat /\ op.amount \in Nat /\ op.amount \in Amounts
  BY LenProperties DEF Shape, OpTyped, Operation, Picked, Leaves
<1>1. pub \in PublicInput /\ pub.frontier = op.view /\ pub.nextIndex = Len(op.view)
  BY <1>0, ViewsTyped, PubTyped
<1>2. /\ w.kind = "unshield" /\ w.anchor = op.view /\ w.ins = <<in>> /\ w.outs = out
      /\ w.amount = op.amount /\ w.recipient = Me
  BY DEF UnshieldOfPicked, UnshieldWitness
<1> HIDE DEF w, out
<1>3. UnshieldStatement(op.view, in, op.amount, Me, out, 0, pub)
  BY <1>2 DEF Provable, w
<1>4. in \in Note /\ in \in ToSet(op.view) /\ in.owner = Me
  <2>1. in \in Note /\ in \in ToSet(op.view)
    BY <1>0, <1>3, ViewSpend DEF UnshieldStatement
  <2>2. 1 \in DOMAIN op.picked
    BY LenProperties DEF Shape, OpTyped, Operation, Picked, Leaves
  <2> QED BY <2>1, <2>2 DEF Picked
<1>5. in.value \in Nat
  BY <1>4, NotesAssumption DEF Note, Value
<1>6. /\ out \in Leaves
      /\ \A n \in ToSet(out), m \in Sampled : n.rho # m.rho
      /\ \/ out = << >> /\ in.value = op.amount
         \/ Len(out) = 1 /\ out[1].owner = Me /\ in.value = op.amount + out[1].value
  <2>1. CASE rest = 0
    <3>1. out = << >>
      BY <2>1 DEF out
    <3>2. out \in Leaves /\ ToSet(out) = {} /\ in.value = op.amount
      BY <1>0, <1>5, <2>1, <3>1 DEF Leaves, ToSet
    <3> QED BY <3>1, <3>2
  <2>2. CASE rest # 0
    <3> DEFINE n == Change(rest, 1)
    <3>1. out = <<n>>
      BY <2>2 DEF out
    <3>2. n.owner = Me /\ n.value = rest
      BY DEF Change, FreshNote
    <3>3. DOMAIN out = 1 .. 1 /\ Len(out) = 1 /\ out[1] = n
      BY <3>1
    <3>4. n.value \in Value
      <4>1. \A i \in DOMAIN out : out[i].value \in Value
        BY <1>3 DEF UnshieldStatement
      <4>2. 1 \in DOMAIN out
        BY <3>3
      <4> HIDE DEF n
      <4> QED BY <3>3, <4>1, <4>2
    <3>5. n \in Note /\ \A m \in Sampled : m.rho # n.rho
      BY <3>2, <3>4, NewNote, Constants DEF Change
    <3> HIDE DEF n
    <3>6. out \in Leaves /\ ToSet(out) = {n}
      BY <3>1, <3>3, <3>5 DEF Leaves, ToSet
    <3>7. in.value = op.amount + n.value
      BY <1>0, <1>5, <3>2
    <3> QED BY <3>2, <3>3, <3>5, <3>6, <3>7
  <2> QED BY <2>1, <2>2
<1>7. FrontierTransition(op.view, Len(op.view), out) \in Leaves
  BY <1>0, <1>6, FrontierTransitionAppends
<1>8. /\ pi.kind = "unshield" /\ pi.anchor = op.view /\ pi.outputs = out
      /\ pi.nullifiers = <<Nullifier(in)>>
      /\ pi.newRoot = FrontierTransition(op.view, Len(op.view), out)
      /\ pi.amount = op.amount /\ pi.recipient = Me /\ pi.pub = pub
  <2>1. [i \in DOMAIN <<in>> |-> Nullifier(<<in>>[i])] = <<Nullifier(in)>>
    OBVIOUS
  <2> QED BY <1>1, <1>2, <2>1 DEF PublicInputs
<1>9. pi \in Transaction
  <2>1. <<Nullifier(in)>> \in Seq(Nullifiers)
    BY <1>4, NullifierTyped
  <2>2. pi = [kind |-> "unshield", anchor |-> op.view, nullifiers |-> <<Nullifier(in)>>, outputs |-> out,
              newRoot |-> FrontierTransition(op.view, Len(op.view), out), amount |-> op.amount,
              recipient |-> Me, pub |-> pub]
    BY <1>2, <1>8 DEF PublicInputs
  <2> HIDE DEF pi, in
  <2> QED BY <1>0, <1>1, <1>6, <1>7, <2>1, <2>2, Constants DEF Transaction
<1> HIDE DEF pi
<1>10. Built(pi)
  <2>1. Redeems(pi)
    BY <1>0, <1>4, <1>6, <1>8 DEF Redeems
  <2> QED BY <1>1, <1>8, <2>1 DEF Built
<1>11. NewOutputs(pi)
  BY <1>6, <1>8 DEF NewOutputs
<1>12. KeptAfter(w) = Keep(pi) /\ Keep(pi) \in Seq(Opening)
  BY <1>2, <1>8 DEF KeptAfter, Keep
<1> QED BY <1>9, <1>10, <1>11, <1>12 DEF pi, w

LEMMA TransferBuilt ==
  ASSUME Shape, Picked, op.pc = "frozen", op.kind # "unshield", NEW pub,
         pub = Pub(FrozenView, op.view, Len(op.view)),
         Provable(TransferOfPicked, pub)
  PROVE  LET pi == PublicInputs(TransferOfPicked, pub)
         IN  /\ pi \in Transaction /\ Built(pi) /\ NewOutputs(pi)
             /\ KeptAfter(TransferOfPicked) = Keep(pi)
             /\ Keep(pi) \in Seq(Opening)
<1> DEFINE w == TransferOfPicked
           pi == PublicInputs(w, pub)
           a == op.picked[1]
           b == op.picked[2]
           sum == a.value + b.value
           pay == FreshNote(op.amount, Bank, 1)
           rest == Change(sum - op.amount, 2)
           out == <<pay, rest>>
<1>0. op.view \in Leaves /\ Len(op.view) \in Nat /\ op.amount \in Nat /\ op.amount \in Amounts
  BY LenProperties DEF Shape, OpTyped, Operation, Picked, Leaves
<1>1. pub \in PublicInput /\ pub.frontier = op.view /\ pub.nextIndex = Len(op.view)
  BY <1>0, ViewsTyped, PubTyped
<1>2. /\ w.kind = "transfer" /\ w.anchor = op.view /\ w.ins = <<a, b>> /\ w.outs = out
      /\ w.amount = 0 /\ w.recipient = << >>
  BY DEF TransferOfPicked, TransferWitness
<1>3. /\ pay.owner = Bank /\ pay.value = op.amount
      /\ rest.owner = Me
  BY DEF Change, FreshNote
<1> HIDE DEF w, pay, rest
<1>4. /\ TransferInputs(op.view, a, b, pub)
      /\ TransferOutputs(a, b, pay, rest, 0, pub)
  BY <1>2 DEF Provable, w
<1>5. /\ a \in Note /\ a \in ToSet(op.view) /\ a.owner = Me
      /\ b \in Note /\ b \in ToSet(op.view) /\ b.owner = Me
      /\ a # b
  <2>1. /\ a \in Note /\ a \in ToSet(op.view)
        /\ b \in Note /\ b \in ToSet(op.view)
    BY <1>0, <1>4, ViewSpend DEF TransferInputs
  <2>2. 1 \in DOMAIN op.picked /\ 2 \in DOMAIN op.picked
    BY LenProperties DEF Shape, OpTyped, Operation, Picked, Leaves
  <2> QED BY <2>1, <2>2 DEF Picked
<1>6. pay.value \in Value /\ rest.value \in Value /\ a.value + b.value = pay.value + rest.value
  <2>1. pay.value \in Value /\ rest.value \in Value
    BY <1>4 DEF TransferOutputs
  <2>2. rest.value = sum - op.amount
    BY DEF rest, Change, FreshNote
  <2>3. sum \in Nat
    BY <1>5, NotesAssumption DEF Note, Value
  <2> QED BY <1>0, <1>3, <2>1, <2>2, <2>3
<1>7. /\ pay \in Note /\ \A m \in Sampled : m.rho # pay.rho
      /\ rest \in Note /\ \A m \in Sampled : m.rho # rest.rho
      /\ pay.rho # rest.rho
  <2>1. rest.value = sum - op.amount
    BY DEF rest, Change, FreshNote
  <2>2. op.amount \in Value /\ sum - op.amount \in Value
    BY <1>3, <1>6, <2>1
  <2> HIDE DEF sum
  <2> QED BY <2>2, NewNote, Constants DEF pay, rest, Change
<1>8. /\ out \in Leaves /\ Len(out) = 2 /\ out[1] = pay /\ out[2] = rest
      /\ ToSet(out) = {pay, rest}
  <2>1. DOMAIN out = {1, 2} /\ Len(out) = 2 /\ out[1] = pay /\ out[2] = rest
    OBVIOUS
  <2> QED BY <1>7, <2>1 DEF Leaves, ToSet
<1> HIDE DEF out
<1>9. FrontierTransition(op.view, Len(op.view), out) \in Leaves
  BY <1>0, <1>8, FrontierTransitionAppends
<1>10. /\ pi.kind = "transfer" /\ pi.anchor = op.view /\ pi.outputs = out
       /\ pi.nullifiers = <<Nullifier(a), Nullifier(b)>>
       /\ pi.newRoot = FrontierTransition(op.view, Len(op.view), out)
       /\ pi.amount = 0 /\ pi.recipient = << >> /\ pi.pub = pub
  <2>1. [i \in DOMAIN <<a, b>> |-> Nullifier(<<a, b>>[i])] = <<Nullifier(a), Nullifier(b)>>
    OBVIOUS
  <2> QED BY <1>1, <1>2, <2>1 DEF PublicInputs
<1>11. pi \in Transaction
  <2>1. <<Nullifier(a), Nullifier(b)>> \in Seq(Nullifiers)
    BY <1>5, NullifierTyped
  <2>2. pi = [kind |-> "transfer", anchor |-> op.view, nullifiers |-> <<Nullifier(a), Nullifier(b)>>,
              outputs |-> out, newRoot |-> FrontierTransition(op.view, Len(op.view), out), amount |-> 0,
              recipient |-> << >>, pub |-> pub]
    BY <1>2, <1>10 DEF PublicInputs
  <2> HIDE DEF pi, a, b
  <2> QED BY <1>0, <1>1, <1>8, <1>9, <2>1, <2>2 DEF Transaction
<1> HIDE DEF pi
<1>12. Built(pi)
  <2>1. Pays(pi)
    BY <1>0, <1>3, <1>5, <1>6, <1>7, <1>8, <1>10 DEF Pays
  <2> QED BY <1>1, <1>10, <2>1 DEF Built
<1>13. NewOutputs(pi)
  BY <1>7, <1>8, <1>10 DEF NewOutputs
<1>14. KeptAfter(w) = Keep(pi) /\ Keep(pi) = <<[leafIndex |-> Len(op.view) + 1, note |-> rest]>>
  BY <1>1, <1>2, <1>8, <1>10 DEF KeptAfter, Keep
<1>15. Keep(pi) \in Seq(Opening)
  <2>1. [leafIndex |-> Len(op.view) + 1, note |-> rest] \in Opening
    BY <1>0, <1>7 DEF Opening
  <2> QED BY <1>14, <2>1
<1> QED BY <1>11, <1>12, <1>13, <1>14, <1>15 DEF pi, w

----------------------------------------------------------------------------
(* The inductive invariant.                                                *)

\* The contract's tree is that of the log, which begins with the seeds, and the
\* newest root of the ring is its root.
OneTree ==
  /\ tree.frontier = log
  /\ tree.root = log
  /\ tree.leafCount = Len(log)
  /\ Len(tree.recentRoots) >= 1
  /\ tree.recentRoots[Len(tree.recentRoots)] = log
  /\ Len(Seeds) <= Len(log)
  /\ \A i \in 1 .. Len(Seeds) : log[i] = Seeds[i]

\* Only leaves are spent.
SpentLeaves == nullifiers \subseteq {Nullifier(n) : n \in ToSet(log)}

\* The transactions the wallet built, and those of them the chain may still take.
Sent == orphans \cup ToSet(op.tx)
Waiting == IF op.status \in {"none", "pending"} THEN ToSet(op.tx) ELSE {}

AllBuilt == \A pi \in Sent : Built(pi)

\* What is kept for the operation's transaction is what Keep says, and stands on
\* the chain once the transaction has succeeded.
KeptRight ==
  /\ op.tx # << >> => op.keep = Keep(op.tx[1])
  /\ op.status = "success" =>
       \A l \in ToSet(op.keep) : l.leafIndex < Len(log) /\ log[l.leafIndex + 1] = l.note

\* What a transaction that nobody waits for would have saved was given up.
GivenUp == \A pi \in orphans : ToSet(Keep(pi)) \subseteq abandoned

\* No two leaves have the same rho, nor a leaf and an output that may become one,
\* nor two such outputs.
Apart(s, t) == \A n \in s, m \in t : n.rho # m.rho

Fresh ==
  /\ \A i, j \in 1 .. Len(log) : log[i].rho = log[j].rho => i = j
  /\ \A pi \in orphans \cup Waiting : Apart(ToSet(pi.outputs), ToSet(log))
  /\ \A pi, qi \in orphans : pi # qi => Apart(ToSet(pi.outputs), ToSet(qi.outputs))
  /\ \A pi \in Waiting, qi \in orphans : Apart(ToSet(pi.outputs), ToSet(qi.outputs))

WalletInv ==
  /\ Shape
  /\ OneTree
  /\ SpentLeaves
  /\ AllBuilt
  /\ KeptRight
  /\ GivenUp
  /\ Fresh
  /\ Picked
  /\ StoreIndexed
  /\ OpeningsHeld

----------------------------------------------------------------------------
(* The chain's steps.                                                      *)

LEMMA LogTyped ==
  ASSUME Shape
  PROVE  log \in Leaves /\ Len(log) \in Nat /\ DOMAIN log = 1 .. Len(log)
BY LenProperties DEF Shape, ChainTyped, Leaves

LEMMA ConcatLeaves ==
  ASSUME NEW s \in Leaves, NEW out \in Leaves
  PROVE  LET t == s \o out
         IN  /\ t \in Leaves
             /\ Len(t) = Len(s) + Len(out)
             /\ DOMAIN t = 1 .. Len(t) /\ DOMAIN s = 1 .. Len(s) /\ DOMAIN out = 1 .. Len(out)
             /\ Len(s) \in Nat /\ Len(out) \in Nat
             /\ \A i \in 1 .. Len(s) : t[i] = s[i]
             /\ \A i \in 1 .. Len(out) : t[Len(s) + i] = out[i]
             /\ ToSet(t) = ToSet(s) \cup ToSet(out)
<1> DEFINE t == s \o out
<1>1. /\ t \in Leaves /\ Len(s) \in Nat /\ Len(out) \in Nat
      /\ DOMAIN s = 1 .. Len(s) /\ DOMAIN out = 1 .. Len(out)
  BY ConcatProperties, LenProperties DEF Leaves
<1>2. PICK n \in Nat, m \in Nat : n = Len(s) /\ m = Len(out)
  BY <1>1
<1>3. /\ Len(t) = n + m
      /\ \A i \in 1 .. n + m : t[i] = IF i <= n THEN s[i] ELSE out[i - n]
  BY <1>2, ConcatProperties DEF Leaves
<1>4. DOMAIN t = 1 .. Len(t)
  <2> HIDE DEF t
  <2> QED BY <1>1, LenProperties DEF Leaves
<1> HIDE DEF t
<1>5. \A i \in 1 .. n : i \in 1 .. n + m /\ i <= n
  OBVIOUS
<1>6. \A i \in 1 .. m : n + i \in 1 .. n + m /\ ~(n + i <= n) /\ (n + i) - n = i
  OBVIOUS
<1>7. \A i \in 1 .. n + m : i \in 1 .. n \/ (~(i <= n) /\ i - n \in 1 .. m)
  OBVIOUS
<1>8. \A i \in 1 .. n : t[i] = s[i]
  BY <1>3, <1>5
<1>9. \A i \in 1 .. m : t[n + i] = out[i]
  BY <1>3, <1>6
<1>10. ToSet(t) = ToSet(s) \cup ToSet(out)
  <2>1. ASSUME NEW x \in ToSet(t) PROVE x \in ToSet(s) \cup ToSet(out)
    <3>1. PICK i \in 1 .. n + m : x = t[i]
      BY <1>3, <1>4 DEF ToSet
    <3>2. CASE i \in 1 .. n
      BY <1>1, <1>2, <1>8, <3>1, <3>2 DEF ToSet
    <3>3. CASE i - n \in 1 .. m /\ ~(i <= n)
      <4>1. x = out[i - n]
        BY <1>3, <3>1, <3>3
      <4> QED BY <1>1, <1>2, <3>3, <4>1 DEF ToSet
    <3> QED BY <1>7, <3>1, <3>2, <3>3
  <2>2. ToSet(s) \subseteq ToSet(t)
    BY <1>1, <1>2, <1>3, <1>4, <1>5, <1>8 DEF ToSet
  <2>3. ToSet(out) \subseteq ToSet(t)
    BY <1>1, <1>2, <1>3, <1>4, <1>6, <1>9 DEF ToSet
  <2> QED BY <2>1, <2>2, <2>3
<1> QED BY <1>1, <1>2, <1>3, <1>4, <1>8, <1>9, <1>10 DEF t

\* A transaction that is applied to the tree it was built on appends its outputs.
LEMMA ApplyAppends ==
  ASSUME Shape, OneTree, NEW pi, pi.outputs \in Leaves, pi.nullifiers \in Seq(Nullifiers),
         pi.pub.frontier = tree.frontier, pi.pub.nextIndex = tree.leafCount,
         pi.newRoot = FrontierTransition(pi.pub.frontier, pi.pub.nextIndex, pi.outputs),
         Apply(pi)
  PROVE  /\ log' = log \o pi.outputs
         /\ tree' \in TreeState /\ log' \in Leaves /\ nullifiers' \subseteq Nullifiers
         /\ OneTree'
<1>1. log' = log \o pi.outputs /\ nullifiers' = nullifiers \cup ToSet(pi.nullifiers)
  BY DEF Apply
<1>2. log \in Leaves /\ Len(log) \in Nat /\ tree \in TreeState /\ nullifiers \subseteq Nullifiers
  BY LogTyped DEF Shape, ChainTyped
<1>3. pi.newRoot = log'
  <2>1. FrontierTransition(log, Len(log), pi.outputs) = log \o pi.outputs
    BY <1>2, FrontierTransitionAppends
  <2>2. pi.pub.frontier = log /\ pi.pub.nextIndex = Len(log)
    BY DEF OneTree
  <2> QED BY <1>1, <2>1, <2>2
<1>4. /\ log' \in Leaves /\ Len(log') = Len(log) + Len(pi.outputs) /\ Len(pi.outputs) \in Nat
      /\ \A i \in 1 .. Len(log) : log'[i] = log[i]
  BY <1>1, <1>2, ConcatLeaves
<1>5. ToSet(pi.nullifiers) \subseteq Nullifiers
  BY ElementsFinite
<1>6. tree' = [frontier |-> log', root |-> log', leafCount |-> Len(log) + Len(pi.outputs),
               recentRoots |-> PushRecentRoot(tree.recentRoots, log')]
  BY <1>3 DEF Apply, ApplyTransition, OneTree
<1> DEFINE ring == PushRecentRoot(tree.recentRoots, log')
<1>7. ring \in Seq(Leaves) /\ Len(ring) >= 1 /\ ring[Len(ring)] = log'
  BY <1>2, <1>4, PushRecentRootKeeps DEF TreeState
<1> HIDE DEF ring
<1>8. tree' \in TreeState
  BY <1>2, <1>4, <1>6, <1>7 DEF TreeState, ring
<1>9. /\ tree'.frontier = log' /\ tree'.root = log' /\ tree'.leafCount = Len(log')
      /\ tree'.recentRoots = ring
  BY <1>4, <1>6 DEF ring
<1>10. Len(Seeds) <= Len(log') /\ \A i \in 1 .. Len(Seeds) : log'[i] = Seeds[i]
  <2>1. PICK n \in Nat, m \in Nat, k \in Nat : n = Len(log) /\ m = Len(pi.outputs) /\ k = Len(Seeds)
    BY <1>2, <1>4, Constants
  <2>2. k <= n /\ Len(log') = n + m
    BY <1>4, <2>1 DEF OneTree
  <2>3. k <= n + m /\ \A i \in 1 .. k : i \in 1 .. n
    BY <2>2
  <2> QED BY <1>4, <2>1, <2>2, <2>3 DEF OneTree
<1>11. OneTree'
  BY <1>7, <1>9, <1>10 DEF OneTree
<1> QED BY <1>1, <1>2, <1>4, <1>5, <1>8, <1>11

\* What a transaction of the wallet's does when it is accepted.
Takes(pi) ==
  /\ pi \in Transaction /\ Built(pi)
  /\ pi.pub.nextIndex = Len(log)
  /\ log' = log \o pi.outputs
  /\ pi.kind # "shield" => pi.anchor = log
  /\ nullifiers' = nullifiers \cup ToSet(pi.nullifiers)
  /\ \A i \in DOMAIN pi.nullifiers : pi.nullifiers[i] \notin nullifiers
  /\ tree' \in TreeState /\ log' \in Leaves /\ nullifiers' \subseteq Nullifiers
  /\ OneTree'
  /\ UNCHANGED frozen
  /\ Record(pi)

\* What a shield of somebody else does.
OthersAdd(n) ==
  /\ n \in Note /\ n.owner = Other
  /\ \A m \in Sampled : m.rho # n.rho
  /\ log' = log \o <<n>>
  /\ tree' \in TreeState /\ log' \in Leaves
  /\ OneTree'
  /\ UNCHANGED <<nullifiers, frozen, paidOut, pulled, returned>>

LEMMA AcceptedTakes ==
  ASSUME Shape, OneTree, NEW pi \in Transaction, Built(pi), Accepts(pi), Apply(pi), Record(pi)
  PROVE  Takes(pi)
<1>1. /\ pi.pub.frontier = tree.frontier /\ pi.pub.nextIndex = tree.leafCount
      /\ pi.kind # "shield" => \A i \in DOMAIN pi.nullifiers : pi.nullifiers[i] \notin nullifiers
  BY DEF Accepts, CheckOldFrontier, CheckNextIndex
<1>2. pi.outputs \in Leaves /\ pi.nullifiers \in Seq(Nullifiers)
  BY DEF Transaction
<1>3. /\ log' = log \o pi.outputs
      /\ tree' \in TreeState /\ log' \in Leaves /\ nullifiers' \subseteq Nullifiers
      /\ OneTree'
  BY <1>1, <1>2, ApplyAppends DEF Built
<1>4. \A i \in DOMAIN pi.nullifiers : pi.nullifiers[i] \notin nullifiers
  BY <1>1 DEF Built, Deposits, Pays, Redeems
<1>5. pi.pub.nextIndex = Len(log) /\ (pi.kind # "shield" => pi.anchor = log)
  BY <1>1 DEF OneTree, Built
<1> QED BY <1>3, <1>4, <1>5 DEF Takes, Apply

LEMMA OthersShieldAdds ==
  ASSUME Shape, OneTree, OthersShield
  PROVE  \E n \in Note : OthersAdd(n)
<1> DEFINE n == FreshNote(1, Other, 1)
           pub == Pub(<< >>, tree.frontier, tree.leafCount)
           pi == PublicInputs(ShieldWitness(n), pub)
<1>1. n.owner = Other /\ n \in Note /\ \A m \in Sampled : m.rho # n.rho
  <2>1. n.owner = Other
    BY DEF FreshNote
  <2>2. 1 \in Value /\ Other \in Owners
    BY Constants
  <2> QED BY <2>1, <2>2, NewNote
<1>2. Apply(pi)
  BY DEF OthersShield
<1> HIDE DEF n
<1>3. /\ pi.outputs = <<n>> /\ pi.nullifiers = << >> /\ pi.pub = pub
      /\ pi.newRoot = FrontierTransition(pub.frontier, pub.nextIndex, <<n>>)
  BY DEF PublicInputs, ShieldWitness
<1>4. pub.frontier = tree.frontier /\ pub.nextIndex = tree.leafCount
  BY DEF Pub
<1>5. <<n>> \in Leaves /\ << >> \in Seq(Nullifiers)
  BY <1>1 DEF Leaves
<1> HIDE DEF pi, pub
<1>6. /\ log' = log \o <<n>> /\ tree' \in TreeState /\ log' \in Leaves /\ OneTree'
  BY <1>2, <1>3, <1>4, <1>5, ApplyAppends
<1>7. nullifiers' = nullifiers /\ frozen' = frozen
  <2>1. ToSet(pi.nullifiers) = {}
    BY <1>3 DEF ToSet
  <2> QED BY <1>2, <2>1 DEF Apply
<1> QED BY <1>1, <1>6, <1>7 DEF OthersAdd, OthersShield

----------------------------------------------------------------------------
(* The tab's steps.                                                        *)

\* The operation gets its transaction.
Builds(pi) ==
  /\ pi \in Transaction /\ Built(pi) /\ NewOutputs(pi)
  /\ op.tx = << >> /\ op.status = "none"
  /\ op' \in Operation
  /\ op'.pc = "submit" /\ op'.status = "none" /\ op'.amount = op.amount
  /\ op'.tx = <<pi>>
  /\ op'.keep = Keep(pi)

LEMMA IdleTyped ==
  /\ Idle \in Operation
  /\ Idle.pc = "idle" /\ Idle.tx = << >> /\ Idle.status = "none" /\ Idle.keep = << >>
<1>1. << >> \in Leaves /\ << >> \in Seq(Leaves) /\ << >> \in Seq(Nat) /\ << >> \in Seq(Opening) /\ << >> \in Seq(Transaction)
  BY DEF Leaves
<1> QED BY <1>1 DEF Idle, Operation

LEMMA SpendBuilds ==
  ASSUME Shape, Picked, BuildSpend
  PROVE  op' = Idle \/ \E pi \in Transaction : Builds(pi)
<1> DEFINE pub == Pub(FrozenView, op.view, Len(op.view))
           w == IF op.kind = "unshield" THEN UnshieldOfPicked ELSE TransferOfPicked
           pi == PublicInputs(w, pub)
<1>1. op.pc = "frozen" /\ op \in Operation /\ op.tx = << >> /\ op.status = "none"
  BY DEF BuildSpend, Shape, OpTyped
<1>2. CASE ~(ToSet(op.picked) \cap ToSet(FrozenView) = {} /\ Provable(w, pub))
  BY <1>2 DEF BuildSpend, Fail
<1>3. CASE ToSet(op.picked) \cap ToSet(FrozenView) = {} /\ Provable(w, pub)
  <2>1. op' = [op EXCEPT !.pc = "submit", !.keep = KeptAfter(w), !.view = << >>, !.picked = << >>,
                         !.tx = <<pi>>]
    BY <1>3 DEF BuildSpend
  <2>2. /\ pi \in Transaction /\ Built(pi) /\ NewOutputs(pi)
        /\ KeptAfter(w) = Keep(pi)
        /\ Keep(pi) \in Seq(Opening)
    <3>1. CASE op.kind = "unshield"
      <4>1. w = UnshieldOfPicked
        BY <3>1
      <4> HIDE DEF w, pub
      <4>2. pub = Pub(FrozenView, op.view, Len(op.view)) /\ Provable(UnshieldOfPicked, pub)
        BY <1>3, <4>1 DEF pub
      <4> QED BY <1>1, <3>1, <4>1, <4>2, UnshieldBuilt
    <3>2. CASE op.kind # "unshield"
      <4>1. w = TransferOfPicked
        BY <3>2
      <4> HIDE DEF w, pub
      <4>2. pub = Pub(FrozenView, op.view, Len(op.view)) /\ Provable(TransferOfPicked, pub)
        BY <1>3, <4>1 DEF pub
      <4> QED BY <1>1, <3>2, <4>1, <4>2, TransferBuilt
    <3> QED BY <3>1, <3>2
  <2> HIDE DEF pi, w, pub
  <2>3. << >> \in Leaves /\ <<pi>> \in Seq(Transaction)
    BY <2>2 DEF Leaves
  <2>4. Builds(pi)
    BY <1>1, <2>1, <2>2, <2>3 DEF Builds, Operation
  <2> QED BY <2>2, <2>4
<1> QED BY <1>2, <1>3

LEMMA ShieldBuilds ==
  ASSUME Shape, Picked, BuildShield
  PROVE  op' = Idle \/ \E pi \in Transaction : Builds(pi)
<1> DEFINE w == ShieldWitness(FreshNote(op.amount, Me, 1))
           pub == Pub(<< >>, op.frontier[1], op.leafCount[1])
           pi == PublicInputs(w, pub)
<1>1. op.pc = "reads" /\ op \in Operation /\ op.tx = << >> /\ op.status = "none"
  BY DEF BuildShield, Shape, OpTyped
<1>2. CASE ~LimitOK
  BY <1>2 DEF BuildShield, Fail
<1>3. CASE LimitOK /\ ~Provable(w, pub)
  BY <1>3 DEF BuildShield, Fail
<1>4. CASE LimitOK /\ Provable(w, pub)
  <2>0. op.frontier # << >> /\ op.leafCount # << >>
    BY <1>4 DEF BuildShield
  <2>1. op' = [op EXCEPT !.pc = "submit", !.frontier = << >>, !.leafCount = << >>,
                         !.keep = <<[leafIndex |-> op.leafCount[1], note |-> w.outs[1]]>>,
                         !.tx = <<pi>>]
    BY <1>4 DEF BuildShield
  <2>2. op.frontier[1] \in Leaves /\ op.leafCount[1] \in Nat
    <3>1. op.frontier \in Seq(Leaves) /\ op.leafCount \in Seq(Nat)
      BY <1>1 DEF Operation
    <3>2. Len(op.frontier) # 0 /\ Len(op.leafCount) # 0
      BY <2>0, <3>1, EmptySeq
    <3>3. Len(op.frontier) \in Nat /\ Len(op.leafCount) \in Nat
      BY <3>1, LenProperties
    <3>4. \A n \in Nat : n # 0 => 1 \in 1 .. n
      OBVIOUS
    <3>5. 1 \in 1 .. Len(op.frontier) /\ 1 \in 1 .. Len(op.leafCount)
      BY <3>2, <3>3, <3>4
    <3> QED BY <3>1, <3>5, ElementOfSeq
  <2>3. /\ pi \in Transaction /\ Built(pi) /\ NewOutputs(pi)
        /\ <<[leafIndex |-> op.leafCount[1], note |-> w.outs[1]]>> = Keep(pi)
        /\ Keep(pi) \in Seq(Opening)
    <3>1. w = ShieldWitness(FreshNote(op.amount, Me, 1)) /\ pub = Pub(<< >>, op.frontier[1], op.leafCount[1])
      OBVIOUS
    <3> HIDE DEF w, pub
    <3> QED BY <1>1, <1>4, <2>2, <3>1, ShieldBuilt
  <2> HIDE DEF pi, w, pub
  <2>4. << >> \in Seq(Leaves) /\ << >> \in Seq(Nat) /\ <<pi>> \in Seq(Transaction)
    BY <2>3
  <2>5. Builds(pi)
    BY <1>1, <2>1, <2>3, <2>4 DEF Builds, Operation
  <2> QED BY <2>3, <2>5
<1> QED BY <1>2, <1>3, <1>4

\* What the tab does, as far as its transaction goes.
HoldsOn == op'.tx = op.tx /\ op'.keep = op.keep /\ op'.status = op.status
LetsGo == op'.tx = << >> /\ op'.status = "none"
Moves(from, to) ==
  /\ op.status = from
  /\ op.tx # << >>
  /\ op'.tx = op.tx /\ op'.keep = op.keep /\ op'.status = to

LEMMA NoTransaction ==
  ASSUME op' \in Operation, op'.tx = << >>, op'.status = "none", op'.pc \notin {"submit", "poll"}
  PROVE  OpTyped' /\ LetsGo
BY DEF OpTyped, LetsGo

\* The note picked for a spend, or the two different ones.
Picks ==
  /\ op'.amount = op.amount
  /\ op'.kind = op.kind
  /\ LET notes == SpendableNotes(op.view)
     IN  \/ /\ op.kind = "unshield"
            /\ Len(notes) >= 1
            /\ op'.picked = <<notes[1]>>
         \/ /\ op.kind # "unshield"
            /\ \E i, j \in 1 .. Len(notes) : i # j /\ op'.picked = <<notes[i], notes[j]>>

LEMMA ScanPicks ==
  ASSUME Shape, ScanNotes
  PROVE  /\ OpTyped'
         /\ LetsGo
         /\ \/ op' = Idle
            \/ op'.pc = "reads" /\ op'.amount = op.amount
            \/ op'.pc = "frozen" /\ Picks
<1> DEFINE notes == SpendableNotes(op.view)
<1>1. notes \in Seq(Note) /\ Len(notes) \in Nat
  BY SpendableTyped
<1>2. op.pc = "notes" /\ op \in Operation /\ op.tx = << >> /\ op.status = "none"
  BY DEF ScanNotes, Shape, OpTyped
<1>3. CASE op' = Idle
  <2>1. OpTyped'
    BY <1>3, IdleTyped DEF OpTyped
  <2> QED BY <1>3, <2>1, IdleTyped DEF LetsGo
<1>4. CASE op.kind = "unshield" /\ op' # Idle
  <2>1. notes # << >> /\ op' = [op EXCEPT !.pc = "frozen", !.picked = <<notes[1]>>]
    BY <1>4 DEF ScanNotes, PickOne, Fail
  <2>2. Len(notes) >= 1
    <3>1. Len(notes) # 0
      BY <1>1, <2>1, EmptySeq
    <3> HIDE DEF notes
    <3> QED BY <1>1, <3>1
  <2>3. <<notes[1]>> \in Leaves
    <3>1. 1 \in 1 .. Len(notes)
      BY <1>1, <2>2
    <3>2. notes[1] \in Note
      BY <1>1, <3>1, ElementOfSeq
    <3> QED BY <3>2 DEF Leaves
  <2> HIDE DEF notes
  <2>4. /\ op' \in Operation /\ op'.tx = << >> /\ op'.status = "none"
        /\ op'.pc = "frozen" /\ op'.amount = op.amount /\ op'.kind = op.kind /\ op'.picked = <<notes[1]>>
    BY <1>2, <2>1, <2>3 DEF Operation
  <2> QED BY <1>4, <2>2, <2>4, NoTransaction DEF Picks, notes
<1>5. CASE op.kind # "unshield" /\ op' # Idle /\ Len(notes) < 2
  <2>1. op' = [op EXCEPT !.pc = "reads", !.prepared = TRUE, !.view = << >>, !.shields = 2 - Len(notes)]
    BY <1>5 DEF ScanNotes, PickTwo, Fail
  <2> HIDE DEF notes
  <2>2. 2 - Len(notes) \in 0 .. 2 /\ << >> \in Leaves
    BY <1>1, <1>5 DEF Leaves
  <2>3. /\ op' \in Operation /\ op'.tx = << >> /\ op'.status = "none"
        /\ op'.pc = "reads" /\ op'.amount = op.amount
    BY <1>2, <2>1, <2>2 DEF Operation
  <2> QED BY <2>3, NoTransaction
<1>6. CASE op.kind # "unshield" /\ op' # Idle /\ ~(Len(notes) < 2)
  <2>1. op' = [op EXCEPT !.pc = "frozen", !.picked = TwoHighest(notes)]
    BY <1>6 DEF ScanNotes, PickTwo, Fail
  <2> HIDE DEF notes
  <2>2. PICK i, j \in 1 .. Len(notes) : i # j /\ TwoHighest(notes) = <<notes[i], notes[j]>>
    BY <1>1, <1>6, TwoPositions
  <2>3. TwoHighest(notes) \in Leaves
    <3>1. notes[i] \in Note /\ notes[j] \in Note
      BY <1>1, <2>2, ElementOfSeq
    <3> QED BY <2>2, <3>1 DEF Leaves
  <2>4. /\ op' \in Operation /\ op'.tx = << >> /\ op'.status = "none"
        /\ op'.pc = "frozen" /\ op'.amount = op.amount /\ op'.kind = op.kind /\ op'.picked = TwoHighest(notes)
    BY <1>2, <2>1, <2>3 DEF Operation
  <2> QED BY <1>6, <2>2, <2>4, NoTransaction DEF Picks, notes
<1> QED BY <1>3, <1>4, <1>5, <1>6

----------------------------------------------------------------------------
(* The steps, as far as the properties tell them apart.                     *)

ledger == <<tree, log, nullifiers, paidOut, pulled, returned>>

\* What the operation asks for and has picked after a step of the tab.
Asks ==
  \/ op' = Idle
  \/ op'.pc # "frozen" /\ op'.amount \in Amounts
  \/ op'.pc = "frozen" /\ op'.amount \in Amounts /\ Picks

\* Nobody moves but the network, the indexer and an issuer that freezes.
Rests ==
  /\ UNCHANGED <<ledger, op, store, abandoned>>
  /\ orphans' \subseteq orphans

\* A transaction that nobody waits for takes effect.
TakesLate(pi) ==
  /\ Takes(pi)
  /\ orphans' = orphans \ {pi}
  /\ UNCHANGED <<op, store, abandoned>>

OthersMove(n) ==
  /\ OthersAdd(n)
  /\ UNCHANGED <<op, store, abandoned, orphans>>

\* The tab reads or picks, or gives up what was not sent or was refused.
Prepares ==
  /\ op.status # "success"
  /\ LetsGo /\ Asks
  /\ UNCHANGED <<ledger, store, abandoned, orphans>>

Constructs(pi) ==
  /\ Builds(pi) /\ op.pc # "idle"
  /\ UNCHANGED <<ledger, store, abandoned, orphans>>

\* The operation's transaction is sent, refused or expired; or it takes effect.
Advances ==
  /\ op.status \in {"none", "pending"}
  /\ op.tx # << >>
  /\ op'.tx = op.tx /\ op'.keep = op.keep /\ op'.status \in {"pending", "failed", "expired"}
  /\ op'.pc = "poll" /\ op'.amount = op.amount
  /\ UNCHANGED <<ledger, store, abandoned, orphans>>

TakesEffect ==
  /\ op.status = "pending"
  /\ op.tx # << >>
  /\ Takes(op.tx[1])
  /\ op'.tx = op.tx /\ op'.keep = op.keep /\ op'.status = "success"
  /\ op'.pc = "poll" /\ op'.amount = op.amount
  /\ UNCHANGED <<store, abandoned, orphans>>

Saves ==
  /\ op.status = "success"
  /\ SaveStored(op.keep)
  /\ LetsGo /\ Asks
  /\ UNCHANGED <<ledger, abandoned, orphans>>

WalksAway ==
  /\ LetsGo /\ op' = Idle
  /\ abandoned' = abandoned \cup (IF op.pc = "poll" THEN ToSet(op.keep) ELSE {})
  /\ orphans' = orphans \cup (IF op.status = "pending" THEN ToSet(op.tx) ELSE {})
  /\ UNCHANGED <<ledger, store>>

----------------------------------------------------------------------------
LEMMA StartPrepares ==
  ASSUME Shape, NEW r \in Requests, Start(r)
  PROVE  OpTyped' /\ Prepares
<1>1. op' = [Idle EXCEPT !.pc = IF r.kind = "shield" THEN "reads" ELSE "tree",
                         !.kind = r.kind, !.amount = r.amount]
      /\ op.pc = "idle" /\ UNCHANGED <<ledger, store, abandoned, orphans>>
  BY DEF Start, chainVars, netVars, ledger
<1>2. r.amount \in Nat /\ r.kind \in {"shield", "transfer", "unshield"} /\ r.amount \in Amounts
  BY Constants DEF Amounts
<1>3. /\ op' \in Operation /\ op'.tx = << >> /\ op'.status = "none"
      /\ op'.pc \in {"reads", "tree"} /\ op'.amount = r.amount
  BY <1>1, <1>2, IdleTyped DEF Operation
<1>4. op.status # "success"
  BY <1>1 DEF Shape, OpTyped
<1> QED BY <1>1, <1>2, <1>3, <1>4, NoTransaction DEF Prepares, Asks

LEMMA ReadPrepares ==
  ASSUME Shape, Picked, ReadTree \/ ReadFrontier \/ ReadLeafCount
  PROVE  OpTyped' /\ Prepares
<1>1. /\ UNCHANGED <<ledger, store, abandoned, orphans>>
      /\ op.tx = << >> /\ op.status = "none" /\ op \in Operation /\ op.pc # "idle"
  BY DEF ReadTree, ReadFrontier, ReadLeafCount, chainVars, netVars, ledger, Shape, OpTyped
<1>2. op.amount \in Amounts
  BY <1>1 DEF Picked
<1>3. /\ op' \in Operation /\ op'.tx = << >> /\ op'.status = "none"
      /\ op'.pc \in {"reads", "notes"} /\ op'.amount = op.amount
  <2>1. CASE ReadTree
    <3>1. op' = [op EXCEPT !.pc = "notes", !.view = ChainView] /\ ChainView \in Leaves
      BY <2>1, ViewsTyped DEF ReadTree
    <3> QED BY <1>1, <3>1 DEF Operation
  <2>2. CASE ReadFrontier
    <3>1. op' = [op EXCEPT !.frontier = <<tree.frontier>>] /\ op.pc = "reads"
      BY <2>2 DEF ReadFrontier
    <3>2. <<tree.frontier>> \in Seq(Leaves)
      BY DEF Shape, ChainTyped, TreeState
    <3> QED BY <1>1, <3>1, <3>2 DEF Operation
  <2>3. CASE ReadLeafCount
    <3>1. op' = [op EXCEPT !.leafCount = <<tree.leafCount>>] /\ op.pc = "reads"
      BY <2>3 DEF ReadLeafCount
    <3>2. <<tree.leafCount>> \in Seq(Nat)
      BY DEF Shape, ChainTyped, TreeState
    <3> QED BY <1>1, <3>1, <3>2 DEF Operation
  <2> QED BY <2>1, <2>2, <2>3
<1> QED BY <1>1, <1>2, <1>3, NoTransaction DEF Prepares, Asks

LEMMA ScanPrepares ==
  ASSUME Shape, Picked, ScanNotes
  PROVE  OpTyped' /\ Prepares
<1>1. /\ UNCHANGED <<ledger, store, abandoned, orphans>>
      /\ op.status # "success" /\ op.amount \in Amounts
  BY DEF ScanNotes, chainVars, netVars, ledger, Shape, OpTyped, Picked
<1> QED BY <1>1, ScanPicks DEF Prepares, Asks, Picks

LEMMA FailPrepares ==
  ASSUME op.status # "success", op' = Idle, UNCHANGED <<ledger, store, abandoned, orphans>>
  PROVE  OpTyped' /\ Prepares
BY IdleTyped, NoTransaction DEF Prepares, Asks

LEMMA BuildConstructs ==
  ASSUME Shape, Picked, BuildSpend \/ BuildShield
  PROVE  OpTyped' /\ (Prepares \/ \E pi \in Transaction : Constructs(pi))
<1>1. UNCHANGED <<ledger, store, abandoned, orphans>> /\ op.status # "success" /\ op.pc # "idle"
  BY DEF BuildSpend, BuildShield, chainVars, netVars, ledger, Shape, OpTyped
<1>2. CASE op' = Idle
  BY <1>1, <1>2, FailPrepares
<1>3. CASE \E pi \in Transaction : Builds(pi)
  <2>1. PICK pi \in Transaction : Builds(pi)
    BY <1>3
  <2>2. Len(op'.tx) <= 1 /\ op'.tx # << >>
    BY <2>1 DEF Builds
  <2>3. OpTyped'
    BY <2>1, <2>2 DEF Builds, OpTyped
  <2> QED BY <1>1, <2>1, <2>3 DEF Constructs
<1> QED BY <1>2, <1>3, SpendBuilds, ShieldBuilds

LEMMA SubmitAdvances ==
  ASSUME Shape, Submit \/ Decline
  PROVE  OpTyped' /\ (Prepares \/ Advances)
<1>1. /\ UNCHANGED <<ledger, store, abandoned, orphans>>
      /\ op.pc = "submit" /\ op.status = "none" /\ op.tx # << >> /\ op \in Operation /\ Len(op.tx) <= 1
  BY DEF Submit, Decline, chainVars, netVars, ledger, Shape, OpTyped
<1>2. CASE op' = Idle
  BY <1>1, <1>2, FailPrepares
<1>3. CASE op' = [op EXCEPT !.pc = "poll", !.status = "pending"]
  <2>1. /\ op' \in Operation /\ op'.pc = "poll" /\ op'.status = "pending" /\ op'.tx = op.tx
        /\ op'.keep = op.keep /\ op'.amount = op.amount
    BY <1>1, <1>3 DEF Operation
  <2> QED BY <1>1, <2>1 DEF OpTyped, Advances
<1> QED BY <1>2, <1>3 DEF Submit, Decline, Fail

LEMMA ResultAdvances ==
  ASSUME Shape, OneTree, AllBuilt, Include \/ Expire
  PROVE  OpTyped' /\ (Advances \/ TakesEffect)
<1>1. /\ UNCHANGED <<store, abandoned, orphans>>
      /\ op.pc = "poll" /\ op.status = "pending" /\ op.tx # << >> /\ op \in Operation /\ Len(op.tx) <= 1
  BY DEF Include, Expire, chainVars, netVars, Shape, OpTyped
<1>2. op.tx[1] \in Transaction /\ Built(op.tx[1])
  BY <1>1, OneTransaction DEF Shape, AllBuilt, Sent
<1>3. ASSUME NEW s \in {"success", "failed", "expired"}, op' = [op EXCEPT !.status = s]
      PROVE  /\ OpTyped' /\ op'.tx = op.tx /\ op'.keep = op.keep /\ op'.status = s
             /\ op'.pc = "poll" /\ op'.amount = op.amount
  <2>1. /\ op' \in Operation /\ op'.pc = "poll" /\ op'.status = s /\ op'.tx = op.tx
        /\ op'.keep = op.keep /\ op'.amount = op.amount
    BY <1>1, <1>3 DEF Operation
  <2> QED BY <1>1, <2>1 DEF OpTyped
<1>4. CASE Include /\ Accepts(op.tx[1])
  <2>1. /\ op' = [op EXCEPT !.status = "success"]
        /\ Apply(op.tx[1]) /\ Record(op.tx[1])
    BY <1>4 DEF Include
  <2>2. Takes(op.tx[1])
    BY <1>2, <1>4, <2>1, AcceptedTakes
  <2> QED BY <1>1, <1>3, <2>1, <2>2 DEF TakesEffect
<1>5. CASE Include /\ ~Accepts(op.tx[1])
  BY <1>1, <1>3, <1>5 DEF Include, Advances, chainVars, ledger
<1>6. CASE Expire
  BY <1>1, <1>3, <1>6 DEF Expire, Advances, chainVars, ledger
<1> QED BY <1>4, <1>5, <1>6

LEMMA ConfirmedSaves ==
  ASSUME Shape, Picked, Confirmed
  PROVE  OpTyped' /\ Saves
<1>1. /\ UNCHANGED <<ledger, abandoned, orphans>>
      /\ op.pc = "poll" /\ op.status = "success" /\ op \in Operation /\ SaveStored(op.keep)
      /\ op.amount \in Amounts
  BY DEF Confirmed, chainVars, netVars, ledger, Shape, OpTyped, Picked
<1>2. CASE op.shields > 0
  <2>1. op' = [op EXCEPT !.pc = IF op.shields > 1 THEN "reads" ELSE "tree",
                         !.shields = @ - 1, !.keep = << >>, !.tx = << >>, !.status = "none"]
    BY <1>2 DEF Confirmed
  <2>2. op.shields - 1 \in 0 .. 2 /\ << >> \in Seq(Opening) /\ << >> \in Seq(Transaction)
    BY <1>1, <1>2 DEF Operation
  <2>3. /\ op' \in Operation /\ op'.tx = << >> /\ op'.status = "none"
        /\ op'.pc \in {"reads", "tree"} /\ op'.amount = op.amount
    BY <1>1, <2>1, <2>2 DEF Operation
  <2> QED BY <1>1, <2>3, NoTransaction DEF Saves, Asks
<1>3. CASE ~(op.shields > 0)
  <2>1. op' = Idle
    BY <1>3 DEF Confirmed, Succeed
  <2> QED BY <1>1, <2>1, IdleTyped, NoTransaction DEF Saves, Asks
<1> QED BY <1>2, <1>3

\* Every step is one of these.
LEMMA WalletSteps ==
  ASSUME WalletInv, [Next]_vars
  PROVE  /\ OpTyped'
         /\ \/ Rests
            \/ \E pi \in orphans : TakesLate(pi)
            \/ \E n \in Note : OthersMove(n)
            \/ Prepares
            \/ \E pi \in Transaction : Constructs(pi)
            \/ Advances
            \/ TakesEffect
            \/ Saves
            \/ WalksAway
<1>0. Shape /\ Picked /\ OneTree /\ AllBuilt /\ OpTyped
  BY DEF WalletInv, Shape
<1>00. op' = op => OpTyped'
  BY <1>0 DEF OpTyped
<1>1. CASE UNCHANGED vars
  BY <1>1, <1>00 DEF vars, chainVars, netVars, tabVars, ledger, Rests
<1>2. CASE \E r \in Requests : Start(r)
  BY <1>0, <1>2, StartPrepares
<1>3. CASE ReadTree \/ ReadFrontier \/ ReadLeafCount
  BY <1>0, <1>3, ReadPrepares
<1>4. CASE ScanNotes
  BY <1>0, <1>4, ScanPrepares
<1>5. CASE BuildSpend \/ BuildShield
  BY <1>0, <1>5, BuildConstructs
<1>6. CASE Submit \/ Decline
  BY <1>0, <1>6, SubmitAdvances
<1>7. CASE Include \/ Expire
  BY <1>0, <1>7, ResultAdvances
<1>8. CASE Confirmed
  BY <1>0, <1>8, ConfirmedSaves
<1>9. CASE NotConfirmed
  BY <1>9, FailPrepares DEF NotConfirmed, Fail, chainVars, netVars, ledger
<1>10. CASE GiveUp \/ CloseTab
  <2>1. op' = Idle /\ LetGo /\ UNCHANGED <<ledger, store>>
    BY <1>10 DEF GiveUp, CloseTab, Fail, chainVars, ledger
  <2> QED BY <2>1, IdleTyped, NoTransaction DEF WalksAway, LetGo
<1>11. CASE \E pi \in orphans : IncludeOrphan(pi)
  <2>1. PICK pi \in orphans : IncludeOrphan(pi)
    BY <1>11
  <2>2. pi \in Transaction /\ Built(pi)
    BY <1>0 DEF Shape, NetTyped, AllBuilt, Sent
  <2>3. UNCHANGED <<op, store, abandoned>> /\ orphans' = orphans \ {pi}
    BY <2>1 DEF IncludeOrphan, tabVars
  <2>4. CASE Accepts(pi)
    <3>1. Takes(pi)
      BY <1>0, <2>1, <2>2, <2>4, AcceptedTakes DEF IncludeOrphan
    <3> QED BY <1>00, <2>3, <3>1 DEF TakesLate
  <2>5. CASE ~Accepts(pi)
    BY <1>00, <2>1, <2>3, <2>5 DEF IncludeOrphan, chainVars, ledger, Rests
  <2> QED BY <2>4, <2>5
<1>12. CASE OthersShield
  <2>1. PICK n \in Note : OthersAdd(n)
    BY <1>0, <1>12, OthersShieldAdds
  <2> QED BY <1>00, <1>12, <2>1 DEF OthersShield, OthersMove, tabVars
<1>13. CASE \E pi \in orphans : ExpireOrphan(pi)
  BY <1>00, <1>13 DEF ExpireOrphan, chainVars, tabVars, ledger, Rests
<1>14. CASE Freeze \/ IngestLeaf \/ IngestFreeze \/ Age
  BY <1>00, <1>14 DEF Freeze, IngestLeaf, IngestFreeze, Age, chainVars, netVars, tabVars, ledger, Rests
<1> QED
  BY <1>1, <1>2, <1>3, <1>4, <1>5, <1>6, <1>7, <1>8, <1>9, <1>10, <1>11, <1>12, <1>13, <1>14 DEF Next, Run

----------------------------------------------------------------------------
(* Every step keeps the shape.                                              *)

LEMMA FrozenGrows ==
  ASSUME Shape, [Next]_vars
  PROVE  frozen' \in Leaves /\ Len(frozen) <= Len(frozen')
<1>1. frozen \in Leaves /\ Len(frozen) \in Nat
  BY LenProperties DEF Shape, ChainTyped, Leaves
<1>2. CASE Freeze
  <2>1. PICK cm \in ToSet(log) : frozen' = Append(frozen, cm)
    BY <1>2 DEF Freeze
  <2>2. cm \in Note
    BY ElementsFinite DEF Shape, ChainTyped, Leaves
  <2>3. frozen' \in Leaves /\ Len(frozen') = Len(frozen) + 1
    BY <1>1, <2>1, <2>2, AppendProperties DEF Leaves
  <2> QED BY <1>1, <2>3
<1>3. CASE ~Freeze
  <2>1. frozen' = frozen
    <3>1. CASE UNCHANGED vars
      BY <3>1 DEF vars, chainVars
    <3>2. CASE Next /\ ~Run
      BY <1>3, <3>2 DEF Next, Start, Decline, Include, Expire, GiveUp, CloseTab, IncludeOrphan, ExpireOrphan,
                        OthersShield, IngestLeaf, IngestFreeze, Age, Apply, chainVars
    <3>3. CASE Run
      BY <3>3 DEF Run, ReadTree, ScanNotes, BuildSpend, ReadFrontier, ReadLeafCount, BuildShield,
                  Submit, Confirmed, NotConfirmed, chainVars
    <3> QED BY <3>1, <3>2, <3>3
  <2> QED BY <1>1, <2>1
<1> QED BY <1>2, <1>3

\* A transaction that takes effect has its type.
LEMMA TakesTyped ==
  ASSUME Shape, NEW pi, Takes(pi)
  PROVE  /\ log' \in Leaves /\ Len(log) <= Len(log')
         /\ tree' \in TreeState /\ nullifiers' \subseteq Nullifiers
         /\ {paidOut', pulled'} \subseteq Nat
         /\ returned' \subseteq Note
<1>1. pi \in Transaction /\ pi.outputs \in Leaves /\ pi.amount \in Nat
  BY DEF Takes, Transaction
<1>2. log \in Leaves /\ log' = log \o pi.outputs
  BY LogTyped DEF Takes
<1>3. Len(log') = Len(log) + Len(pi.outputs) /\ Len(pi.outputs) \in Nat /\ Len(log) \in Nat
  BY <1>1, <1>2, ConcatLeaves
<1>4. ToSet(pi.outputs) \subseteq Note
  BY <1>1, ElementsFinite DEF Leaves
<1> QED BY <1>1, <1>3, <1>4 DEF Takes, Record, Shape, ChainTyped

LEMMA OthersTyped ==
  ASSUME Shape, NEW n, OthersAdd(n)
  PROVE  /\ Len(log) <= Len(log')
         /\ <<n>> \in Leaves /\ ToSet(<<n>>) = {n} /\ Len(<<n>>) = 1 /\ <<n>>[1] = n
<1>1. <<n>> \in Leaves /\ Len(<<n>>) = 1 /\ <<n>>[1] = n
  BY DEF OthersAdd, Leaves
<1>2. ToSet(<<n>>) = {n}
  <2>1. DOMAIN <<n>> = 1 .. 1 /\ <<n>>[1] = n
    OBVIOUS
  <2> QED BY <2>1 DEF ToSet
<1>3. Len(log') = Len(log) + Len(<<n>>) /\ Len(log) \in Nat
  BY <1>1, LogTyped, ConcatLeaves DEF OthersAdd
<1> QED BY <1>1, <1>2, <1>3

LEMMA StepChainTyped ==
  ASSUME WalletInv, [Next]_vars
  PROVE  ChainTyped' /\ Len(log) <= Len(log')
<1>0. Shape /\ Len(log) \in Nat /\ frozen' \in Leaves
  BY LogTyped, FrozenGrows DEF WalletInv
<1>1. CASE UNCHANGED ledger
  BY <1>0, <1>1 DEF ledger, Shape, ChainTyped
<1>2. ASSUME NEW pi, Takes(pi) PROVE ChainTyped' /\ Len(log) <= Len(log')
  <2>1. /\ log' \in Leaves /\ Len(log) <= Len(log')
        /\ tree' \in TreeState /\ nullifiers' \subseteq Nullifiers
        /\ {paidOut', pulled'} \subseteq Nat
        /\ returned' \subseteq Note
    BY <1>0, <1>2, TakesTyped
  <2> QED BY <1>0, <2>1 DEF ChainTyped
<1>3. ASSUME NEW n, OthersAdd(n) PROVE ChainTyped' /\ Len(log) <= Len(log')
  <2>1. Len(log) <= Len(log')
    BY <1>0, <1>3, OthersTyped
  <2> QED BY <1>0, <1>3, <2>1 DEF OthersAdd, Shape, ChainTyped
<1> QED BY <1>1, <1>2, <1>3, WalletSteps
         DEF Rests, TakesLate, OthersMove, Prepares, Constructs, Advances, TakesEffect, Saves, WalksAway

LEMMA StepStoreTyped ==
  ASSUME WalletInv, [Next]_vars
  PROVE  StoreTyped' /\ orphans' \subseteq Transaction /\ IsFiniteSet(orphans')
<1>0. Shape /\ OpTyped /\ StoreTyped /\ orphans \subseteq Transaction /\ IsFiniteSet(orphans)
  BY DEF WalletInv, Shape, NetTyped
<1>1. /\ ToSet(op.tx) \subseteq Transaction /\ IsFiniteSet(ToSet(op.tx))
      /\ ToSet(op.keep) \subseteq Opening /\ IsFiniteSet(ToSet(op.keep))
  BY <1>0, OneTransaction
<1>2. IsFiniteSet(orphans \cup ToSet(op.tx)) /\ IsFiniteSet(abandoned \cup ToSet(op.keep))
  BY <1>0, <1>1, FS_Union DEF StoreTyped
<1>3. orphans' \subseteq orphans \cup ToSet(op.tx) /\ abandoned' \subseteq abandoned \cup ToSet(op.keep)
  BY WalletSteps
     DEF Rests, TakesLate, OthersMove, Prepares, Constructs, Advances, TakesEffect, Saves, WalksAway
<1>4. store' \subseteq store \cup ToSet(op.keep)
  BY WalletSteps
     DEF Rests, TakesLate, OthersMove, Prepares, Constructs, Advances, TakesEffect, Saves, WalksAway, SaveStored
<1>5. screen'.result \in {"none", "ok", "error"}
  <2>0. screen.result \in {"none", "ok", "error"}
    BY <1>0 DEF StoreTyped
  <2>1. CASE UNCHANGED screen
    BY <2>0, <2>1
  <2>2. CASE screen' = Blank
    BY <2>2 DEF Blank
  <2>3. CASE Succeed
    BY <2>3 DEF Succeed, Blank
  <2>4. CASE Fail
    BY <2>4 DEF Fail
  <2>5. CASE Run
    BY <2>1, <2>3, <2>4, <2>5 DEF Run, ReadTree, ScanNotes, PickOne, PickTwo, BuildSpend, ReadFrontier, ReadLeafCount,
                BuildShield, Submit, Confirmed, NotConfirmed
  <2>6. CASE Next /\ ~Run
    BY <2>1, <2>2, <2>4, <2>6 DEF Next, Start, Decline, Include, Expire, GiveUp, CloseTab, IncludeOrphan, ExpireOrphan,
                        OthersShield, Freeze, IngestLeaf, IngestFreeze, Age, tabVars
  <2> QED BY <2>1, <2>5, <2>6 DEF vars, tabVars
<1> QED BY <1>0, <1>1, <1>2, <1>3, <1>4, <1>5, FS_Subset DEF StoreTyped

LEMMA StepShape ==
  ASSUME WalletInv, [Next]_vars
  PROVE  Shape'
<1>0. /\ Shape /\ NetTyped /\ Len(log) \in Nat /\ Len(frozen) \in Nat
      /\ Len(log) <= Len(log') /\ Len(frozen) <= Len(frozen')
      /\ Len(log') \in Nat /\ Len(frozen') \in Nat
  <2>1. Shape /\ log' \in Leaves /\ frozen' \in Leaves
    BY StepChainTyped DEF WalletInv, ChainTyped
  <2>2. NetTyped /\ log \in Leaves /\ frozen \in Leaves
    BY <2>1 DEF Shape, ChainTyped
  <2> QED BY <2>1, <2>2, StepChainTyped, FrozenGrows, LenProperties DEF Leaves
<1>1. /\ source' \in Sources
      /\ {indexed', aged'} \subseteq [leaves : Nat, freezes : Nat]
      /\ {others', faults'} \subseteq Nat
  <2>0. /\ source \in Sources /\ indexed \in [leaves : Nat, freezes : Nat] /\ aged \in [leaves : Nat, freezes : Nat]
        /\ others \in Nat /\ faults \in Nat
    BY <1>0 DEF NetTyped
  <2>1. source' = source
    <3>1. CASE Run
      BY <3>1 DEF Run, ReadTree, ScanNotes, BuildSpend, ReadFrontier, ReadLeafCount,
                BuildShield, Submit, Confirmed, NotConfirmed, netVars
    <3>2. CASE Next /\ ~Run
      BY <3>2 DEF Next, Start, Decline, Include, Expire, GiveUp, CloseTab, IncludeOrphan, ExpireOrphan,
                        OthersShield, Freeze, IngestLeaf, IngestFreeze, Age, netVars
    <3> QED BY <3>1, <3>2 DEF vars, netVars
  <2>2. others' = others \/ others' = others + 1
    <3>1. CASE Run
      BY <3>1 DEF Run, ReadTree, ScanNotes, BuildSpend, ReadFrontier, ReadLeafCount,
                BuildShield, Submit, Confirmed, NotConfirmed, netVars
    <3>2. CASE Next /\ ~Run
      BY <3>2 DEF Next, Start, Decline, Include, Expire, GiveUp, CloseTab, IncludeOrphan, ExpireOrphan,
                        OthersShield, Freeze, IngestLeaf, IngestFreeze, Age, netVars
    <3> QED BY <3>1, <3>2 DEF vars, netVars
  <2>3. faults' = faults \/ faults' = faults + 1
    <3>1. CASE Run
      BY <3>1 DEF Run, ReadTree, ScanNotes, BuildSpend, ReadFrontier, ReadLeafCount,
                BuildShield, Submit, Confirmed, NotConfirmed
    <3>2. CASE Next /\ ~Run
      BY <3>2 DEF Next, Start, Decline, Include, Expire, GiveUp, CloseTab, LetGo, IncludeOrphan, ExpireOrphan,
                        OthersShield, Freeze, IngestLeaf, IngestFreeze, Age
    <3> QED BY <3>1, <3>2 DEF vars
  <2>4. indexed' \in [leaves : Nat, freezes : Nat] /\ aged' \in [leaves : Nat, freezes : Nat]
    <3>1. CASE Run
      BY <2>0, <3>1 DEF Run, ReadTree, ScanNotes, BuildSpend, ReadFrontier, ReadLeafCount,
                BuildShield, Submit, Confirmed, NotConfirmed, netVars
    <3>2. CASE IngestLeaf \/ IngestFreeze
      BY <2>0, <3>2 DEF IngestLeaf, IngestFreeze
    <3>3. CASE Age
      BY <2>0, <3>3 DEF Age
    <3>4. CASE Next /\ ~(Run \/ IngestLeaf \/ IngestFreeze \/ Age)
      BY <2>0, <3>4 DEF Next, Start, Decline, Include, Expire, GiveUp, CloseTab, IncludeOrphan, ExpireOrphan,
                        OthersShield, Freeze, netVars
    <3> QED BY <2>0, <3>1, <3>2, <3>3, <3>4 DEF vars, netVars
  <2> QED BY <2>0, <2>1, <2>2, <2>3, <2>4
<1>2. indexed'.leaves <= Len(log') /\ indexed'.freezes <= Len(frozen')
  <2>0. /\ indexed \in [leaves : Nat, freezes : Nat]
        /\ indexed.leaves <= Len(log) /\ indexed.freezes <= Len(frozen)
    BY <1>0 DEF NetTyped
  <2>1. CASE IngestLeaf
    <3>1. indexed'.leaves = indexed.leaves + 1 /\ indexed'.freezes = indexed.freezes /\ indexed.leaves < Len(log)
      BY <2>0, <2>1 DEF IngestLeaf
    <3>2. indexed.leaves \in Nat /\ indexed.freezes \in Nat
      BY <2>0
    <3> QED BY <1>0, <2>0, <3>1, <3>2
  <2>2. CASE IngestFreeze
    <3>1. indexed'.leaves = indexed.leaves /\ indexed'.freezes = indexed.freezes + 1 /\ indexed.freezes < Len(frozen)
      BY <2>0, <2>2 DEF IngestFreeze
    <3>2. indexed.leaves \in Nat /\ indexed.freezes \in Nat
      BY <2>0
    <3> QED BY <1>0, <2>0, <3>1, <3>2
  <2>3. CASE ~(IngestLeaf \/ IngestFreeze)
    <3>1. indexed' = indexed
      <4>1. CASE Run
        BY <4>1 DEF Run, ReadTree, ScanNotes, BuildSpend, ReadFrontier, ReadLeafCount,
                BuildShield, Submit, Confirmed, NotConfirmed, netVars
      <4>2. CASE Next /\ ~Run
        BY <2>3, <4>2 DEF Next, Start, Decline, Include, Expire, GiveUp, CloseTab, IncludeOrphan, ExpireOrphan,
                        OthersShield, Freeze, Age, netVars
      <4> QED BY <4>1, <4>2 DEF vars, netVars
    <3>2. indexed.leaves \in Nat /\ indexed.freezes \in Nat
      BY <2>0
    <3> QED BY <1>0, <2>0, <3>1, <3>2
  <2> QED BY <2>1, <2>2, <2>3
<1> QED BY <1>1, <1>2, StepChainTyped, StepStoreTyped, WalletSteps DEF Shape, NetTyped

----------------------------------------------------------------------------
(* What the chain keeps.                                                    *)

\* A step appends some notes to the log, or none.
Appended(out) ==
  /\ out \in Leaves
  /\ log \in Leaves /\ log' \in Leaves
  /\ Len(log) \in Nat /\ Len(out) \in Nat
  /\ Len(log') = Len(log) + Len(out)
  /\ DOMAIN log = 1 .. Len(log) /\ DOMAIN log' = 1 .. Len(log')
  /\ \A i \in 1 .. Len(log) : log'[i] = log[i]
  /\ \A i \in 1 .. Len(out) : log'[Len(log) + i] = out[i]
  /\ ToSet(log') = ToSet(log) \cup ToSet(out)

LEMMA ConcatAppended ==
  ASSUME Shape, NEW out \in Leaves, log' = log \o out
  PROVE  Appended(out)
BY LogTyped, ConcatLeaves DEF Appended

LEMMA SameAppended ==
  ASSUME Shape, log' = log
  PROVE  Appended(<< >>)
<1>1. << >> \in Leaves /\ Len(<< >>) = 0 /\ ToSet(<< >>) = {}
  BY DEF Leaves, ToSet
<1>2. log \in Leaves /\ Len(log) \in Nat /\ DOMAIN log = 1 .. Len(log)
  BY LogTyped
<1> QED BY <1>1, <1>2 DEF Appended

LEMMA LogSteps ==
  ASSUME WalletInv, [Next]_vars
  PROVE  \/ /\ UNCHANGED ledger
            /\ Appended(<< >>)
         \/ \E pi \in orphans : TakesLate(pi) /\ Appended(pi.outputs)
         \/ TakesEffect /\ Appended(op.tx[1].outputs)
         \/ \E n \in Note : OthersMove(n) /\ Appended(<<n>>)
<1>0. Shape
  BY DEF WalletInv
<1>1. CASE UNCHANGED ledger
  BY <1>0, <1>1, SameAppended DEF ledger
<1>2. ASSUME NEW pi, Takes(pi) PROVE Appended(pi.outputs)
  <2>1. pi.outputs \in Leaves /\ log' = log \o pi.outputs
    BY <1>2 DEF Takes, Transaction
  <2> QED BY <1>0, <2>1, ConcatAppended
<1>3. ASSUME NEW n, OthersAdd(n) PROVE Appended(<<n>>)
  <2>1. <<n>> \in Leaves /\ log' = log \o <<n>>
    BY <1>0, <1>3, OthersTyped DEF OthersAdd
  <2> QED BY <1>0, <2>1, ConcatAppended
<1> QED BY <1>1, <1>2, <1>3, WalletSteps
         DEF Rests, TakesLate, OthersMove, Prepares, Constructs, Advances, TakesEffect, Saves, WalksAway

\* What was on the log stays where it was.
LEMMA LogKept ==
  ASSUME WalletInv, [Next]_vars
  PROVE  /\ ToSet(log) \subseteq ToSet(log')
         /\ \A i \in Nat : i < Len(log) => i < Len(log') /\ log'[i + 1] = log[i + 1]
<1>1. PICK out : Appended(out)
  BY LogSteps
<1>2. PICK n \in Nat, m \in Nat : n = Len(log) /\ m = Len(out)
  BY <1>1 DEF Appended
<1>3. \A i \in Nat : i < n => i < n + m /\ i + 1 \in 1 .. n
  OBVIOUS
<1>4. Len(log') = n + m /\ \A i \in 1 .. n : log'[i] = log[i]
  BY <1>1, <1>2 DEF Appended
<1> QED BY <1>1, <1>2, <1>3, <1>4 DEF Appended

LEMMA StepOneTree ==
  ASSUME WalletInv, [Next]_vars
  PROVE  OneTree'
<1>1. CASE UNCHANGED ledger
  BY <1>1 DEF WalletInv, OneTree, ledger
<1>2. CASE ~UNCHANGED ledger
  BY <1>2, LogSteps DEF TakesLate, TakesEffect, Takes, OthersMove, OthersAdd
<1> QED BY <1>1, <1>2

LEMMA NullifiersOfAnchored ==
  ASSUME NEW pi, Built(pi)
  PROVE  \A nf \in ToSet(pi.nullifiers) : \E n \in ToSet(pi.anchor) : nf = Nullifier(n)
<1>1. CASE Deposits(pi)
  BY <1>1 DEF Deposits, ToSet
<1>2. CASE Pays(pi)
  <2>1. PICK a \in ToSet(pi.anchor), b \in ToSet(pi.anchor) : pi.nullifiers = <<Nullifier(a), Nullifier(b)>>
    BY <1>2 DEF Pays
  <2>2. ToSet(pi.nullifiers) = {Nullifier(a), Nullifier(b)}
    <3>1. DOMAIN pi.nullifiers = {1, 2} /\ pi.nullifiers[1] = Nullifier(a) /\ pi.nullifiers[2] = Nullifier(b)
      BY <2>1
    <3> QED BY <3>1 DEF ToSet
  <2> QED BY <2>2
<1>3. CASE Redeems(pi)
  <2>1. PICK a \in ToSet(pi.anchor) : pi.nullifiers = <<Nullifier(a)>>
    BY <1>3 DEF Redeems
  <2>2. ToSet(pi.nullifiers) = {Nullifier(a)}
    <3>1. DOMAIN pi.nullifiers = {1} /\ pi.nullifiers[1] = Nullifier(a)
      BY <2>1
    <3> QED BY <3>1 DEF ToSet
  <2> QED BY <2>2
<1> QED BY <1>1, <1>2, <1>3 DEF Built

LEMMA StepSpentLeaves ==
  ASSUME WalletInv, [Next]_vars
  PROVE  SpentLeaves'
<1>0. ToSet(log) \subseteq ToSet(log') /\ nullifiers \subseteq {Nullifier(n) : n \in ToSet(log)}
  BY LogKept DEF WalletInv, SpentLeaves
<1>1. ASSUME NEW pi, Takes(pi) PROVE SpentLeaves'
  <2>1. /\ nullifiers' = nullifiers \cup ToSet(pi.nullifiers)
        /\ Built(pi) /\ (pi.kind # "shield" => pi.anchor = log)
    BY <1>1 DEF Takes
  <2>2. \A nf \in ToSet(pi.nullifiers) : \E n \in ToSet(log) : nf = Nullifier(n)
    <3>1. CASE pi.kind = "shield"
      BY <2>1, <3>1 DEF Built, Deposits, Pays, Redeems, ToSet
    <3>2. CASE pi.kind # "shield"
      BY <2>1, <3>2, NullifiersOfAnchored
    <3> QED BY <3>1, <3>2
  <2> QED BY <1>0, <2>1, <2>2 DEF SpentLeaves
<1>2. CASE UNCHANGED nullifiers
  BY <1>0, <1>2 DEF SpentLeaves
<1> QED BY <1>1, <1>2, LogSteps DEF TakesLate, TakesEffect, OthersMove, OthersAdd, ledger

----------------------------------------------------------------------------
(* What the wallet has sent, and what it keeps of it.                       *)

LEMMA StepAllBuilt ==
  ASSUME WalletInv, [Next]_vars
  PROVE  AllBuilt'
<1>0. AllBuilt /\ OpTyped
  BY DEF WalletInv, Shape
<1>1. CASE orphans' \subseteq Sent /\ (op'.tx = op.tx \/ op'.tx = << >>)
  BY <1>0, <1>1 DEF AllBuilt, Sent, ToSet
<1>2. ASSUME NEW pi \in Transaction, Constructs(pi) PROVE AllBuilt'
  <2>1. op'.tx = <<pi>> /\ Built(pi) /\ orphans' = orphans
    BY <1>2 DEF Constructs, Builds
  <2>2. ToSet(op'.tx) = {pi}
    <3>1. DOMAIN op'.tx = 1 .. 1 /\ op'.tx[1] = pi
      BY <2>1
    <3> QED BY <3>1 DEF ToSet
  <2> QED BY <1>0, <2>1, <2>2 DEF AllBuilt, Sent
<1> QED BY <1>1, <1>2, WalletSteps
         DEF Rests, TakesLate, OthersMove, Prepares, Advances, TakesEffect, Saves, WalksAway, LetsGo, Sent

\* What is kept for a transaction stands where it was predicted.
LEMMA KeptStands ==
  ASSUME NEW pi, Takes(pi), Appended(pi.outputs)
  PROVE  \A l \in ToSet(Keep(pi)) : l.leafIndex < Len(log') /\ log'[l.leafIndex + 1] = l.note
<1>0. Built(pi) /\ pi.pub.nextIndex = Len(log)
  BY DEF Takes
<1>1. PICK n \in Nat, m \in Nat : n = Len(log) /\ m = Len(pi.outputs)
  BY DEF Appended
<1>2. Len(log') = n + m /\ \A i \in 1 .. m : log'[n + i] = pi.outputs[i]
  BY <1>1 DEF Appended
<1>3. CASE Deposits(pi)
  <2>1. m = 1 /\ Keep(pi) = <<[leafIndex |-> n, note |-> pi.outputs[1]]>>
    BY <1>0, <1>1, <1>3 DEF Deposits, Keep
  <2>2. DOMAIN Keep(pi) = 1 .. 1 /\ Keep(pi)[1] = [leafIndex |-> n, note |-> pi.outputs[1]]
    BY <2>1
  <2>3. ToSet(Keep(pi)) = {[leafIndex |-> n, note |-> pi.outputs[1]]}
    BY <2>2 DEF ToSet
  <2>4. n < n + m /\ 1 \in 1 .. m
    BY <2>1
  <2> QED BY <1>2, <2>3, <2>4
<1>4. CASE Pays(pi)
  <2>1. m = 2 /\ Keep(pi) = <<[leafIndex |-> n + 1, note |-> pi.outputs[2]]>>
    BY <1>0, <1>1, <1>4 DEF Pays, Keep
  <2>2. DOMAIN Keep(pi) = 1 .. 1 /\ Keep(pi)[1] = [leafIndex |-> n + 1, note |-> pi.outputs[2]]
    BY <2>1
  <2>3. ToSet(Keep(pi)) = {[leafIndex |-> n + 1, note |-> pi.outputs[2]]}
    BY <2>2 DEF ToSet
  <2>4. n + 1 < n + m /\ 2 \in 1 .. m /\ (n + 1) + 1 = n + 2
    BY <2>1
  <2> QED BY <1>2, <2>3, <2>4
<1>5. CASE Redeems(pi)
  BY <1>5 DEF Redeems, Keep, ToSet
<1> QED BY <1>0, <1>3, <1>4, <1>5 DEF Built

LEMMA StepKeptRight ==
  ASSUME WalletInv, [Next]_vars
  PROVE  KeptRight'
<1>0. KeptRight /\ OpTyped
  BY DEF WalletInv, Shape
<1>1. ASSUME op.status = "success"
      PROVE  \A l \in ToSet(op.keep) : l.leafIndex < Len(log') /\ log'[l.leafIndex + 1] = l.note
  <2>1. \A l \in ToSet(op.keep) : l.leafIndex < Len(log) /\ log[l.leafIndex + 1] = l.note
    BY <1>0, <1>1 DEF KeptRight
  <2>2. \A l \in ToSet(op.keep) : l.leafIndex \in Nat
    BY <1>0, OneTransaction DEF Opening
  <2> QED BY <2>1, <2>2, LogKept
<1>2. CASE op' = op
  BY <1>0, <1>1, <1>2 DEF KeptRight
<1>3. CASE LetsGo
  BY <1>3 DEF LetsGo, KeptRight
<1>4. CASE Advances
  BY <1>0, <1>4 DEF Advances, KeptRight
<1>5. CASE TakesEffect
  <2>1. Takes(op.tx[1]) /\ Appended(op.tx[1].outputs)
    BY <1>5, LogSteps, ConcatAppended DEF TakesEffect, Takes, Transaction, WalletInv
  <2>2. op.keep = Keep(op.tx[1]) /\ op'.keep = op.keep /\ op'.tx = op.tx
    BY <1>0, <1>5 DEF TakesEffect, KeptRight
  <2> QED BY <2>1, <2>2, KeptStands DEF KeptRight
<1>6. ASSUME NEW pi \in Transaction, Constructs(pi) PROVE KeptRight'
  BY <1>6 DEF Constructs, Builds, KeptRight
<1> QED BY <1>2, <1>3, <1>4, <1>5, <1>6, WalletSteps
         DEF Rests, TakesLate, OthersMove, Prepares, Saves, WalksAway

LEMMA StepGivenUp ==
  ASSUME WalletInv, [Next]_vars
  PROVE  GivenUp'
<1>0. GivenUp /\ OpTyped /\ KeptRight
  BY DEF WalletInv, Shape
<1>1. CASE orphans' \subseteq orphans /\ abandoned' = abandoned
  BY <1>0, <1>1 DEF GivenUp
<1>2. CASE WalksAway
  <2>1. ASSUME op.status = "pending"
        PROVE  ToSet(op.tx) = {op.tx[1]} /\ ToSet(Keep(op.tx[1])) \subseteq abandoned'
    BY <1>0, <1>2, <2>1, OneTransaction DEF OpTyped, KeptRight, WalksAway
  <2>2. abandoned \subseteq abandoned' /\ orphans' \subseteq orphans \cup (IF op.status = "pending" THEN ToSet(op.tx) ELSE {})
    BY <1>2 DEF WalksAway
  <2> QED BY <1>0, <2>1, <2>2 DEF GivenUp
<1> QED BY <1>1, <1>2, WalletSteps
         DEF Rests, TakesLate, OthersMove, Prepares, Constructs, Advances, TakesEffect, Saves

----------------------------------------------------------------------------
(* What the wallet stores.                                                  *)

LEMMA StepStoreIndexed ==
  ASSUME WalletInv, [Next]_vars
  PROVE  StoreIndexed'
<1>0. StoreIndexed /\ KeptRight /\ OpTyped /\ store \subseteq Opening /\ ToSet(op.keep) \subseteq Opening
  BY OneTransaction DEF WalletInv, Shape, StoreTyped
<1>1. \A l \in store : l.leafIndex < Len(log') /\ log'[l.leafIndex + 1] = l.note
  BY <1>0, LogKept DEF StoreIndexed, Opening
<1>2. CASE store' = store
  BY <1>1, <1>2 DEF StoreIndexed
<1>3. CASE Saves
  <2>1. store' \subseteq store \cup ToSet(op.keep) /\ op.status = "success"
    BY <1>3 DEF Saves, SaveStored
  <2>2. \A l \in ToSet(op.keep) : l.leafIndex < Len(log) /\ log[l.leafIndex + 1] = l.note
    BY <1>0, <2>1 DEF KeptRight
  <2>3. \A l \in ToSet(op.keep) : l.leafIndex < Len(log') /\ log'[l.leafIndex + 1] = l.note
    BY <1>0, <2>2, LogKept DEF Opening
  <2> QED BY <1>1, <2>1, <2>3 DEF StoreIndexed
<1> QED BY <1>2, <1>3, WalletSteps
         DEF Rests, TakesLate, OthersMove, Prepares, Constructs, Advances, TakesEffect, WalksAway

\* The wallet's own outputs are kept, those of an unshield excepted.
LEMMA OwnOutputsKept ==
  ASSUME NEW pi, Built(pi), pi.outputs \in Leaves, NEW n \in ToSet(pi.outputs), n.owner = Me
  PROVE  pi.kind = "unshield" \/ \E l \in ToSet(Keep(pi)) : l.note = n
<1>1. PICK i \in 1 .. Len(pi.outputs) : n = pi.outputs[i]
  BY LenProperties DEF ToSet, Leaves
<1>2. CASE Deposits(pi)
  <2>1. n = pi.outputs[1]
    BY <1>1, <1>2 DEF Deposits
  <2>2. DOMAIN Keep(pi) = 1 .. 1 /\ Keep(pi)[1] = [leafIndex |-> pi.pub.nextIndex, note |-> pi.outputs[1]]
    BY <1>2 DEF Deposits, Keep
  <2> QED BY <2>1, <2>2 DEF ToSet
<1>3. CASE Pays(pi)
  <2>1. n = pi.outputs[2]
    <3>1. i \in 1 .. 2 /\ pi.outputs[1].owner = Bank /\ Bank # Me
      BY <1>1, <1>3, Constants DEF Pays
    <3> QED BY <1>1, <3>1
  <2>2. DOMAIN Keep(pi) = 1 .. 1 /\ Keep(pi)[1] = [leafIndex |-> pi.pub.nextIndex + 1, note |-> pi.outputs[2]]
    BY <1>3 DEF Pays, Keep
  <2> QED BY <2>1, <2>2 DEF ToSet
<1> QED BY <1>2, <1>3 DEF Built, Redeems

LEMMA StepOpeningsHeld ==
  ASSUME WalletInv, [Next]_vars
  PROVE  OpeningsHeld'
<1>0. /\ OpeningsHeld /\ StoreIndexed /\ KeptRight /\ GivenUp /\ OpTyped /\ Shape
      /\ op.keep \in Seq(Opening) /\ DOMAIN op.keep = 1 .. Len(op.keep)
  BY LenProperties DEF WalletInv, Shape, OpTyped, Operation
<1>1. ASSUME NEW n \in OwnNotes
      PROVE  \/ n \in Stored'
             \/ op'.status = "success" /\ \E i \in DOMAIN op'.keep : op'.keep[i].note = n
             \/ \E l \in abandoned' : l.note = n
             \/ n \in returned'
  <2>1. \/ n \in Stored
        \/ op.status = "success" /\ \E i \in DOMAIN op.keep : op.keep[i].note = n
        \/ \E l \in abandoned : l.note = n
        \/ n \in returned
    BY <1>0 DEF OpeningsHeld
  <2>2. abandoned \subseteq abandoned' /\ returned \subseteq returned'
    BY WalletSteps
       DEF Rests, TakesLate, OthersMove, OthersAdd, Prepares, Constructs, Advances, TakesEffect, Saves, WalksAway,
           ledger, Takes, Record
  <2>3. CASE n \in Stored
    <3>1. CASE store' = store
      BY <2>3, <3>1 DEF Stored
    <3>2. CASE Saves
      <4>1. PICK l \in store : l.note = n
        BY <2>3 DEF Stored
      <4>2. CASE \A i \in DOMAIN op.keep : op.keep[i].leafIndex # l.leafIndex
        BY <3>2, <4>1, <4>2 DEF Saves, SaveStored, Stored
      <4>3. ASSUME NEW i \in DOMAIN op.keep, op.keep[i].leafIndex = l.leafIndex
            PROVE  n \in Stored'
        <5>1. op.keep[i] \in ToSet(op.keep) /\ op.status = "success"
          BY <3>2 DEF ToSet, Saves
        <5>2. log[l.leafIndex + 1] = op.keep[i].note /\ log[l.leafIndex + 1] = l.note
          BY <1>0, <4>3, <5>1 DEF KeptRight, StoreIndexed
        <5>3. op.keep[i] \in store'
          BY <3>2, <5>1 DEF Saves, SaveStored
        <5> QED BY <4>1, <5>2, <5>3 DEF Stored
      <4> QED BY <4>2, <4>3
    <3> QED BY <3>1, <3>2, WalletSteps
            DEF Rests, TakesLate, OthersMove, Prepares, Constructs, Advances, TakesEffect, WalksAway
  <2>4. ASSUME op.status = "success", NEW i \in DOMAIN op.keep, op.keep[i].note = n
        PROVE  \/ n \in Stored'
               \/ op'.status = "success" /\ \E j \in DOMAIN op'.keep : op'.keep[j].note = n
               \/ \E l \in abandoned' : l.note = n
    <3>1. op.pc = "poll" /\ op.keep[i] \in ToSet(op.keep)
      BY <1>0, <2>4 DEF OpTyped, ToSet
    <3>2. CASE op' = op
      BY <2>4, <3>2
    <3>3. CASE Saves
      BY <2>4, <3>1, <3>3 DEF Saves, SaveStored, Stored
    <3>4. CASE WalksAway
      BY <2>4, <3>1, <3>4 DEF WalksAway
    <3> QED BY <2>4, <3>2, <3>3, <3>4, WalletSteps
            DEF Rests, TakesLate, OthersMove, Prepares, Constructs, Builds, Advances, TakesEffect
  <2> QED BY <2>1, <2>2, <2>3, <2>4
<1>2. ASSUME NEW n \in OwnNotes', n \notin OwnNotes
      PROVE  \/ op'.status = "success" /\ \E i \in DOMAIN op'.keep : op'.keep[i].note = n
             \/ \E l \in abandoned' : l.note = n
             \/ n \in returned'
  <2>1. n \in ToSet(log') \ ToSet(log) /\ n.owner = Me
    BY <1>2 DEF OwnNotes
  <2>2. ASSUME NEW pi \in orphans, TakesLate(pi), Appended(pi.outputs)
        PROVE  (\E l \in abandoned' : l.note = n) \/ n \in returned'
    <3>1. n \in ToSet(pi.outputs) /\ pi.outputs \in Leaves /\ Built(pi) /\ abandoned' = abandoned
      BY <2>1, <2>2 DEF Appended, TakesLate, Takes
    <3>2. CASE pi.kind = "unshield"
      BY <2>2, <3>1, <3>2 DEF TakesLate, Takes, Record
    <3>3. CASE pi.kind # "unshield"
      <4>1. PICK l \in ToSet(Keep(pi)) : l.note = n
        BY <2>1, <3>1, <3>3, OwnOutputsKept
      <4> QED BY <1>0, <3>1, <4>1 DEF GivenUp
    <3> QED BY <3>2, <3>3
  <2>3. ASSUME TakesEffect, Appended(op.tx[1].outputs)
        PROVE  \/ op'.status = "success" /\ \E i \in DOMAIN op'.keep : op'.keep[i].note = n
               \/ n \in returned'
    <3> DEFINE pi == op.tx[1]
    <3>1. n \in ToSet(pi.outputs) /\ pi.outputs \in Leaves /\ Built(pi)
          /\ op'.status = "success" /\ op'.keep = Keep(pi)
      BY <1>0, <2>1, <2>3 DEF Appended, TakesEffect, Takes, KeptRight
    <3>2. CASE pi.kind = "unshield"
      BY <2>3, <3>1, <3>2 DEF TakesEffect, Takes, Record
    <3>3. CASE pi.kind # "unshield"
      <4>1. PICK l \in ToSet(Keep(pi)) : l.note = n
        <5> HIDE DEF pi
        <5> QED BY <2>1, <3>1, <3>3, OwnOutputsKept
      <4> QED BY <3>1, <4>1 DEF ToSet
    <3> QED BY <3>2, <3>3
  <2>4. ASSUME NEW m \in Note, OthersMove(m), Appended(<<m>>) PROVE FALSE
    <3>1. n = m
      BY <1>0, <2>1, <2>4, OthersTyped DEF Appended, OthersMove
    <3> QED BY <2>1, <2>4, <3>1, Constants DEF OthersMove, OthersAdd
  <2>5. CASE UNCHANGED ledger
    BY <2>1, <2>5 DEF ledger
  <2> QED BY <2>2, <2>3, <2>4, <2>5, LogSteps
<1>3. ASSUME NEW n \in OwnNotes'
      PROVE  \/ n \in Stored'
             \/ op'.status = "success" /\ \E i \in DOMAIN op'.keep : op'.keep[i].note = n
             \/ \E l \in abandoned' : l.note = n
             \/ n \in returned'
  BY <1>1, <1>2
<1> QED BY <1>3 DEF OpeningsHeld

----------------------------------------------------------------------------
(* Every rho is used once.                                                 *)

LEMMA NewOutputsApart ==
  ASSUME NEW pi, NewOutputs(pi)
  PROVE  /\ Apart(ToSet(pi.outputs), ToSet(log))
         /\ \A qi \in Sent : Apart(ToSet(pi.outputs), ToSet(qi.outputs))
<1>1. /\ ToSet(log) \subseteq Sampled
      /\ \A qi \in Sent : ToSet(qi.outputs) \subseteq Sampled
  BY DEF Sampled, Sent
<1> QED BY <1>1 DEF NewOutputs, Apart

\* The outputs of one transaction have different rhos.
LEMMA OutputsApart ==
  ASSUME NEW pi, Built(pi)
  PROVE  \A i, j \in 1 .. Len(pi.outputs) : pi.outputs[i].rho = pi.outputs[j].rho => i = j
<1>1. CASE Deposits(pi) \/ Redeems(pi)
  <2>1. Len(<< >>) = 0
    OBVIOUS
  <2>2. PICK m \in {0, 1} : m = Len(pi.outputs)
    BY <1>1, <2>1 DEF Deposits, Redeems
  <2>3. \A i, j \in 1 .. m : i = j
    OBVIOUS
  <2> QED BY <2>2, <2>3
<1>2. CASE Pays(pi)
  <2>1. /\ \A i \in 1 .. Len(pi.outputs) : i \in {1, 2}
        /\ pi.outputs[1].rho # pi.outputs[2].rho
    BY <1>2 DEF Pays
  <2> QED BY <2>1
<1> QED BY <1>1, <1>2 DEF Built

LEMMA AppendedDistinct ==
  ASSUME NEW out, Appended(out), Apart(ToSet(out), ToSet(log)),
         \A i, j \in 1 .. Len(log) : log[i].rho = log[j].rho => i = j,
         \A i, j \in 1 .. Len(out) : out[i].rho = out[j].rho => i = j
  PROVE  \A i, j \in 1 .. Len(log') : log'[i].rho = log'[j].rho => i = j
<1>1. PICK n \in Nat, m \in Nat : n = Len(log) /\ m = Len(out)
  BY DEF Appended
<1>2. /\ Len(log') = n + m
      /\ \A i \in 1 .. n : log'[i] = log[i]
      /\ \A i \in 1 .. m : log'[n + i] = out[i]
  BY <1>1 DEF Appended
<1>3. \A i \in 1 .. n + m : i \in 1 .. n \/ (i - n \in 1 .. m /\ n + (i - n) = i)
  OBVIOUS
<1>4. (\A i \in 1 .. n : log[i] \in ToSet(log)) /\ (\A i \in 1 .. m : out[i] \in ToSet(out))
  <2>1. DOMAIN log = 1 .. n /\ DOMAIN out = 1 .. m
    BY <1>1, LenProperties DEF Appended, Leaves
  <2> QED BY <2>1 DEF ToSet
<1>5. ASSUME NEW i \in 1 .. n + m, NEW j \in 1 .. n + m, log'[i].rho = log'[j].rho
      PROVE  i = j
  <2>1. CASE i \in 1 .. n /\ j \in 1 .. n
    BY <1>1, <1>2, <1>5, <2>1
  <2>2. CASE i - n \in 1 .. m /\ n + (i - n) = i /\ j - n \in 1 .. m /\ n + (j - n) = j
    <3>1. log'[i] = out[i - n] /\ log'[j] = out[j - n]
      BY <1>2, <2>2
    <3>2. i - n = j - n
      BY <1>1, <1>5, <2>2, <3>1
    <3> QED BY <3>2
  <2>3. ASSUME NEW k \in 1 .. n, NEW l \in 1 .. n + m, l - n \in 1 .. m, n + (l - n) = l
        PROVE  log'[k].rho # log'[l].rho
    <3>1. log'[k] = log[k] /\ log'[l] = out[l - n]
      BY <1>2, <2>3
    <3> QED BY <1>4, <2>3, <3>1 DEF Apart
  <2> QED BY <1>3, <1>5, <2>1, <2>2, <2>3
<1> QED BY <1>2, <1>5

LEMMA StepFresh ==
  ASSUME WalletInv, [Next]_vars
  PROVE  Fresh'
<1>0. Fresh /\ OpTyped /\ AllBuilt /\ Shape
  BY DEF WalletInv, Shape
<1>1. CASE UNCHANGED ledger /\ orphans' \subseteq orphans /\ (op' = op \/ LetsGo)
  <2>1. Waiting' \subseteq Waiting
    BY <1>1 DEF Waiting, LetsGo, ToSet
  <2> QED BY <1>0, <1>1, <2>1 DEF Fresh, ledger
<1>2. CASE Advances
  <2>1. Waiting' \subseteq Waiting
    BY <1>2 DEF Waiting, Advances
  <2> QED BY <1>0, <1>2, <2>1 DEF Fresh, ledger, Advances
<1>3. ASSUME NEW pi \in Transaction, Constructs(pi) PROVE Fresh'
  <2>1. /\ op'.tx = <<pi>> /\ op'.status = "none" /\ NewOutputs(pi)
        /\ UNCHANGED <<ledger, orphans>>
    BY <1>3 DEF Constructs, Builds
  <2>2. Waiting' = {pi}
    <3>1. DOMAIN op'.tx = 1 .. 1 /\ op'.tx[1] = pi
      BY <2>1
    <3> QED BY <2>1, <3>1 DEF Waiting, ToSet
  <2>3. /\ Apart(ToSet(pi.outputs), ToSet(log))
        /\ \A qi \in orphans : Apart(ToSet(pi.outputs), ToSet(qi.outputs))
    BY <2>1, NewOutputsApart DEF Sent
  <2> QED BY <1>0, <2>1, <2>2, <2>3 DEF Fresh, ledger
<1>4. CASE WalksAway
  <2>1. /\ op'.tx = << >> /\ op'.status = "none" /\ UNCHANGED ledger
        /\ orphans' \subseteq orphans \cup Waiting
    BY <1>4 DEF WalksAway, LetsGo, Waiting
  <2>2. Waiting' = {}
    BY <2>1 DEF Waiting, ToSet
  <2>3. ASSUME NEW pi \in Waiting, NEW qi \in Waiting PROVE pi = qi
    BY <1>0, <2>3, OneTransaction DEF Waiting
  <2>4. \A s, t : Apart(s, t) => Apart(t, s)
    BY DEF Apart
  <2>5. ASSUME NEW pi \in orphans', NEW qi \in orphans', pi # qi
        PROVE  Apart(ToSet(pi.outputs), ToSet(qi.outputs))
    <3>1. CASE pi \in orphans /\ qi \in orphans
      BY <1>0, <2>5, <3>1 DEF Fresh
    <3>2. CASE pi \in Waiting /\ qi \in orphans
      BY <1>0, <3>2 DEF Fresh
    <3>3. CASE pi \in orphans /\ qi \in Waiting
      BY <1>0, <2>4, <3>3 DEF Fresh
    <3> QED BY <2>1, <2>3, <2>5, <3>1, <3>2, <3>3
  <2> QED BY <1>0, <2>1, <2>2, <2>5 DEF Fresh, ledger
<1>5. ASSUME NEW pi \in orphans, TakesLate(pi), Appended(pi.outputs) PROVE Fresh'
  <2>1. /\ Built(pi) /\ orphans' = orphans \ {pi} /\ op' = op
        /\ ToSet(log') = ToSet(log) \cup ToSet(pi.outputs)
    BY <1>5 DEF TakesLate, Takes, Appended
  <2>2. Apart(ToSet(pi.outputs), ToSet(log))
    BY <1>0 DEF Fresh
  <2>3. \A i, j \in 1 .. Len(log') : log'[i].rho = log'[j].rho => i = j
    BY <1>0, <1>5, <2>1, <2>2, OutputsApart, AppendedDistinct DEF Fresh
  <2>4. \A qi \in orphans' \cup Waiting' : Apart(ToSet(qi.outputs), ToSet(log)) /\ Apart(ToSet(qi.outputs), ToSet(pi.outputs))
    BY <1>0, <2>1 DEF Fresh, Waiting
  <2>5. \A qi \in orphans' \cup Waiting' : Apart(ToSet(qi.outputs), ToSet(log'))
    BY <2>1, <2>4 DEF Apart
  <2> QED BY <1>0, <2>1, <2>3, <2>5 DEF Fresh, Waiting
<1>6. ASSUME TakesEffect, Appended(op.tx[1].outputs) PROVE Fresh'
  <2> DEFINE pi == op.tx[1]
  <2>1. /\ Built(pi) /\ orphans' = orphans /\ op'.status = "success" /\ op.status = "pending"
        /\ ToSet(log') = ToSet(log) \cup ToSet(pi.outputs)
        /\ pi \in Waiting
    BY <1>0, <1>6, OneTransaction DEF TakesEffect, Takes, Appended, Waiting
  <2>2. Waiting' = {}
    BY <2>1 DEF Waiting
  <2>3. Apart(ToSet(pi.outputs), ToSet(log)) /\ \A qi \in orphans : Apart(ToSet(pi.outputs), ToSet(qi.outputs))
    BY <1>0, <2>1 DEF Fresh
  <2> HIDE DEF pi
  <2>4. \A i, j \in 1 .. Len(log') : log'[i].rho = log'[j].rho => i = j
    BY <1>0, <1>6, <2>1, <2>3, OutputsApart, AppendedDistinct DEF Fresh, pi
  <2>5. \A qi \in orphans : Apart(ToSet(qi.outputs), ToSet(log'))
    BY <1>0, <2>1, <2>3 DEF Apart, Fresh
  <2> QED BY <1>0, <2>1, <2>2, <2>4, <2>5 DEF Fresh
<1>7. ASSUME NEW n \in Note, OthersMove(n), Appended(<<n>>) PROVE Fresh'
  <2>1. /\ orphans' = orphans /\ op' = op
        /\ ToSet(log') = ToSet(log) \cup {n} /\ Len(<<n>>) = 1 /\ ToSet(<<n>>) = {n}
        /\ \A m \in Sampled : m.rho # n.rho
    BY <1>0, <1>7, OthersTyped DEF OthersMove, OthersAdd, Appended
  <2>2. /\ ToSet(log) \subseteq Sampled
        /\ \A qi \in orphans \cup Waiting : ToSet(qi.outputs) \subseteq Sampled
    BY DEF Sampled, Waiting
  <2>3. /\ Apart(ToSet(<<n>>), ToSet(log))
        /\ \A qi \in orphans \cup Waiting : Apart(ToSet(qi.outputs), {n})
    BY <2>1, <2>2 DEF Apart
  <2>4. \A i, j \in 1 .. Len(<<n>>) : i = j
    BY <2>1
  <2>5. \A i, j \in 1 .. Len(log') : log'[i].rho = log'[j].rho => i = j
    BY <1>0, <1>7, <2>3, <2>4, AppendedDistinct DEF Fresh
  <2>6. \A qi \in orphans \cup Waiting : Apart(ToSet(qi.outputs), ToSet(log'))
    BY <1>0, <2>1, <2>3 DEF Apart, Fresh
  <2> QED BY <1>0, <2>1, <2>5, <2>6 DEF Fresh, Waiting
<1>8. \/ UNCHANGED ledger
      \/ \E pi \in orphans : TakesLate(pi) /\ Appended(pi.outputs)
      \/ TakesEffect /\ Appended(op.tx[1].outputs)
      \/ \E n \in Note : OthersMove(n) /\ Appended(<<n>>)
  BY LogSteps
<1>9. CASE UNCHANGED ledger
  <2>1. \/ orphans' \subseteq orphans /\ (op' = op \/ LetsGo)
        \/ Advances
        \/ \E pi \in Transaction : Constructs(pi)
        \/ WalksAway
        \/ TakesEffect
    BY WalletSteps DEF Rests, TakesLate, OthersMove, Prepares, Saves
  <2>2. CASE TakesEffect
    <3>1. Appended(op.tx[1].outputs)
      BY <1>0, <2>2, ConcatAppended DEF TakesEffect, Takes, Transaction
    <3> QED BY <1>6, <2>2, <3>1
  <2> QED BY <1>1, <1>2, <1>3, <1>4, <1>9, <2>1, <2>2
<1> QED BY <1>5, <1>6, <1>7, <1>8, <1>9

----------------------------------------------------------------------------
(* What the wallet picks.                                                  *)

\* The known openings are those of different leaves, all of them the wallet's.
LEMMA KnownOnLog ==
  ASSUME Shape, OneTree, StoreIndexed
  PROVE  \A l \in KnownOpenings :
           l.leafIndex \in Nat /\ l.leafIndex + 1 \in 1 .. Len(log) /\ log[l.leafIndex + 1] = l.note /\ l.note.owner = Me
<1>0. Len(log) \in Nat /\ Len(Seeds) \in Nat /\ DOMAIN Seeds = 1 .. Len(Seeds) /\ Len(Seeds) <= Len(log)
  BY LogTyped, Constants, LenProperties DEF Leaves, OneTree
<1>1. ASSUME NEW l \in store
      PROVE  l.leafIndex \in Nat /\ l.leafIndex + 1 \in 1 .. Len(log) /\ log[l.leafIndex + 1] = l.note
  <2>1. l.leafIndex \in Nat /\ l.leafIndex < Len(log) /\ log[l.leafIndex + 1] = l.note
    BY <1>1 DEF StoreIndexed, Shape, StoreTyped, Opening
  <2> QED BY <1>0, <2>1
<1>2. ASSUME NEW i \in DOMAIN Seeds
      PROVE  i - 1 \in Nat /\ (i - 1) + 1 \in 1 .. Len(log) /\ log[(i - 1) + 1] = Seeds[i]
  <2>1. i \in 1 .. Len(Seeds) /\ log[i] = Seeds[i]
    BY <1>0 DEF OneTree
  <2>2. (i - 1) + 1 = i /\ i - 1 \in Nat /\ i \in 1 .. Len(log)
    BY <1>0, <2>1
  <2> QED BY <2>1, <2>2
<1> QED BY <1>1, <1>2 DEF KnownOpenings

LEMMA SpendableOwn ==
  ASSUME Shape, OneTree, Fresh, StoreIndexed, NEW view
  PROVE  LET notes == SpendableNotes(view)
         IN  /\ Distinct(notes)
             /\ \A k \in 1 .. Len(notes) : notes[k].owner = Me
<1>1. AllLiveNotes \in Seq(Note)
  BY LiveNotes
<1>2. PICK at \in Seq(Nat) :
         /\ Len(at) = Len(AllLiveNotes) /\ Distinct(at)
         /\ \A k \in 1 .. Len(at) :
              \E l \in KnownOpenings : l.leafIndex = at[k] /\ l.note = AllLiveNotes[k]
  BY LiveNotes
<1>3. \A k \in 1 .. Len(at) : /\ at[k] \in Nat /\ at[k] + 1 \in 1 .. Len(log)
                              /\ log[at[k] + 1] = AllLiveNotes[k] /\ AllLiveNotes[k].owner = Me
  BY <1>2, KnownOnLog
<1>4. Distinct(AllLiveNotes)
  <2>1. ASSUME NEW i \in 1 .. Len(at), NEW j \in 1 .. Len(at), AllLiveNotes[i] = AllLiveNotes[j]
        PROVE  i = j
    <3>1. /\ at[i] \in Nat /\ at[i] + 1 \in 1 .. Len(log)
          /\ at[j] \in Nat /\ at[j] + 1 \in 1 .. Len(log)
          /\ log[at[i] + 1] = log[at[j] + 1]
      BY <1>3, <2>1
    <3>2. \A k, l \in 1 .. Len(log) : log[k] = log[l] => k = l
      BY DEF Fresh
    <3>3. at[i] + 1 = at[j] + 1
      BY <3>1, <3>2
    <3>4. at[i] = at[j]
      BY <3>1, <3>3
    <3> QED BY <1>2, <3>4 DEF Distinct
  <2> QED BY <1>2, <2>1 DEF Distinct
<1> DEFINE T == {n \in ToSet(view) : ~IsNullifierUsed(Nullifier(n))}
           notes == Filter(AllLiveNotes, T)
<1>5. FilteredPrefix(notes, AllLiveNotes, T, Note, Len(AllLiveNotes))
  <2> HIDE DEF T
  <2> QED BY <1>1, FilterProperties
<1>6. Distinct(notes) /\ \A k \in 1 .. Len(notes) : \E j \in 1 .. Len(AllLiveNotes) : notes[k] = AllLiveNotes[j]
  <2> HIDE DEF T, notes
  <2> QED BY <1>4, <1>5 DEF FilteredPrefix
<1> HIDE DEF notes
<1>7. \A k \in 1 .. Len(notes) : notes[k].owner = Me
  BY <1>2, <1>3, <1>6
<1> QED BY <1>6, <1>7 DEF notes, SpendableNotes

LEMMA StepPicked ==
  ASSUME WalletInv, [Next]_vars
  PROVE  Picked'
<1>0. Picked /\ Shape /\ OneTree /\ Fresh /\ StoreIndexed /\ OpTyped
  BY DEF WalletInv, Shape
<1>1. CASE op' = op
  BY <1>0, <1>1 DEF Picked
<1>2. CASE Asks
  <2>1. CASE op' = Idle
    BY <2>1, IdleTyped DEF Picked
  <2>2. CASE op'.pc # "frozen" /\ op'.amount \in Amounts
    BY <2>2 DEF Picked
  <2>3. CASE op'.pc = "frozen" /\ op'.amount \in Amounts /\ Picks
    <3> DEFINE notes == SpendableNotes(op.view)
    <3>1. /\ Distinct(notes)
          /\ \A k \in 1 .. Len(notes) : notes[k].owner = Me
          /\ notes \in Seq(Note) /\ Len(notes) \in Nat
      BY <1>0, SpendableOwn, SpendableTyped
    <3>2. CASE op.kind = "unshield" /\ Len(notes) >= 1 /\ op'.picked = <<notes[1]>>
      <4> HIDE DEF notes
      <4>1. notes[1].owner = Me
        <5>1. 1 \in 1 .. Len(notes)
          BY <3>1, <3>2
        <5> QED BY <3>1, <5>1
      <4>2. DOMAIN op'.picked = 1 .. 1 /\ op'.picked[1] = notes[1] /\ Len(op'.picked) = 1
        BY <3>2
      <4>3. op'.kind = "unshield"
        BY <2>3, <3>2 DEF Picks
      <4> QED BY <2>3, <4>1, <4>2, <4>3 DEF Picked
    <3>3. CASE op.kind # "unshield" /\ \E i, j \in 1 .. Len(notes) : i # j /\ op'.picked = <<notes[i], notes[j]>>
      <4> HIDE DEF notes
      <4>1. PICK i, j \in 1 .. Len(notes) : i # j /\ op'.picked = <<notes[i], notes[j]>>
        BY <3>3
      <4>2. notes[i] # notes[j] /\ notes[i].owner = Me /\ notes[j].owner = Me
        BY <3>1, <4>1 DEF Distinct
      <4>3. /\ DOMAIN op'.picked = {1, 2} /\ Len(op'.picked) = 2
            /\ op'.picked[1] = notes[i] /\ op'.picked[2] = notes[j]
        BY <4>1
      <4>4. op'.kind # "unshield"
        BY <2>3, <3>3 DEF Picks
      <4> QED BY <2>3, <4>2, <4>3, <4>4 DEF Picked
    <3> QED BY <2>3, <3>2, <3>3 DEF Picks
  <2> QED BY <1>2, <2>1, <2>2, <2>3 DEF Asks
<1>3. ASSUME NEW pi \in Transaction, Constructs(pi) PROVE Picked'
  BY <1>0, <1>3 DEF Constructs, Builds, Picked
<1>4. CASE Advances \/ TakesEffect
  <2>1. op.pc # "idle"
    BY <1>0, <1>4 DEF Advances, TakesEffect, OpTyped
  <2> QED BY <1>0, <1>4, <2>1 DEF Advances, TakesEffect, Picked
<1>5. CASE WalksAway
  BY <1>5, IdleTyped DEF WalksAway, Picked
<1> QED BY <1>1, <1>2, <1>3, <1>4, <1>5, WalletSteps
         DEF Rests, TakesLate, OthersMove, Prepares, Saves

----------------------------------------------------------------------------
LEMMA InitInv == Init => WalletInv
<1> SUFFICES ASSUME Init PROVE WalletInv
  OBVIOUS
<1>1. /\ op = Idle /\ op \in Operation /\ op.pc = "idle" /\ op.tx = << >> /\ op.status = "none" /\ op.keep = << >>
  BY IdleTyped DEF Init
<1>2. Seeds \in Leaves /\ Len(Seeds) \in Nat /\ DOMAIN Seeds = 1 .. Len(Seeds)
  BY Constants, LenProperties DEF Leaves
<1>3. ToSet(op.tx) = {}
  BY <1>1 DEF ToSet
<1>4. Shape
  <2>1. ChainTyped
    <3>1. << >> \in Leaves /\ <<Seeds>> \in Seq(Leaves)
      BY <1>2 DEF Leaves
    <3> QED BY <1>2, <3>1 DEF Init, ChainTyped, TreeState
  <2>2. NetTyped
    <3>1. IsFiniteSet({}) /\ Len(<< >>) = 0
      BY FS_EmptySet
    <3> QED BY <1>2, <3>1 DEF Init, NetTyped
  <2>3. StoreTyped
    BY FS_EmptySet DEF Init, StoreTyped, Blank
  <2>4. OpTyped
    BY <1>1 DEF OpTyped
  <2> QED BY <2>1, <2>2, <2>3, <2>4 DEF Shape
<1>5. OneTree
  BY <1>2 DEF Init, OneTree
<1>6. SpentLeaves /\ AllBuilt /\ KeptRight /\ GivenUp /\ Picked /\ StoreIndexed
  BY <1>1, <1>3 DEF Init, SpentLeaves, AllBuilt, Sent, KeptRight, GivenUp, Picked, StoreIndexed
<1>7. Fresh
  <2>1. \A i, j \in 1 .. Len(Seeds) : Seeds[i].rho = Seeds[j].rho => i = j
    BY <1>2, WalletAssumption
  <2> QED BY <1>3, <2>1 DEF Init, Fresh, Waiting
<1>8. OpeningsHeld
  BY DEF Init, OpeningsHeld, OwnNotes
<1> QED BY <1>4, <1>5, <1>6, <1>7, <1>8 DEF WalletInv

LEMMA StepInv == WalletInv /\ [Next]_vars => WalletInv'
BY StepShape, StepOneTree, StepSpentLeaves, StepAllBuilt, StepKeptRight, StepGivenUp, StepFresh, StepPicked,
   StepStoreIndexed, StepOpeningsHeld DEF WalletInv

\* The invariant holds in every reachable state, whatever the requests, the
\* seeds and the way the chain is read.
THEOREM WalletInvariant == Spec => []WalletInv
BY InitInv, StepInv, PTL DEF Spec

\* Every variable keeps its type.
THEOREM WalletTypeCorrect == Spec => []TypeOK
BY WalletInvariant, ShapeTypes, PTL DEF WalletInv

\* Every opening in localStorage opens the leaf whose index it is stored under,
\* although the index was predicted before the proof was made.
THEOREM OpeningsIndexed == Spec => []StoreIndexed
<1>1. WalletInv => StoreIndexed
  BY DEF WalletInv
<1> QED BY <1>1, WalletInvariant, PTL

\* No note of the wallet's gets lost but those of unshields and of transactions it
\* stopped waiting for.
THEOREM OpeningsNotLost == Spec => []OpeningsHeld
<1>1. WalletInv => OpeningsHeld
  BY DEF WalletInv
<1> QED BY <1>1, WalletInvariant, PTL

\* A transaction that waits is refused only when the frontier, the leaf count, the
\* frozen set or its note's nullifier has moved; its anchor never expires first.
THEOREM RefusalsAreStale == Spec => []RefusedOnlyIfStale
<1>1. WalletInv => RefusedOnlyIfStale
  <2> SUFFICES ASSUME WalletInv, NEW pi \in Sent,
                      pi.pub.frontier = tree.frontier, pi.pub.nextIndex = tree.leafCount,
                      pi.kind # "shield" => pi.pub.frozen = ToSet(frozen),
                      \A i \in DOMAIN pi.nullifiers : pi.nullifiers[i] \notin nullifiers
               PROVE  Accepts(pi)
    BY DEF RefusedOnlyIfStale, Sent
  <2>1. ASSUME pi.kind # "shield" PROVE IsRecentRoot(tree, pi.anchor)
    <3>1. Built(pi) /\ OneTree /\ tree.recentRoots \in Seq(Leaves)
      BY DEF WalletInv, AllBuilt, Shape, ChainTyped, TreeState
    <3>2. pi.anchor = tree.recentRoots[Len(tree.recentRoots)]
      BY <2>1, <3>1 DEF Built, OneTree
    <3>3. Len(tree.recentRoots) \in DOMAIN tree.recentRoots
      <4>1. Len(tree.recentRoots) \in Nat /\ DOMAIN tree.recentRoots = 1 .. Len(tree.recentRoots)
        BY <3>1, LenProperties
      <4>2. \A n \in Nat : n >= 1 => n \in 1 .. n
        OBVIOUS
      <4> QED BY <3>1, <4>1, <4>2 DEF OneTree
    <3> QED BY <3>2, <3>3 DEF IsRecentRoot
  <2> QED BY <2>1 DEF Accepts, CheckOldFrontier, CheckNextIndex
<1> QED BY <1>1, WalletInvariant, PTL

----------------------------------------------------------------------------
(* The wallet implements the purse.                                         *)

\* What the wallet can spend, and what the bank was paid.
Unspent == {n \in ToSet(log) : n.owner = Me /\ Nullifier(n) \notin nullifiers}
Banked == {n \in ToSet(log) : n.owner = Bank}

LEMMA ValueOfAdd ==
  ASSUME NEW S \in SUBSET Note, IsFiniteSet(S), NEW n \in Note, n \notin S
  PROVE  ValueOf(S \cup {n}) = n.value + ValueOf(S)
<1> DEFINE T == S \cup {n}
<1>1. T \in SUBSET Note /\ IsFiniteSet(T) /\ n \in T /\ T \ {n} = S
  BY FS_AddElement
<1> HIDE DEF T
<1>2. ValueOf(T) = n.value + ValueOf(T \ {n})
  BY <1>1, ValueOfSplit
<1> QED BY <1>1, <1>2 DEF T

LEMMA PurseTyped ==
  ASSUME Shape
  PROVE  /\ Unspent \in SUBSET Note /\ IsFiniteSet(Unspent) /\ ValueOf(Unspent) \in Nat
         /\ Banked \in SUBSET Note /\ IsFiniteSet(Banked) /\ ValueOf(Banked) \in Nat
<1>1. ToSet(log) \subseteq Note /\ IsFiniteSet(ToSet(log))
  BY ElementsFinite DEF Shape, ChainTyped, Leaves
<1>2. Unspent \subseteq ToSet(log) /\ Banked \subseteq ToSet(log)
  BY DEF Unspent, Banked
<1>3. Unspent \in SUBSET Note /\ IsFiniteSet(Unspent) /\ Banked \in SUBSET Note /\ IsFiniteSet(Banked)
  BY <1>1, <1>2, FS_Subset
<1> QED BY <1>3, ValueOfType

\* Different leaves have different nullifiers.
LEMMA LeavesTold ==
  ASSUME Shape, Fresh
  PROVE  \A n, m \in ToSet(log) : n.rho = m.rho => n = m
<1>1. DOMAIN log = 1 .. Len(log)
  BY LogTyped
<1>2. ASSUME NEW i \in 1 .. Len(log), NEW j \in 1 .. Len(log), log[i].rho = log[j].rho
      PROVE  log[i] = log[j]
  BY <1>2 DEF Fresh
<1> QED BY <1>1, <1>2 DEF ToSet

\* What the wallet can spend and what the bank was paid after a transaction.
LEMMA TakesMoves ==
  ASSUME WalletInv, NEW pi, Takes(pi), Appended(pi.outputs), Apart(ToSet(pi.outputs), ToSet(log))
  PROVE  /\ Unspent' = {n \in Unspent : Nullifier(n) \notin ToSet(pi.nullifiers)}
                       \cup {n \in ToSet(pi.outputs) : n.owner = Me}
         /\ Banked' = Banked \cup {n \in ToSet(pi.outputs) : n.owner = Bank}
         /\ ToSet(pi.outputs) \cap ToSet(log) = {}
<1>1. /\ ToSet(log') = ToSet(log) \cup ToSet(pi.outputs)
      /\ nullifiers' = nullifiers \cup ToSet(pi.nullifiers)
  BY DEF Takes, Appended
<1>2. \A k \in nullifiers' : \E m \in ToSet(log) : k = Nullifier(m)
  <2>1. \A k \in nullifiers : \E m \in ToSet(log) : k = Nullifier(m)
    BY DEF WalletInv, SpentLeaves
  <2>2. \A k \in ToSet(pi.nullifiers) : \E m \in ToSet(log) : k = Nullifier(m)
    <3>1. CASE Deposits(pi)
      BY <3>1 DEF Deposits, ToSet
    <3>2. CASE Pays(pi)
      <4>1. PICK a \in ToSet(pi.anchor), b \in ToSet(pi.anchor) : pi.nullifiers = <<Nullifier(a), Nullifier(b)>>
        BY <3>2 DEF Pays
      <4>2. ToSet(pi.nullifiers) = {Nullifier(a), Nullifier(b)} /\ pi.anchor = log
        <5>1. /\ DOMAIN pi.nullifiers = {1, 2}
              /\ pi.nullifiers[1] = Nullifier(a) /\ pi.nullifiers[2] = Nullifier(b)
          BY <4>1
        <5> QED BY <3>2, <5>1 DEF Pays, Takes, ToSet
      <4> QED BY <4>2
    <3>3. CASE Redeems(pi)
      <4>1. PICK a \in ToSet(pi.anchor) : pi.nullifiers = <<Nullifier(a)>>
        BY <3>3 DEF Redeems
      <4>2. ToSet(pi.nullifiers) = {Nullifier(a)} /\ pi.anchor = log
        <5>1. DOMAIN pi.nullifiers = 1 .. 1 /\ pi.nullifiers[1] = Nullifier(a)
          BY <4>1
        <5> QED BY <3>3, <5>1 DEF Redeems, Takes, ToSet
      <4> QED BY <4>2
    <3> QED BY <3>1, <3>2, <3>3 DEF Takes, Built
  <2> QED BY <1>1, <2>1, <2>2
<1>3. \A n \in ToSet(pi.outputs) : Nullifier(n) \notin nullifiers'
  BY <1>2 DEF Apart, Nullifier
<1>4. ToSet(pi.outputs) \cap ToSet(log) = {}
  BY DEF Apart
<1> QED BY <1>1, <1>3, <1>4 DEF Unspent, Banked

\* An input of a transaction that takes effect can be spent.
LEMMA InputUnspent ==
  ASSUME WalletInv, NEW pi, Takes(pi), pi.kind # "shield",
         NEW a \in ToSet(pi.anchor), a.owner = Me, NEW i \in DOMAIN pi.nullifiers, pi.nullifiers[i] = Nullifier(a)
  PROVE  a \in Unspent
BY DEF Takes, Unspent

\* The balance with one more note.
LEMMA WorthAfter ==
  ASSUME NEW S \in SUBSET Note, IsFiniteSet(S), NEW T, NEW n \in Note, n \notin S, T = S \cup {n}
  PROVE  ValueOf(T) = n.value + ValueOf(S) /\ n.value \in Nat /\ ValueOf(S) \in Nat
BY ValueOfAdd, ValueOfType, NotesAssumption DEF Note, Value

LEMMA DepositMoves ==
  ASSUME WalletInv, NEW pi, Takes(pi), Appended(pi.outputs), Apart(ToSet(pi.outputs), ToSet(log)), Deposits(pi)
  PROVE  purse!Deposit(pi.amount)
<1> DEFINE o == pi.outputs[1]
<1>1. /\ ToSet(pi.outputs) = {o} /\ o \in Note /\ o.owner = Me /\ o.value = pi.amount
      /\ ToSet(pi.nullifiers) = {}
  <2>1. DOMAIN pi.outputs = 1 .. 1 /\ pi.outputs \in Seq(Note)
    BY LenProperties DEF Deposits, Takes, Transaction, Leaves
  <2>2. pi.nullifiers = << >>
    BY DEF Deposits
  <2> QED BY <2>1, <2>2, ElementsFinite DEF Deposits, ToSet
<1> HIDE DEF o
<1>2. Unspent' = Unspent \cup {o} /\ o \notin Unspent /\ Banked' = Banked
  <2>1. Unspent \subseteq ToSet(log)
    BY DEF Unspent
  <2> QED BY <1>1, <2>1, TakesMoves, Constants
<1>3. ValueOf(Unspent') = o.value + ValueOf(Unspent) /\ o.value \in Nat /\ ValueOf(Unspent) \in Nat
  <2>1. Unspent \in SUBSET Note /\ IsFiniteSet(Unspent)
    BY PurseTyped DEF WalletInv
  <2> QED BY <1>1, <1>2, <2>1, WorthAfter
<1>4. ValueOf(Unspent') = ValueOf(Unspent) + pi.amount
  BY <1>1, <1>3
<1>5. pulled' = pulled + pi.amount /\ paidOut' = paidOut
  <2>1. paidOut \in Nat
    BY DEF WalletInv, Shape, ChainTyped
  <2> QED BY <2>1 DEF Takes, Record, Deposits
<1> QED BY <1>2, <1>4, <1>5 DEF purse!Deposit, Unspent, Banked

LEMMA PayMoves ==
  ASSUME WalletInv, NEW pi, Takes(pi), Appended(pi.outputs), Apart(ToSet(pi.outputs), ToSet(log)), Pays(pi)
  PROVE  purse!Pay(pi.outputs[1].value) /\ pi.outputs[1].value \in Amounts
<1> DEFINE p == pi.outputs[1]
           c == pi.outputs[2]
<1>1. /\ ToSet(pi.outputs) = {p, c} /\ p \in Note /\ c \in Note /\ p # c
      /\ p.owner = Bank /\ c.owner = Me /\ p.value \in Amounts
  <2>1. DOMAIN pi.outputs = {1, 2} /\ pi.outputs \in Seq(Note)
    <3>1. 1 .. 2 = {1, 2}
      OBVIOUS
    <3> QED BY <3>1, LenProperties DEF Pays, Takes, Transaction, Leaves
  <2> QED BY <2>1, ElementsFinite DEF Pays, ToSet
<1>2. PICK a \in ToSet(pi.anchor), b \in ToSet(pi.anchor) :
        /\ a # b /\ a.owner = Me /\ b.owner = Me
        /\ pi.nullifiers = <<Nullifier(a), Nullifier(b)>>
        /\ a.value + b.value = p.value + c.value
  BY DEF Pays
<1> HIDE DEF p, c
<1>3. /\ DOMAIN pi.nullifiers = {1, 2} /\ ToSet(pi.nullifiers) = {Nullifier(a), Nullifier(b)}
      /\ pi.nullifiers[1] = Nullifier(a) /\ pi.nullifiers[2] = Nullifier(b)
  <2>1. DOMAIN pi.nullifiers = {1, 2} /\ pi.nullifiers[1] = Nullifier(a) /\ pi.nullifiers[2] = Nullifier(b)
    BY <1>2
  <2> QED BY <2>1 DEF ToSet
<1>4. a \in Unspent /\ b \in Unspent
  BY <1>2, <1>3, InputUnspent DEF Pays
<1> DEFINE U == Unspent
           V == (U \ {a}) \ {b}
<1>5. U \in SUBSET Note /\ IsFiniteSet(U) /\ U \subseteq ToSet(log) /\ Banked \subseteq ToSet(log)
  BY PurseTyped DEF WalletInv, Unspent, Banked
<1>6. {n \in U : Nullifier(n) \notin ToSet(pi.nullifiers)} = V
  <2>1. \A n, m \in ToSet(log) : Nullifier(n) = Nullifier(m) => n = m
    BY LeavesTold DEF WalletInv, Nullifier
  <2> QED BY <1>3, <1>4, <1>5, <2>1
<1>7. /\ Unspent' = V \cup {c} /\ c \notin V
      /\ Banked' = Banked \cup {p} /\ p \notin Banked
  BY <1>1, <1>5, <1>6, TakesMoves, Constants
<1> HIDE DEF V
<1>8. /\ ValueOf(Unspent') = c.value + ValueOf(V)
      /\ c.value \in Nat /\ ValueOf(V) \in Nat
  <2>1. V \in SUBSET Note /\ IsFiniteSet(V)
    BY <1>5, FS_Subset DEF V
  <2> QED BY <1>1, <1>7, <2>1, WorthAfter
<1>9. ValueOf(U) = a.value + (b.value + ValueOf(V)) /\ a.value \in Nat /\ b.value \in Nat
  <2>1. ValueOf(U) = a.value + ValueOf(U \ {a})
    BY <1>4, <1>5, ValueOfSplit
  <2>2. ValueOf(U \ {a}) = b.value + ValueOf(V)
    <3>1. U \ {a} \in SUBSET Note /\ IsFiniteSet(U \ {a}) /\ b \in U \ {a}
      BY <1>2, <1>4, <1>5, FS_Subset
    <3> QED BY <3>1, ValueOfSplit DEF V
  <2>3. a.value \in Nat /\ b.value \in Nat
    BY <1>4, <1>5, NotesAssumption DEF Note, Value
  <2> QED BY <2>1, <2>2, <2>3
<1>10. ValueOf(Banked') = p.value + ValueOf(Banked) /\ p.value \in Nat /\ ValueOf(Banked) \in Nat
  <2>1. Banked \in SUBSET Note /\ IsFiniteSet(Banked)
    BY PurseTyped DEF WalletInv
  <2> QED BY <1>1, <1>7, <2>1, WorthAfter
<1>11. /\ p.value <= ValueOf(Unspent) /\ ValueOf(Unspent') = ValueOf(Unspent) - p.value
       /\ ValueOf(Banked') = ValueOf(Banked) + p.value
  <2>1. \A x, y, z, v, w \in Nat : x + y = z + w => z <= x + (y + v) /\ w + v = (x + (y + v)) - z
    OBVIOUS
  <2> QED BY <1>2, <1>8, <1>9, <1>10, <2>1
<1>12. pulled' = pulled /\ paidOut' = paidOut
  <2>1. paidOut \in Nat /\ pulled \in Nat
    BY DEF WalletInv, Shape, ChainTyped
  <2> QED BY <2>1 DEF Takes, Record, Pays
<1> QED BY <1>1, <1>11, <1>12 DEF purse!Pay, Unspent, Banked, p

LEMMA RedeemMoves ==
  ASSUME WalletInv, NEW pi, Takes(pi), Appended(pi.outputs), Apart(ToSet(pi.outputs), ToSet(log)), Redeems(pi)
  PROVE  purse!Redeem(pi.amount) /\ pi.amount \in Amounts
<1>0. pi.amount \in Nat /\ pi.outputs \in Seq(Note) /\ pi.amount \in Amounts /\ pi.kind = "unshield"
  BY DEF Redeems, Takes, Transaction, Leaves
<1>1. PICK a \in ToSet(pi.anchor) :
        /\ a.owner = Me
        /\ pi.nullifiers = <<Nullifier(a)>>
        /\ \/ pi.outputs = << >> /\ a.value = pi.amount
           \/ /\ Len(pi.outputs) = 1
              /\ pi.outputs[1].owner = Me
              /\ a.value = pi.amount + pi.outputs[1].value
  BY DEF Redeems
<1>2. DOMAIN pi.nullifiers = {1} /\ pi.nullifiers[1] = Nullifier(a) /\ ToSet(pi.nullifiers) = {Nullifier(a)}
  <2>1. DOMAIN pi.nullifiers = {1} /\ pi.nullifiers[1] = Nullifier(a)
    BY <1>1
  <2> QED BY <2>1 DEF ToSet
<1>3. a \in Unspent
  BY <1>0, <1>1, <1>2, InputUnspent
<1> DEFINE U == Unspent
           V == U \ {a}
<1>4. U \in SUBSET Note /\ IsFiniteSet(U) /\ U \subseteq ToSet(log)
  BY PurseTyped DEF WalletInv, Unspent
<1>5. {n \in U : Nullifier(n) \notin ToSet(pi.nullifiers)} = V
  <2>1. \A n, m \in ToSet(log) : Nullifier(n) = Nullifier(m) => n = m
    BY LeavesTold DEF WalletInv, Nullifier
  <2> QED BY <1>2, <1>3, <1>4, <2>1
<1>6. ValueOf(U) = a.value + ValueOf(V) /\ a.value \in Nat /\ ValueOf(V) \in Nat
  <2>1. V \in SUBSET Note /\ IsFiniteSet(V)
    BY <1>4, FS_Subset
  <2>2. a.value \in Nat
    BY <1>3, <1>4, NotesAssumption DEF Note, Value
  <2> QED BY <1>3, <1>4, <2>1, <2>2, ValueOfSplit, ValueOfType
<1>7. \A n \in ToSet(pi.outputs) : n.owner = Me
  <2>1. CASE pi.outputs = << >>
    BY <2>1 DEF ToSet
  <2>2. CASE Len(pi.outputs) = 1 /\ pi.outputs[1].owner = Me
    <3>1. DOMAIN pi.outputs = 1 .. 1
      BY <1>0, <2>2, LenProperties
    <3> QED BY <2>2, <3>1 DEF ToSet
  <2> QED BY <1>1, <2>1, <2>2
<1>8. Banked' = Banked /\ Unspent' = V \cup ToSet(pi.outputs) /\ ToSet(pi.outputs) \cap U = {}
  BY <1>4, <1>5, <1>7, TakesMoves, Constants
<1>9. pi.amount <= ValueOf(Unspent) /\ ValueOf(Unspent') = ValueOf(Unspent) - pi.amount
  <2>1. CASE pi.outputs = << >> /\ a.value = pi.amount
    <3>1. Unspent' = V
      BY <1>8, <2>1 DEF ToSet
    <3> HIDE DEF V
    <3>2. ValueOf(Unspent') = ValueOf(V)
      BY <3>1
    <3>3. \A x, v \in Nat : x <= x + v /\ v = (x + v) - x
      OBVIOUS
    <3> QED BY <1>6, <2>1, <3>2, <3>3
  <2>2. CASE Len(pi.outputs) = 1 /\ a.value = pi.amount + pi.outputs[1].value
    <3> DEFINE c == pi.outputs[1]
    <3>1. ToSet(pi.outputs) = {c} /\ c \in Note
      <4>1. DOMAIN pi.outputs = 1 .. 1
        BY <1>0, <2>2, LenProperties
      <4> QED BY <1>0, <4>1, ElementsFinite DEF ToSet
    <3> HIDE DEF c
    <3>2. Unspent' = V \cup {c} /\ c \notin V /\ V \in SUBSET Note /\ IsFiniteSet(V)
      BY <1>4, <1>8, <3>1, FS_Subset
    <3> HIDE DEF V
    <3>3. ValueOf(Unspent') = c.value + ValueOf(V) /\ c.value \in Nat
      BY <3>1, <3>2, WorthAfter
    <3>4. \A x, y, v \in Nat : x <= (x + y) + v /\ y + v = ((x + y) + v) - x
      OBVIOUS
    <3> QED BY <1>0, <1>6, <2>2, <3>3, <3>4 DEF c
  <2> QED BY <1>1, <2>1, <2>2
<1>10. pulled' = pulled /\ paidOut' = paidOut + pi.amount
  <2>1. pulled \in Nat
    BY DEF WalletInv, Shape, ChainTyped
  <2> QED BY <1>0, <2>1 DEF Takes, Record
<1> QED BY <1>0, <1>8, <1>9, <1>10 DEF purse!Redeem, Unspent, Banked

LEMMA PurseInit == Init => purse!Init
<1> SUFFICES ASSUME Init PROVE purse!Init
  OBVIOUS
<1>1. ValueOf(Unspent) \in Nat /\ ValueOf(Banked) \in Nat
  BY InitInv, PurseTyped DEF WalletInv
<1> QED BY <1>1 DEF Init, purse!Init, Unspent, Banked

\* Every step of the wallet or of its environment is one of the purse, or none.
LEMMA PurseStep ==
  ASSUME WalletInv, [Next]_vars
  PROVE  purse!Next \/ UNCHANGED <<ValueOf(Unspent), pulled, paidOut, ValueOf(Banked)>>
<1>1. CASE UNCHANGED ledger
  BY <1>1 DEF ledger, Unspent, Banked
<1>2. ASSUME NEW pi \in orphans \cup Waiting, Takes(pi), Appended(pi.outputs) PROVE purse!Next
  <2>1. Apart(ToSet(pi.outputs), ToSet(log))
    BY DEF WalletInv, Fresh
  <2>2. CASE Deposits(pi)
    BY <1>2, <2>1, <2>2, DepositMoves DEF Deposits, Amounts, purse!Next
  <2>3. CASE Pays(pi)
    BY <1>2, <2>1, <2>3, PayMoves DEF Amounts, purse!Next
  <2>4. CASE Redeems(pi)
    BY <1>2, <2>1, <2>4, RedeemMoves DEF Amounts, purse!Next
  <2> QED BY <1>2, <2>2, <2>3, <2>4 DEF Takes, Built
<1>3. ASSUME NEW n \in Note, OthersMove(n), Appended(<<n>>)
      PROVE  UNCHANGED <<ValueOf(Unspent), pulled, paidOut, ValueOf(Banked)>>
  <2>1. /\ ToSet(log') = ToSet(log) \cup {n} /\ n.owner = Other
        /\ UNCHANGED <<nullifiers, pulled, paidOut>>
    <3>1. DOMAIN <<n>> = 1 .. 1 /\ <<n>>[1] = n
      OBVIOUS
    <3>2. ToSet(<<n>>) = {n}
      BY <3>1 DEF ToSet
    <3> QED BY <1>3, <3>2 DEF OthersMove, OthersAdd, Appended
  <2>2. Unspent' = Unspent /\ Banked' = Banked
    BY <2>1, Constants DEF Unspent, Banked
  <2> QED BY <2>1, <2>2
<1>4. CASE TakesEffect /\ Appended(op.tx[1].outputs)
  <2>1. op.tx[1] \in Waiting /\ Takes(op.tx[1])
    BY <1>4, OneTransaction DEF TakesEffect, Waiting, WalletInv, Shape
  <2> DEFINE pi == op.tx[1]
  <2> HIDE DEF pi
  <2> QED BY <1>2, <1>4, <2>1 DEF pi
<1> QED BY <1>1, <1>2, <1>3, <1>4, LogSteps DEF TakesLate

\* Every transaction moves one requested amount in or out of what the wallet can
\* spend, and nothing else does.
THEOREM WalletIsPurse == Spec => MovesAsAsked
<1>1. WalletInv /\ [Next]_vars => [purse!Next]_<<ValueOf(Unspent), pulled, paidOut, ValueOf(Banked)>>
  BY PurseStep
<1> QED BY <1>1, PurseInit, WalletInvariant, PTL DEF Spec, MovesAsAsked, purse!Spec, Unspent, Banked
=============================================================================
