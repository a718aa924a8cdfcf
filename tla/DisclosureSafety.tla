-------------------------- MODULE DisclosureSafety --------------------------
(***************************************************************************)
(* What always holds of the events that the console lists, of what its       *)
(* panel shows of them, and of what a recipient's scan finds in them.        *)
(***************************************************************************)
EXTENDS ClawbackSafety, NoteLemmas

----------------------------------------------------------------------------
(* Sequences put together of sequences.                                     *)

\* g[i] is the first i of them put together.
JoinedTo(g, ss, n) == g = [i \in 1 .. n |-> IF i = 1 THEN ss[i] ELSE g[i - 1] \o ss[i]]

LEMMA JoinedToExist ==
  ASSUME NEW ss
  PROVE  \A n \in Nat : \E g : JoinedTo(g, ss, n)
<1> DEFINE S == {n \in Nat : \E g : JoinedTo(g, ss, n)}
<1>1. 0 \in S
  <2>1. JoinedTo([i \in 1 .. 0 |-> << >>], ss, 0)
    BY DEF JoinedTo
  <2> QED BY <2>1
<1>2. ASSUME NEW n \in Nat, n \in S
      PROVE  n + 1 \in S
  <2>1. PICK g : JoinedTo(g, ss, n)
    BY <1>2
  <2> DEFINE h == [i \in 1 .. n + 1 |-> IF i = n + 1
                                        THEN IF i = 1 THEN ss[i] ELSE g[n] \o ss[n + 1]
                                        ELSE g[i]]
  <2>2. ASSUME NEW i \in 1 .. n + 1
        PROVE  h[i] = IF i = 1 THEN ss[i] ELSE h[i - 1] \o ss[i]
    <3>1. CASE i = n + 1
      BY <3>1
    <3>2. CASE i # n + 1
      <4>1. i \in 1 .. n /\ (i # 1 => i - 1 \in 1 .. n + 1 /\ i - 1 # n + 1)
        BY <3>2
      <4>2. g[i] = IF i = 1 THEN ss[i] ELSE g[i - 1] \o ss[i]
        BY <2>1, <4>1 DEF JoinedTo
      <4>3. h[i] = g[i] /\ (i # 1 => h[i - 1] = g[i - 1])
        BY <3>2, <4>1
      <4> QED BY <4>2, <4>3
    <3> QED BY <3>1, <3>2
  <2>3. h = [i \in 1 .. n + 1 |-> h[i]]
    OBVIOUS
  <2>4. JoinedTo(h, ss, n + 1)
    <3> HIDE DEF h
    <3> QED BY <2>2, <2>3 DEF JoinedTo
  <2> QED BY <2>4
<1>3. Nat \subseteq S
  <2> HIDE DEF S
  <2> QED BY <1>1, <1>2, NatInduct
<1> QED BY <1>3

\* No two places of a sequence hold the same.
Distinct(s) == \A i, j \in 1 .. Len(s) : s[i] = s[j] => i = j

\* What is in one of the first n sequences.
InFirst(ss, n, x) == \E i \in 1 .. n : \E j \in 1 .. Len(ss[i]) : x = ss[i][j]

Holds(s, x) == \E k \in 1 .. Len(s) : s[k] = x

\* No sequence holds anything twice, and no two hold the same.
AllApart(ss) ==
  /\ \A i \in 1 .. Len(ss) : Distinct(ss[i])
  /\ \A i, k \in 1 .. Len(ss) : \A j \in 1 .. Len(ss[i]), m \in 1 .. Len(ss[k]) :
        ss[i][j] = ss[k][m] => i = k

LEMMA ConcatHolds ==
  ASSUME NEW S, NEW s \in Seq(S), NEW t \in Seq(S)
  PROVE  /\ s \o t \in Seq(S)
         /\ \A x : Holds(s \o t, x) <=> Holds(s, x) \/ Holds(t, x)
         /\ (Distinct(s) /\ Distinct(t) /\ \A x : ~(Holds(s, x) /\ Holds(t, x))) => Distinct(s \o t)
<1> DEFINE u == s \o t
           m == Len(s)
           n == Len(t)
<1>1. m \in Nat /\ n \in Nat
  BY LenProperties
<1>2. /\ u \in Seq(S) /\ Len(u) = m + n
      /\ \A i \in 1 .. m + n : u[i] = IF i <= m THEN s[i] ELSE t[i - m]
  BY ConcatProperties
<1> HIDE DEF u, m, n
<1>3. \A i \in 1 .. m : i \in 1 .. m + n /\ u[i] = s[i]
  BY <1>1, <1>2
<1>4. \A i \in 1 .. n : m + i \in 1 .. m + n /\ u[m + i] = t[i]
  <2> TAKE i \in 1 .. n
  <2>1. m + i \in 1 .. m + n /\ ~(m + i <= m) /\ (m + i) - m = i
    BY <1>1
  <2> QED BY <1>2, <2>1
<1>5. \A i \in 1 .. m + n : i \in 1 .. m \/ \E k \in 1 .. n : i = m + k
  <2> TAKE i \in 1 .. m + n
  <2>1. CASE i <= m
    BY <1>1, <2>1
  <2>2. CASE i > m
    <3>1. i - m \in 1 .. n /\ i = m + (i - m)
      BY <1>1, <2>2
    <3> QED BY <3>1
  <2> QED BY <1>1, <2>1, <2>2
<1>6. \A x : Holds(u, x) <=> Holds(s, x) \/ Holds(t, x)
  <2> TAKE x
  <2>1. ASSUME Holds(u, x)
        PROVE  Holds(s, x) \/ Holds(t, x)
    <3>1. PICK k \in 1 .. m + n : u[k] = x
      BY <1>2, <2>1 DEF Holds
    <3>2. CASE k \in 1 .. m
      BY <1>3, <3>1, <3>2 DEF Holds, m
    <3>3. CASE \E i \in 1 .. n : k = m + i
      BY <1>4, <3>1, <3>3 DEF Holds, n
    <3> QED BY <1>5, <3>2, <3>3
  <2>2. Holds(s, x) => Holds(u, x)
    BY <1>2, <1>3 DEF Holds, m, n
  <2>3. Holds(t, x) => Holds(u, x)
    BY <1>2, <1>4 DEF Holds, m, n
  <2> QED BY <2>1, <2>2, <2>3
<1>7. ASSUME Distinct(s), Distinct(t), \A x : ~(Holds(s, x) /\ Holds(t, x))
      PROVE  Distinct(u)
  <2> SUFFICES ASSUME NEW i \in 1 .. m + n, NEW j \in 1 .. m + n, u[i] = u[j] PROVE i = j
    BY <1>2 DEF Distinct
  <2>1. \A a \in 1 .. m, b \in 1 .. n : s[a] # t[b]
    BY <1>7 DEF Holds, m, n
  <2>2. CASE i \in 1 .. m /\ j \in 1 .. m
    BY <1>3, <1>7, <2>2 DEF Distinct, m
  <2>3. ASSUME NEW a \in 1 .. n, NEW b \in 1 .. n, i = m + a, j = m + b
        PROVE  i = j
    BY <1>4, <1>7, <2>3 DEF Distinct, n
  <2>4. ASSUME NEW a \in 1 .. n, i = m + a, j \in 1 .. m
        PROVE  FALSE
    BY <1>3, <1>4, <2>1, <2>4
  <2>5. ASSUME NEW a \in 1 .. n, j = m + a, i \in 1 .. m
        PROVE  FALSE
    BY <1>3, <1>4, <2>1, <2>5
  <2> QED BY <1>5, <2>2, <2>3, <2>4, <2>5
<1> QED BY <1>2, <1>6, <1>7 DEF u

\* FlattenSeq holds what its parts hold, and nothing twice if they do not.
LEMMA FlattenHolds ==
  ASSUME NEW S, NEW ss \in Seq(Seq(S))
  PROVE  /\ FlattenSeq(ss) \in Seq(S)
         /\ \A x : Holds(FlattenSeq(ss), x) <=> InFirst(ss, Len(ss), x)
         /\ AllApart(ss) => Distinct(FlattenSeq(ss))
<1> DEFINE n == Len(ss)
           g == CHOOSE f : JoinedTo(f, ss, n)
<1>0. n \in Nat /\ \A i \in 1 .. n : ss[i] \in Seq(S)
  BY LenProperties, ElementOfSeq
<1>1. CASE n = 0
  <2>1. ss = << >>
    BY <1>1, EmptySeq
  <2>2. FlattenSeq(ss) = << >>
    BY <1>1, <2>1 DEF FlattenSeq
  <2>3. << >> \in Seq(S) /\ Len(<< >>) = 0
    BY EmptySeq
  <2> QED BY <1>1, <2>2, <2>3 DEF Holds, InFirst, Distinct
<1>2. CASE n # 0
  <2>1. FlattenSeq(ss) = g[n]
    BY <1>2 DEF FlattenSeq, JoinedTo
  <2>2. JoinedTo(g, ss, n)
    BY <1>0, JoinedToExist
  <2> HIDE DEF g
  <2>3. g[1] = ss[1] /\ \A i \in 1 .. n - 1 : g[i + 1] = g[i] \o ss[i + 1]
    <3>1. 1 \in 1 .. n
      BY <1>0, <1>2
    <3>2. g[1] = ss[1]
      BY <2>2, <3>1 DEF JoinedTo
    <3>3. ASSUME NEW i \in 1 .. n - 1
          PROVE  g[i + 1] = g[i] \o ss[i + 1]
      <4>1. i + 1 \in 1 .. n /\ i + 1 # 1 /\ (i + 1) - 1 = i
        BY <1>0
      <4> QED BY <2>2, <4>1 DEF JoinedTo
    <3> QED BY <3>2, <3>3
  <2> DEFINE T == {i \in Nat : i + 1 <= n =>
                     /\ g[i + 1] \in Seq(S)
                     /\ \A x : Holds(g[i + 1], x) <=> InFirst(ss, i + 1, x)
                     /\ AllApart(ss) => Distinct(g[i + 1])}
  <2>4. 0 \in T
    <3>1. 1 \in 1 .. n /\ 0 + 1 = 1
      BY <1>0, <1>2
    <3>2. g[1] \in Seq(S)
      BY <1>0, <2>3, <3>1
    <3>3. \A x : Holds(g[1], x) <=> InFirst(ss, 1, x)
      BY <2>3 DEF Holds, InFirst
    <3>4. AllApart(ss) => Distinct(g[1])
      BY <2>3, <3>1 DEF AllApart
    <3> QED BY <3>1, <3>2, <3>3, <3>4
  <2>5. ASSUME NEW i \in Nat, i \in T
        PROVE  i + 1 \in T
    <3> SUFFICES ASSUME i + 2 <= n
                 PROVE  /\ g[i + 2] \in Seq(S)
                        /\ \A x : Holds(g[i + 2], x) <=> InFirst(ss, i + 2, x)
                        /\ AllApart(ss) => Distinct(g[i + 2])
      <4>1. (i + 1) + 1 = i + 2
        OBVIOUS
      <4> QED BY <4>1
    <3>1. /\ i + 1 \in 1 .. n - 1 /\ (i + 1) + 1 = i + 2 /\ i + 2 \in 1 .. n /\ i + 1 \in 1 .. n
          /\ i + 1 <= n
      BY <1>0
    <3>2. g[i + 2] = g[i + 1] \o ss[i + 2]
      BY <2>3, <3>1
    <3>3. /\ g[i + 1] \in Seq(S)
          /\ \A x : Holds(g[i + 1], x) <=> InFirst(ss, i + 1, x)
          /\ AllApart(ss) => Distinct(g[i + 1])
      BY <2>5, <3>1
    <3>4. ss[i + 2] \in Seq(S)
      BY <1>0, <3>1
    <3>5. g[i + 2] \in Seq(S)
      BY <3>2, <3>3, <3>4, ConcatHolds
    <3>6. ASSUME NEW x
          PROVE  Holds(g[i + 2], x) <=> InFirst(ss, i + 2, x)
      <4>1. Holds(g[i + 2], x) <=> Holds(g[i + 1], x) \/ Holds(ss[i + 2], x)
        BY <3>2, <3>3, <3>4, ConcatHolds
      <4>2. \A k \in 1 .. i + 2 : k \in 1 .. i + 1 \/ k = i + 2
        OBVIOUS
      <4>3. \A k \in 1 .. i + 1 : k \in 1 .. i + 2
        OBVIOUS
      <4>4. i + 2 \in 1 .. i + 2
        OBVIOUS
      <4>5. InFirst(ss, i + 2, x) <=> InFirst(ss, i + 1, x) \/ Holds(ss[i + 2], x)
        BY <4>2, <4>3, <4>4 DEF InFirst, Holds
      <4> QED BY <3>3, <4>1, <4>5
    <3>7. ASSUME AllApart(ss)
          PROVE  Distinct(g[i + 2])
      <4>1. Distinct(g[i + 1]) /\ Distinct(ss[i + 2])
        BY <3>1, <3>3, <3>7 DEF AllApart
      <4>2. ASSUME NEW x, Holds(g[i + 1], x), Holds(ss[i + 2], x)
            PROVE  FALSE
        <5>0. PICK k \in 1 .. i + 1 : \E j \in 1 .. Len(ss[k]) : x = ss[k][j]
          BY <3>3, <4>2 DEF InFirst
        <5>1. PICK j \in 1 .. Len(ss[k]) : x = ss[k][j]
          BY <5>0
        <5>2. PICK m \in 1 .. Len(ss[i + 2]) : x = ss[i + 2][m]
          BY <4>2 DEF Holds
        <5>3. k \in 1 .. n /\ k # i + 2
          BY <3>1
        <5> QED BY <3>1, <3>7, <5>1, <5>2, <5>3 DEF AllApart
      <4> QED BY <3>2, <3>3, <3>4, <4>1, <4>2, ConcatHolds
    <3> QED BY <3>5, <3>6, <3>7
  <2>6. Nat \subseteq T
    <3> HIDE DEF T
    <3> QED BY <2>4, <2>5, NatInduct
  <2>7. n - 1 \in Nat /\ (n - 1) + 1 = n
    BY <1>0, <1>2
  <2>8. n - 1 \in T
    BY <2>6, <2>7
  <2> QED BY <2>1, <2>7, <2>8
<1> QED BY <1>1, <1>2

Singles(f, n) == [i \in 1 .. n |-> <<f[i]>>]

ListsFirst(flat, f, n, S) == flat \in Seq(S) /\ Len(flat) = n /\ \A k \in 1 .. n : flat[k] = f[k]

\* Parts of one element each are those elements.
LEMMA FlattenSingles ==
  ASSUME NEW S, NEW n \in Nat, NEW f, \A i \in 1 .. n : f[i] \in S
  PROVE  ListsFirst(FlattenSeq(Singles(f, n)), f, n, S)
<1> DEFINE ss == Singles(f, n)
           g == CHOOSE h : JoinedTo(h, ss, n)
<1>0. ss \in Seq(Seq(S)) /\ Len(ss) = n /\ \A i \in 1 .. n : ss[i] = <<f[i]>>
  <2>1. ss = [i \in 1 .. n |-> ss[i]] /\ \A i \in 1 .. n : ss[i] \in Seq(S)
    BY DEF Singles
  <2>2. \A i \in 1 .. n : ss[i] = <<f[i]>>
    BY DEF Singles
  <2> HIDE DEF ss
  <2> QED BY <2>1, <2>2, LenOfFunction
<1> SUFFICES ListsFirst(FlattenSeq(ss), f, n, S)
  OBVIOUS
<1> HIDE DEF ss
<1>1. CASE n = 0
  <2>1. ss = << >>
    BY <1>0, <1>1, EmptySeq
  <2>2. FlattenSeq(ss) = << >>
    BY <2>1 DEF FlattenSeq
  <2>3. << >> \in Seq(S) /\ Len(<< >>) = 0 /\ \A k \in 1 .. n : << >>[k] = f[k]
    BY <1>1, EmptySeq
  <2> QED BY <1>1, <2>2, <2>3 DEF ListsFirst
<1>2. CASE n # 0
  <2>1. FlattenSeq(ss) = g[n]
    BY <1>0, <1>2, EmptySeq DEF FlattenSeq, JoinedTo
  <2>2. JoinedTo(g, ss, n)
    BY JoinedToExist
  <2> HIDE DEF g
  <2>3. g[1] = ss[1] /\ \A i \in 1 .. n - 1 : g[i + 1] = g[i] \o ss[i + 1]
    <3>1. 1 \in 1 .. n
      BY <1>2
    <3>2. g[1] = ss[1]
      BY <2>2, <3>1 DEF JoinedTo
    <3>3. ASSUME NEW i \in 1 .. n - 1
          PROVE  g[i + 1] = g[i] \o ss[i + 1]
      <4>1. i + 1 \in 1 .. n /\ i + 1 # 1 /\ (i + 1) - 1 = i
        OBVIOUS
      <4> QED BY <2>2, <4>1 DEF JoinedTo
    <3> QED BY <3>2, <3>3
  <2> DEFINE T == {i \in Nat : i + 1 <= n =>
                     g[i + 1] \in Seq(S) /\ Len(g[i + 1]) = i + 1 /\ \A k \in 1 .. i + 1 : g[i + 1][k] = f[k]}
  <2>4. 0 \in T
    <3>1. 1 \in 1 .. n /\ 0 + 1 = 1
      BY <1>2
    <3>2. g[1] = <<f[1]>> /\ f[1] \in S
      BY <1>0, <2>3, <3>1
    <3>3. g[1] \in Seq(S) /\ Len(g[1]) = 1 /\ \A k \in 1 .. 1 : g[1][k] = f[k]
      BY <3>2
    <3> QED BY <3>1, <3>3
  <2>5. ASSUME NEW i \in Nat, i \in T
        PROVE  i + 1 \in T
    <3> SUFFICES ASSUME i + 2 <= n
                 PROVE  g[i + 2] \in Seq(S) /\ Len(g[i + 2]) = i + 2 /\ \A k \in 1 .. i + 2 : g[i + 2][k] = f[k]
      <4>1. (i + 1) + 1 = i + 2
        OBVIOUS
      <4> QED BY <4>1
    <3>1. i + 1 \in 1 .. n - 1 /\ (i + 1) + 1 = i + 2 /\ i + 2 \in 1 .. n /\ i + 1 <= n
      OBVIOUS
    <3>2. g[i + 2] = Append(g[i + 1], f[i + 2])
      <4>1. g[i + 2] = g[i + 1] \o <<f[i + 2]>>
        BY <1>0, <2>3, <3>1
      <4>2. g[i + 1] \in Seq(S) /\ f[i + 2] \in S
        BY <2>5, <3>1
      <4> QED BY <4>1, <4>2
    <3>3. g[i + 1] \in Seq(S) /\ Len(g[i + 1]) = i + 1 /\ \A k \in 1 .. i + 1 : g[i + 1][k] = f[k]
      BY <2>5, <3>1
    <3>4. f[i + 2] \in S
      BY <3>1
    <3>5. /\ g[i + 2] \in Seq(S) /\ Len(g[i + 2]) = i + 2
          /\ \A k \in 1 .. i + 1 : g[i + 2][k] = f[k]
          /\ g[i + 2][i + 2] = f[i + 2]
      BY <3>2, <3>3, <3>4, <3>1, AppendProperties
    <3>6. \A k \in 1 .. i + 2 : k \in 1 .. i + 1 \/ k = i + 2
      OBVIOUS
    <3> QED BY <3>5, <3>6
  <2>6. Nat \subseteq T
    <3> HIDE DEF T
    <3> QED BY <2>4, <2>5, NatInduct
  <2>7. n - 1 \in Nat /\ (n - 1) + 1 = n
    BY <1>2
  <2>8. n - 1 \in T
    BY <2>6, <2>7
  <2>9. g[n] \in Seq(S) /\ Len(g[n]) = n /\ \A k \in 1 .. n : g[n][k] = f[k]
    BY <2>7, <2>8
  <2> HIDE DEF T
  <2> QED BY <2>1, <2>9 DEF ListsFirst
<1> QED BY <1>1, <1>2

----------------------------------------------------------------------------
(* Folds over finite sets.                                                  *)

\* v[<<x, r>>] puts the element x, the first of s, on top of what the others gave.
FoldedBy(h, base, v, S) ==
  h = [s \in SUBSET S |-> IF s = {} THEN base ELSE v[<<First(s), h[s \ {First(s)}]>>]]

\* The folds of the sets of at most i elements.
FoldedTo(g, base, v, S, n) ==
  g = [i \in 0 .. n |->
         [s \in SUBSET S |-> IF s = {} \/ i = 0 THEN base ELSE v[<<First(s), g[i - 1][s \ {First(s)}]>>]]]

LEMMA FoldedToExist ==
  ASSUME NEW S, NEW R, NEW base \in R, NEW v \in [S \X R -> R]
  PROVE  \A n \in Nat : \E g \in [0 .. n -> [SUBSET S -> R]] : FoldedTo(g, base, v, S, n)
<1> DEFINE Exists(n) == \E g \in [0 .. n -> [SUBSET S -> R]] : FoldedTo(g, base, v, S, n)
           T == {n \in Nat : Exists(n)}
           Level(r, i) == [s \in SUBSET S |-> IF s = {} \/ i = 0 THEN base ELSE v[<<First(s), r[s \ {First(s)}]>>]]
<1>1. 0 \in T
  <2> DEFINE g == [i \in 0 .. 0 |-> [s \in SUBSET S |-> base]]
  <2>1. g \in [0 .. 0 -> [SUBSET S -> R]] /\ FoldedTo(g, base, v, S, 0)
    BY DEF FoldedTo
  <2> QED BY <2>1
<1>2. ASSUME NEW n \in Nat, n \in T
      PROVE  n + 1 \in T
  <2>1. PICK g \in [0 .. n -> [SUBSET S -> R]] : FoldedTo(g, base, v, S, n)
    BY <1>2
  <2> DEFINE h == [i \in 0 .. n + 1 |-> IF i = n + 1 THEN Level(g[n], i) ELSE g[i]]
  <2>2. Level(g[n], n + 1) \in [SUBSET S -> R]
    <3>1. ASSUME NEW s \in SUBSET S, s # {}
          PROVE  v[<<First(s), g[n][s \ {First(s)}]>>] \in R
      <4>1. First(s) \in S /\ s \ {First(s)} \in SUBSET S
        BY <3>1, FirstIsElement
      <4>2. n \in 0 .. n
        OBVIOUS
      <4>3. g[n] \in [SUBSET S -> R]
        BY <4>2
      <4> QED BY <4>1, <4>3
    <3> QED BY <3>1
  <2>3. h \in [0 .. n + 1 -> [SUBSET S -> R]]
    <3> HIDE DEF Level
    <3>1. \A i \in 0 .. n + 1 : i # n + 1 => i \in 0 .. n
      OBVIOUS
    <3> QED BY <2>2, <3>1
  <2>4. ASSUME NEW i \in 0 .. n + 1
        PROVE  h[i] = Level(h[i - 1], i)
    <3>1. CASE i = n + 1
      <4>1. h[i - 1] = g[n] /\ h[i] = Level(g[n], i)
        <5> HIDE DEF Level
        <5> QED BY <3>1
      <4> QED BY <4>1
    <3>2. CASE i # n + 1 /\ i # 0
      <4>1. i \in 0 .. n /\ i - 1 \in 0 .. n + 1 /\ i - 1 # n + 1
        BY <3>2
      <4>2. g[i] = Level(g[i - 1], i)
        BY <2>1, <4>1 DEF FoldedTo
      <4>3. h[i] = g[i] /\ h[i - 1] = g[i - 1]
        <5> HIDE DEF Level
        <5> QED BY <3>2, <4>1
      <4> QED BY <4>2, <4>3
    <3>3. CASE i = 0
      <4>1. g[0] = [s \in SUBSET S |-> base]
        BY <2>1 DEF FoldedTo
      <4>2. h[0] = g[0]
        <5> HIDE DEF Level
        <5> QED OBVIOUS
      <4>3. Level(h[i - 1], i) = [s \in SUBSET S |-> base]
        BY <3>3
      <4> QED BY <3>3, <4>1, <4>2, <4>3
    <3> QED BY <3>1, <3>2, <3>3
  <2>5. h = [i \in 0 .. n + 1 |-> h[i]]
    OBVIOUS
  <2>6. h = [i \in 0 .. n + 1 |-> Level(h[i - 1], i)]
    <3> HIDE DEF h, Level
    <3> QED BY <2>4, <2>5
  <2>7. FoldedTo(h, base, v, S, n + 1)
    <3> HIDE DEF h
    <3> QED BY <2>6 DEF FoldedTo
  <2> HIDE DEF h
  <2>8. Exists(n + 1)
    BY <2>3, <2>7
  <2> HIDE DEF Exists
  <2> QED BY <2>8
<1>3. Nat \subseteq T
  <2> HIDE DEF T
  <2> QED BY <1>1, <1>2, NatInduct
<1> QED BY <1>3

LEMMA FoldExists ==
  ASSUME NEW S, IsFiniteSet(S), NEW R, NEW base \in R, NEW v \in [S \X R -> R]
  PROVE  \E h \in [SUBSET S -> R] : FoldedBy(h, base, v, S)
<1>1. Cardinality(S) \in Nat
  BY FS_CardinalityType
<1>2. PICK g \in [0 .. Cardinality(S) -> [SUBSET S -> R]] : FoldedTo(g, base, v, S, Cardinality(S))
  BY <1>1, FoldedToExist
<1>3. \A s \in SUBSET S : Cardinality(s) \in 0 .. Cardinality(S)
  BY <1>1, FS_Subset, FS_CardinalityType
<1> DEFINE h == [s \in SUBSET S |-> g[Cardinality(s)][s]]
<1>4. h \in [SUBSET S -> R]
  BY <1>3
<1>5. ASSUME NEW s \in SUBSET S
      PROVE  h[s] = IF s = {} THEN base ELSE v[<<First(s), h[s \ {First(s)}]>>]
  <2> DEFINE i == Cardinality(s)
             r == s \ {First(s)}
  <2>1. i \in 0 .. Cardinality(S) /\ h[s] = g[i][s] /\ IsFiniteSet(s)
    BY <1>3, FS_Subset
  <2>2. g[i] = [u \in SUBSET S |-> IF u = {} \/ i = 0 THEN base ELSE v[<<First(u), g[i - 1][u \ {First(u)}]>>]]
    <3> HIDE DEF i
    <3> QED BY <1>2, <2>1 DEF FoldedTo
  <2>3. CASE s = {}
    <3> HIDE DEF h, i
    <3> QED BY <2>1, <2>2, <2>3
  <2>4. CASE s # {}
    <3>1. First(s) \in s /\ r \in SUBSET S
      BY <2>4, FirstIsElement
    <3>2. Cardinality(r) = i - 1 /\ i # 0
      BY <2>1, <2>4, <3>1, FS_RemoveElement, FS_EmptySet
    <3>3. h[r] = g[i - 1][r]
      <4> HIDE DEF i
      <4>1. h[r] = g[Cardinality(r)][r]
        <5> HIDE DEF r
        <5> QED BY <3>1
      <4> QED BY <3>2, <4>1
    <3>4. g[i][s] = v[<<First(s), g[i - 1][s \ {First(s)}]>>]
      <4> HIDE DEF i
      <4> QED BY <2>2, <2>4, <3>2
    <3> HIDE DEF h, i
    <3> QED BY <2>1, <2>4, <3>3, <3>4
  <2> QED BY <2>3, <2>4
<1>6. h = [s \in SUBSET S |-> h[s]]
  OBVIOUS
<1>7. FoldedBy(h, base, v, S)
  <2> HIDE DEF h
  <2> QED BY <1>5, <1>6 DEF FoldedBy
<1> QED BY <1>4, <1>7

----------------------------------------------------------------------------
(* Sums and products in the field.                                          *)

LEMMA ModType ==
  ASSUME NEW x \in Int
  PROVE  Mod(x) \in Field
BY FieldAssumption DEF Mod, Field

FieldSums(f, terms, S) ==
  f = [s \in SUBSET S |-> IF s = {} THEN 0 ELSE Mod(f[s \ {First(s)}] + terms[First(s)])]

FieldProducts(f, terms, S) ==
  f = [s \in SUBSET S |-> IF s = {} THEN 1 ELSE Mod(f[s \ {First(s)}] * terms[First(s)])]

LEMMA SumOverType ==
  ASSUME NEW S, IsFiniteSet(S), NEW terms, DOMAIN terms = S, \A x \in S : terms[x] \in Int
  PROVE  SumOver(terms) \in Field
<1> DEFINE f == CHOOSE g : FieldSums(g, terms, S)
           v == [p \in S \X Field |-> Mod(p[2] + terms[p[1]])]
<1>0. Field \subseteq Int /\ 0 \in Field
  BY FieldAssumption DEF Field
<1>1. SumOver(terms) = f[S]
  BY DEF SumOver, FoldFunction, FoldFunctionOnSet, MapThenFoldSet, FieldSums, First
<1>2. FieldSums(f, terms, S)
  <2>1. v \in [S \X Field -> Field]
    <3>1. ASSUME NEW p \in S \X Field
          PROVE  p[2] + terms[p[1]] \in Int
      <4>1. p[1] \in S /\ p[2] \in Field
        OBVIOUS
      <4>2. terms[p[1]] \in Int /\ p[2] \in Int
        BY <1>0, <4>1
      <4> QED BY <4>2
    <3> QED BY <3>1, ModType
  <2>2. PICK h \in [SUBSET S -> Field] : FoldedBy(h, 0, v, S)
    <3> HIDE DEF v
    <3> QED BY <1>0, <2>1, FoldExists
  <2>3. ASSUME NEW s \in SUBSET S, s # {}
        PROVE  v[<<First(s), h[s \ {First(s)}]>>] = Mod(h[s \ {First(s)}] + terms[First(s)])
    <3>1. First(s) \in S /\ h[s \ {First(s)}] \in Field
      BY <2>3, FirstIsElement
    <3> QED BY <3>1
  <2>4. FieldSums(h, terms, S)
    <3> HIDE DEF v
    <3>1. h = [s \in SUBSET S |-> IF s = {} THEN 0 ELSE v[<<First(s), h[s \ {First(s)}]>>]]
      BY <2>2 DEF FoldedBy
    <3> QED BY <2>3, <3>1 DEF FieldSums
  <2> QED BY <2>4
<1> HIDE DEF f
<1>3. ASSUME NEW s \in SUBSET S
      PROVE  f[s] = IF s = {} THEN 0 ELSE Mod(f[s \ {First(s)}] + terms[First(s)])
  BY <1>2 DEF FieldSums
<1> DEFINE Bad == {s \in SUBSET S : f[s] \notin Field}
<1>4. SUFFICES ASSUME Bad # {} PROVE FALSE
  BY <1>1
<1>5. PICK s \in Bad : \A u \in Bad : u \subseteq s => u = s
  <2>1. Bad \subseteq SUBSET S
    OBVIOUS
  <2> HIDE DEF Bad
  <2> QED BY <1>4, <2>1, SmallestSubset
<1>6. s # {}
  BY <1>0, <1>3
<1>7. First(s) \in s /\ f[s \ {First(s)}] \in Field
  BY <1>5, <1>6, FirstIsElement
<1>8. f[s] \in Field
  <2>1. f[s \ {First(s)}] \in Int /\ terms[First(s)] \in Int
    BY <1>0, <1>7
  <2>2. f[s \ {First(s)}] + terms[First(s)] \in Int
    BY <2>1
  <2> QED BY <1>3, <1>6, <2>2, ModType
<1> QED BY <1>8

LEMMA ProductOverType ==
  ASSUME NEW S, IsFiniteSet(S), NEW terms, DOMAIN terms = S, \A x \in S : terms[x] \in Int
  PROVE  ProductOver(terms) \in Field
<1> DEFINE f == CHOOSE g : FieldProducts(g, terms, S)
           v == [p \in S \X Field |-> Mod(p[2] * terms[p[1]])]
<1>0. Field \subseteq Int /\ 1 \in Field
  BY FieldAssumption DEF Field
<1>1. ProductOver(terms) = f[S]
  BY DEF ProductOver, FoldFunction, FoldFunctionOnSet, MapThenFoldSet, FieldProducts, First
<1>2. FieldProducts(f, terms, S)
  <2>1. v \in [S \X Field -> Field]
    <3>1. ASSUME NEW p \in S \X Field
          PROVE  p[2] * terms[p[1]] \in Int
      <4>1. p[1] \in S /\ p[2] \in Field
        OBVIOUS
      <4>2. terms[p[1]] \in Int /\ p[2] \in Int
        BY <1>0, <4>1
      <4> QED BY <4>2
    <3> QED BY <3>1, ModType
  <2>2. PICK h \in [SUBSET S -> Field] : FoldedBy(h, 1, v, S)
    <3> HIDE DEF v
    <3> QED BY <1>0, <2>1, FoldExists
  <2>3. ASSUME NEW s \in SUBSET S, s # {}
        PROVE  v[<<First(s), h[s \ {First(s)}]>>] = Mod(h[s \ {First(s)}] * terms[First(s)])
    <3>1. First(s) \in S /\ h[s \ {First(s)}] \in Field
      BY <2>3, FirstIsElement
    <3> QED BY <3>1
  <2>4. FieldProducts(h, terms, S)
    <3> HIDE DEF v
    <3>1. h = [s \in SUBSET S |-> IF s = {} THEN 1 ELSE v[<<First(s), h[s \ {First(s)}]>>]]
      BY <2>2 DEF FoldedBy
    <3> QED BY <2>3, <3>1 DEF FieldProducts
  <2> QED BY <2>4
<1> HIDE DEF f
<1>3. ASSUME NEW s \in SUBSET S
      PROVE  f[s] = IF s = {} THEN 1 ELSE Mod(f[s \ {First(s)}] * terms[First(s)])
  BY <1>2 DEF FieldProducts
<1> DEFINE Bad == {s \in SUBSET S : f[s] \notin Field}
<1>4. SUFFICES ASSUME Bad # {} PROVE FALSE
  BY <1>1
<1>5. PICK s \in Bad : \A u \in Bad : u \subseteq s => u = s
  <2>1. Bad \subseteq SUBSET S
    OBVIOUS
  <2> HIDE DEF Bad
  <2> QED BY <1>4, <2>1, SmallestSubset
<1>6. s # {}
  BY <1>0, <1>3
<1>7. First(s) \in s /\ f[s \ {First(s)}] \in Field
  BY <1>5, <1>6, FirstIsElement
<1>8. f[s] \in Field
  <2>1. f[s \ {First(s)}] \in Int /\ terms[First(s)] \in Int
    BY <1>0, <1>7
  <2>2. f[s \ {First(s)}] * terms[First(s)] \in Int
    BY <2>1
  <2> QED BY <1>3, <1>6, <2>2, ModType
<1> QED BY <1>8

LEMMA PowerType ==
  ASSUME NEW x \in Int, NEW n \in Nat
  PROVE  Power(x, n) \in Field
<1> DEFINE terms == [i \in 1 .. n |-> x]
<1>1. IsFiniteSet(1 .. n) /\ DOMAIN terms = 1 .. n /\ \A i \in 1 .. n : terms[i] \in Int
  BY FS_Interval
<1> HIDE DEF terms
<1>2. ProductOver(terms) \in Field
  BY <1>1, ProductOverType
<1> QED BY <1>2 DEF Power, terms

LEMMA PolynomialType ==
  ASSUME NEW k \in Field, NEW c \in Coefficients, NEW x \in Int
  PROVE  Polynomial(k, c, x) \in Field
<1> DEFINE n == Len(c)
           terms == [j \in 0 .. n |-> (IF j = 0 THEN k ELSE c[j]) * Power(x, j)]
<1>1. n = QUORUM - 1 /\ QUORUM - 1 \in Nat
  <2>1. QUORUM - 1 \in Nat
    BY ThresholdAssumption
  <2> QED BY <2>1, LenOfFunction DEF Coefficients
<1> HIDE DEF n
<1>2. Field \subseteq Int
  BY FieldAssumption DEF Field
<1>3. ASSUME NEW j \in 0 .. n
      PROVE  terms[j] \in Int
  <2>1. j \in Nat /\ (j # 0 => j \in 1 .. QUORUM - 1)
    BY <1>1
  <2>2. Power(x, j) \in Int
    BY <1>2, <2>1, PowerType
  <2>3. k \in Int /\ (j # 0 => c[j] \in Int)
    BY <1>2, <2>1 DEF Coefficients
  <2>4. CASE j = 0
    BY <2>2, <2>3, <2>4
  <2>5. CASE j # 0
    BY <2>2, <2>3, <2>5
  <2> QED BY <2>4, <2>5
<1>4. IsFiniteSet(0 .. n) /\ DOMAIN terms = 0 .. n
  BY <1>1, FS_Interval
<1> HIDE DEF terms
<1>5. SumOver(terms) \in Field
  BY <1>3, <1>4, SumOverType
<1> QED BY <1>5 DEF Polynomial, terms, n

\* Whatever shares of the key are put together, the result is a field element.
LEMMA CombineSharesType ==
  ASSUME NEW shares \in Seq([x : Int, y : Int])
  PROVE  CombineShares(shares) \in Field
<1> DEFINE n == Len(shares)
           num(i) == ProductOver([j \in (1 .. n) \ {i} |-> -shares[j].x])
           den(i) == ProductOver([j \in (1 .. n) \ {i} |-> shares[i].x - shares[j].x])
           terms == [i \in 1 .. n |-> shares[i].y * num(i) * ModInverse(den(i))]
<1>0. Field \subseteq Int
  BY FieldAssumption DEF Field
<1>1. n \in Nat /\ DOMAIN shares = 1 .. n /\ \A i \in 1 .. n : shares[i].x \in Int /\ shares[i].y \in Int
  <2>1. n \in Nat /\ DOMAIN shares = 1 .. n /\ \A i \in 1 .. n : shares[i] \in [x : Int, y : Int]
    BY LenProperties, ElementOfSeq
  <2> QED BY <2>1
<1>2. CombineShares(shares) = SumOver(terms)
  BY <1>1 DEF CombineShares
<1> HIDE DEF n
<1>3. ASSUME NEW i \in 1 .. n
      PROVE  terms[i] \in Int
  <2> DEFINE a == [j \in (1 .. n) \ {i} |-> -shares[j].x]
             b == [j \in (1 .. n) \ {i} |-> shares[i].x - shares[j].x]
  <2>1. IsFiniteSet((1 .. n) \ {i})
    BY <1>1, FS_Interval, FS_Subset
  <2>2. /\ DOMAIN a = (1 .. n) \ {i} /\ \A j \in (1 .. n) \ {i} : a[j] \in Int
        /\ DOMAIN b = (1 .. n) \ {i} /\ \A j \in (1 .. n) \ {i} : b[j] \in Int
    BY <1>1
  <2>3. ProductOver(a) \in Field /\ ProductOver(b) \in Field
    <3> HIDE DEF a, b
    <3> QED BY <2>1, <2>2, ProductOverType
  <2>4. num(i) \in Int /\ den(i) \in Int
    BY <1>0, <2>3
  <2> HIDE DEF num, den
  <2>5. ModInverse(den(i)) \in Int
    <3>1. FR_MODULUS - 2 \in Nat
      BY FieldAssumption
    <3> QED BY <1>0, <2>4, <3>1, PowerType DEF ModInverse
  <2>6. shares[i].y * num(i) \in Int
    BY <1>1, <2>4
  <2> QED BY <2>5, <2>6
<1>4. IsFiniteSet(1 .. n) /\ DOMAIN terms = 1 .. n
  BY <1>1, FS_Interval
<1> HIDE DEF terms
<1> QED BY <1>2, <1>3, <1>4, SumOverType

LEMMA LoadedKey ==
  ASSUME NEW n \in 1 .. AUTHORITIES
  PROVE  CombineShares(SubSeq(SplitViewKey(K_VIEW, Split), 1, n)) \in Field
<1> DEFINE all == SplitViewKey(K_VIEW, Split)
           Share == [x : Int, y : Int]
<1>1. AUTHORITIES \in Nat /\ Field \subseteq Int
  BY ThresholdAssumption, FieldAssumption DEF Field
<1>2. ASSUME NEW i \in 1 .. AUTHORITIES
      PROVE  all[i] \in Share
  <2>1. K_VIEW \in Field /\ Split \in Coefficients /\ i \in Int
    BY <1>1, ClawbackAssumption
  <2>2. Polynomial(K_VIEW, Split, i) \in Field
    BY <2>1, PolynomialType
  <2> QED BY <1>1, <2>1, <2>2 DEF SplitViewKey
<1>3. all \in Seq(Share) /\ Len(all) = AUTHORITIES
  <2>1. all = [i \in 1 .. AUTHORITIES |-> all[i]]
    BY DEF SplitViewKey
  <2> HIDE DEF all, Share
  <2> QED BY <1>1, <1>2, <2>1, LenOfFunction
<1> HIDE DEF all
<1>4. SubSeq(all, 1, n) \in Seq(Share)
  <2>1. \A i \in 1 .. n : all[i] \in Share
    BY <1>1, <1>2
  <2> HIDE DEF Share
  <2> QED BY <2>1, <1>1, SubSeqProperties
<1> QED BY <1>4, CombineSharesType DEF all

----------------------------------------------------------------------------
(* The inductive invariant.                                                 *)

\* An output slot of an event, and the one of an exact unshield.
Slot(note, j) ==
  [commitment |-> note, cAuditor |-> EncryptToAuditor(note, K_VIEW), cRecipient |-> EncryptToRecipient(note, j)]

Slots == {Slot(o, j) : o \in Note, j \in Nat}

EmptySlot == [commitment |-> Sentinel, cAuditor |-> NoCiphertext, cRecipient |-> NoCiphertext]

SealedOutputs(outs) == IF outs = << >> THEN <<EmptySlot>> ELSE [j \in 1 .. Len(outs) |-> Slot(outs[j], j)]

Told(asset, amount, recipient) == [asset |-> asset, amount |-> amount, recipient |-> recipient]

PaidTo(note) == Told(note.asset, note.value, note.owner)

\* Notes, who spent, and what was paid, as one of the three circuits has them.
Plausible(circuit, outs, spender, paid) ==
  /\ outs \in Seq(Note)
  /\ \/ circuit = "shield" /\ Len(outs) = 1 /\ spender = 0 /\ paid = PaidTo(outs[1])
     \/ circuit = "transfer" /\ Len(outs) = 2 /\ spender \in Owners /\ paid = PaidTo(outs[1]) /\ outs[2].owner = spender
     \/ /\ circuit = "unshield" /\ Len(outs) \in 0 .. 1 /\ spender \in Owners
        /\ \E asset, amount, recipient : paid = Told(asset, amount, recipient)
        /\ \A j \in 1 .. Len(outs) : outs[j].owner = spender

\* An event seals the plaintext that history keeps of it.
Posted(tx) ==
  \E circuit, nfs, outs, spender, paid :
    /\ Plausible(circuit, outs, spender, paid)
    /\ tx = [circuit |-> circuit, nullifiers |-> nfs, outputs |-> SealedOutputs(outs),
             publicReveal |-> IF circuit = "unshield" THEN paid ELSE NoReveal,
             truth |-> [outs |-> outs, paid |-> paid, spender |-> spender]]

Outs(tx) == tx.truth.outs

\* The outputs of the events are notes of the tree, no two of them the same.
LedgerInv ==
  /\ \E S : ledger \in Seq(S)
  /\ \A i \in 1 .. Len(ledger) : Posted(ledger[i])
  /\ \A i \in 1 .. Len(ledger) : \A j \in 1 .. Len(Outs(ledger[i])) : \E x \in 1 .. Len(log) : Outs(ledger[i])[j] = log[x]
  /\ \A i, k \in 1 .. Len(ledger) : \A j \in 1 .. Len(Outs(ledger[i])), m \in 1 .. Len(Outs(ledger[k])) :
        Outs(ledger[i])[j].rho = Outs(ledger[k])[m].rho => i = k /\ j = m

\* The panel shows what it made of an event under the key of that time.
ViewInv ==
  \/ desk.viewed = NotViewed
  \/ \E tx, key : Posted(tx) /\ desk.viewed = << [tx |-> tx, key |-> key] >> /\ desk.view = DecryptAuditorView(tx, key)

DeskShape ==
  \E listed, selected, target, key, shares, view, viewed :
    desk = [listed |-> listed, selected |-> selected, target |-> target, key |-> key, shares |-> shares,
            view |-> view, viewed |-> viewed]

DeskInv ==
  /\ DeskShape
  /\ desk.listed \in 0 .. Len(ledger)
  /\ desk.selected \in 0 .. Len(Listed(desk.listed))
  /\ desk.key \in Field \cup {NoKey}
  /\ desk.shares \in 0 .. AUTHORITIES
  /\ ViewInv

NullifierInv == nullifiers \subseteq Nullifiers

DisclosureInv == LedgerInv /\ DeskInv /\ NullifierInv

----------------------------------------------------------------------------
(* Events.                                                                  *)

\* What a witness that the builders make looks like.
WitnessForm(w) ==
  /\ w.outs \in Seq(Note)
  /\ \/ w.kind = "shield" /\ w.ins = << >> /\ Len(w.outs) = 1
     \/ /\ w.kind = "transfer" /\ w.ins # << >> /\ w.ins[1].owner \in Owners /\ Len(w.outs) = 2
        /\ w.outs[2].owner = w.ins[1].owner
     \/ /\ w.kind = "unshield" /\ w.ins # << >> /\ w.ins[1].owner \in Owners /\ Len(w.outs) \in 0 .. 1
        /\ \A j \in 1 .. Len(w.outs) : w.outs[j].owner = w.ins[1].owner

SealedFor(s, w) ==
  s.w = w /\ s.cAuditor = [i \in DOMAIN w.outs |-> EncryptToAuditor(w.outs[i], K_VIEW)]

LEMMA EventPosted ==
  ASSUME NEW w, WitnessForm(w), NEW s, SealedFor(s, w)
  PROVE  Posted(Event(s)) /\ Event(s).truth.outs = w.outs
<1> DEFINE paid == CASE w.kind = "unshield" -> Told(w.ins[1].asset, w.amount, w.recipient)
                     [] OTHER -> PaidTo(w.outs[1])
           spender == IF w.ins = << >> THEN 0 ELSE w.ins[1].owner
           outs == w.outs
<1>1. outs \in Seq(Note) /\ DOMAIN outs = 1 .. Len(outs) /\ Len(outs) \in Nat
  BY LenProperties DEF WitnessForm
<1>2. Event(s) = [circuit |-> w.kind, nullifiers |-> s.nullifiers, outputs |-> Event(s).outputs,
                  publicReveal |-> IF w.kind = "unshield" THEN paid ELSE NoReveal,
                  truth |-> [outs |-> outs, paid |-> paid, spender |-> spender]]
  BY DEF Event, Told, PaidTo, SealedFor
<1>3. Event(s).outputs = SealedOutputs(outs)
  <2>1. CASE outs = << >>
    BY <2>1 DEF Event, SealedOutputs, EmptySlot, SealedFor
  <2>2. CASE outs # << >>
    <3>1. Event(s).outputs = [i \in 1 .. Len(outs) |-> [commitment |-> outs[i], cAuditor |-> s.cAuditor[i],
                                                       cRecipient |-> EncryptToRecipient(outs[i], i)]]
      BY <1>1, <2>2 DEF Event, SealedFor
    <3>2. \A i \in 1 .. Len(outs) : s.cAuditor[i] = EncryptToAuditor(outs[i], K_VIEW)
      BY <1>1 DEF SealedFor
    <3> QED BY <2>2, <3>1, <3>2 DEF SealedOutputs, Slot
  <2> QED BY <2>1, <2>2
<1>4. Plausible(w.kind, outs, spender, paid)
  <2>1. CASE w.kind = "shield" /\ w.ins = << >> /\ Len(w.outs) = 1
    BY <1>1, <2>1 DEF Plausible
  <2>2. CASE /\ w.kind = "transfer" /\ w.ins # << >> /\ w.ins[1].owner \in Owners /\ Len(w.outs) = 2
             /\ w.outs[2].owner = w.ins[1].owner
    BY <1>1, <2>2 DEF Plausible
  <2>3. CASE /\ w.kind = "unshield" /\ w.ins # << >> /\ w.ins[1].owner \in Owners /\ Len(w.outs) \in 0 .. 1
             /\ \A j \in 1 .. Len(w.outs) : w.outs[j].owner = w.ins[1].owner
    BY <1>1, <2>3 DEF Plausible
  <2> QED BY <2>1, <2>2, <2>3 DEF WitnessForm
<1> HIDE DEF paid, spender, outs
<1>5. Posted(Event(s))
  BY <1>2, <1>3, <1>4 DEF Posted
<1> QED BY <1>2, <1>5 DEF outs

LEMMA PastPosted ==
  ASSUME NEW w, WitnessForm(w)
  PROVE  Posted(PastEvent(w)) /\ PastEvent(w).truth.outs = w.outs
<1> DEFINE s == [w |-> w, nullifiers |-> [i \in DOMAIN w.ins |-> Nullifier(w.ins[i])],
                 cAuditor |-> [i \in DOMAIN w.outs |-> EncryptToAuditor(w.outs[i], K_VIEW)]]
<1>1. SealedFor(s, w)
  BY DEF SealedFor
<1>2. PastEvent(w) = Event(s)
  BY DEF PastEvent
<1> HIDE DEF s
<1> QED BY <1>1, <1>2, EventPosted

LEMMA ShieldForm ==
  ASSUME NEW o \in Note
  PROVE  WitnessForm(ShieldWitness(o)) /\ ShieldWitness(o).outs = <<o>>
BY DEF WitnessForm, ShieldWitness

LEMMA TransferForm ==
  ASSUME NEW anchor, NEW i, NEW j, NEW o \in Note, NEW p \in Note, i.owner \in Owners, p.owner = i.owner
  PROVE  WitnessForm(TransferWitness(anchor, i, j, o, p))
<1> DEFINE w == TransferWitness(anchor, i, j, o, p)
<1>1. w.kind = "transfer" /\ w.ins = <<i, j>> /\ w.outs = <<o, p>>
  BY DEF TransferWitness
<1> HIDE DEF w
<1>2. w.ins # << >> /\ w.ins[1] = i /\ w.outs \in Seq(Note) /\ Len(w.outs) = 2 /\ w.outs[2] = p
  BY <1>1
<1> QED BY <1>1, <1>2 DEF WitnessForm, w

LEMMA UnshieldForm ==
  ASSUME NEW anchor, NEW i, NEW amount, NEW recipient, NEW change \in Seq(Note), i.owner \in Owners,
         Len(change) \in 0 .. 1, \A j \in 1 .. Len(change) : change[j].owner = i.owner
  PROVE  WitnessForm(UnshieldWitness(anchor, i, amount, recipient, change))
<1> DEFINE w == UnshieldWitness(anchor, i, amount, recipient, change)
<1>1. w.kind = "unshield" /\ w.ins = <<i>> /\ w.outs = change
  BY DEF UnshieldWitness
<1> HIDE DEF w
<1>2. w.ins # << >> /\ w.ins[1] = i
  BY <1>1
<1> QED BY <1>1, <1>2 DEF WitnessForm, w

\* The fixture is such as the chain could have.
LEMMA DemoPosted ==
  /\ Len(DemoTransactions) = 2 /\ DOMAIN DemoTransactions = 1 .. 2
  /\ Posted(DemoTransactions[1]) /\ Posted(DemoTransactions[2])
<1>1. /\ PartyA \in Owners /\ PartyB \in Owners
      /\ DeriveAssetId(SacX) \in Assets /\ DeriveAssetId(SacY) \in Assets
      /\ 1 \in Value /\ 2 \in Value
  BY SignalsAssumption, NotesAssumption DEF Value
<1>2. /\ NoteOf(SacX, 2, PartyB, 3) \in Note /\ NoteOf(SacX, 1, PartyA, 4) \in Note
      /\ NoteOf(SacY, 2, PartyA, 5) \in Note
  BY <1>1 DEF NoteOf, Note
<1>3. NoteOf(SacX, 1, PartyA, 4).owner = PartyA /\ NoteOf(SacX, 2, PartyA, 1).owner = PartyA
  BY DEF NoteOf
<1>4. Posted(PastEvent(ShieldWitness(NoteOf(SacY, 2, PartyA, 5))))
  BY <1>2, ShieldForm, PastPosted
<1>5. Posted(PastEvent(TransferWitness(<< >>, NoteOf(SacX, 2, PartyA, 1), NoteOf(SacX, 1, PartyA, 2),
                                       NoteOf(SacX, 2, PartyB, 3), NoteOf(SacX, 1, PartyA, 4))))
  BY <1>1, <1>2, <1>3, TransferForm, PastPosted
<1> QED BY <1>4, <1>5 DEF DemoTransactions

LEMMA InitDisclosure == Init => DisclosureInv
<1> SUFFICES ASSUME Init PROVE DisclosureInv
  OBVIOUS
<1> DEFINE n == Len(log)
           Events == {PastEvent(ShieldWitness(o)) : o \in Note}
<1>1. log \in Seq(Note) /\ n \in Nat /\ DOMAIN log = 1 .. n /\ \A i \in 1 .. n : log[i] \in Note
  <2>1. log \in Seq(Note)
    BY ClawbackAssumption DEF Init, Leaves
  <2> QED BY <2>1, LenProperties, ElementOfSeq
<1>2. \A i, j \in 1 .. n : log[i].rho = log[j].rho => i = j
  BY InitClawback DEF ClawbackInv, LogInv
<1> HIDE DEF n
<1>3. ledger = [i \in 1 .. n |-> PastEvent(ShieldWitness(log[i]))]
  BY <1>1 DEF Init
<1>4. ASSUME NEW i \in 1 .. n
      PROVE  /\ ledger[i] \in Events
             /\ Posted(ledger[i])
             /\ Outs(ledger[i]) = <<log[i]>>
  BY <1>1, <1>3, ShieldForm, PastPosted DEF Outs
<1>5. ledger \in Seq(Events) /\ Len(ledger) = n
  <2>1. ledger = [i \in 1 .. n |-> ledger[i]]
    BY <1>3
  <2> HIDE DEF Events
  <2> QED BY <1>1, <1>4, <2>1, LenOfFunction
<1>6. LedgerInv
  <2>1. \A i \in 1 .. n : \A j \in 1 .. Len(Outs(ledger[i])) : j = 1 /\ Outs(ledger[i])[j] = log[i]
    <3> TAKE i \in 1 .. n
    <3> TAKE j \in 1 .. Len(Outs(ledger[i]))
    <3>1. Outs(ledger[i]) = <<log[i]>>
      BY <1>4
    <3>2. j = 1
      BY <3>1
    <3> QED BY <3>1, <3>2
  <2>2. \A i \in 1 .. n : \A j \in 1 .. Len(Outs(ledger[i])) : \E x \in 1 .. Len(log) : Outs(ledger[i])[j] = log[x]
    BY <2>1 DEF n
  <2>3. ASSUME NEW i \in 1 .. n, NEW k \in 1 .. n, NEW j \in 1 .. Len(Outs(ledger[i])), NEW m \in 1 .. Len(Outs(ledger[k])),
               Outs(ledger[i])[j].rho = Outs(ledger[k])[m].rho
        PROVE  i = k /\ j = m
    BY <1>2, <2>1, <2>3
  <2> HIDE DEF Events
  <2> QED BY <1>4, <1>5, <2>2, <2>3 DEF LedgerInv
<1>7. DeskInv
  <2>1. desk = OpenedDesk(0)
    BY DEF Init
  <2>2. Len(Listed(0)) = 2
    BY DemoPosted DEF Listed
  <2>3. AUTHORITIES \in Nat
    BY ThresholdAssumption
  <2>4. desk.viewed = NotViewed /\ desk.listed = 0 /\ desk.selected = 0 /\ desk.key = NoKey /\ desk.shares = 0
    BY <2>1 DEF OpenedDesk
  <2>5. DeskShape
    BY <2>1 DEF OpenedDesk, DeskShape
  <2>6. desk.listed \in 0 .. Len(ledger) /\ desk.selected \in 0 .. Len(Listed(desk.listed))
    BY <1>1, <1>5, <2>2, <2>4
  <2>7. ViewInv
    BY <2>4 DEF ViewInv
  <2> QED BY <2>3, <2>4, <2>5, <2>6, <2>7 DEF DeskInv
<1>8. NullifierInv
  BY DEF Init, NullifierInv
<1> QED BY <1>6, <1>7, <1>8 DEF DisclosureInv

----------------------------------------------------------------------------
(* A submission.                                                            *)

\* What the prover accepts of what the builders made.
LEMMA SubmittedForm ==
  ASSUME ClawbackInv, NEW w, WitnessInv(w), \A i \in DOMAIN w.outs : w.outs[i].value \in Value
  PROVE  WitnessForm(w)
<1>0. \A o \in Minting : o.value \in Value => o \in Note
  BY DEF Minting, Draft, Note
<1>1. \A i \in 1 .. Len(log) : log[i].owner \in Owners
  BY LogNote DEF ClawbackInv
<1>2. ASSUME NEW o \in Minting, w = ShieldWitness(o)
      PROVE  WitnessForm(w)
  <2>1. o \in Note
    <3>1. w.outs = <<o>>
      BY <1>2 DEF ShieldWitness
    <3>2. 1 \in DOMAIN w.outs /\ w.outs[1] = o
      BY <3>1
    <3> QED BY <1>0, <3>2
  <2> QED BY <1>2, <2>1, ShieldForm
<1>3. ASSUME NEW i \in 1 .. Len(log), NEW j \in 1 .. Len(log), NEW o \in Minting, NEW p \in Minting,
             p.owner = log[i].owner, w = TransferWitness(log, log[i], log[j], o, p)
      PROVE  WitnessForm(w)
  <2>1. o \in Note /\ p \in Note
    <3>1. w.outs = <<o, p>>
      BY <1>3 DEF TransferWitness
    <3>2. 1 \in DOMAIN w.outs /\ w.outs[1] = o /\ 2 \in DOMAIN w.outs /\ w.outs[2] = p
      BY <3>1
    <3> QED BY <1>0, <3>2
  <2> QED BY <1>1, <1>3, <2>1, TransferForm
<1>4. ASSUME NEW i \in 1 .. Len(log), NEW amount \in Nat, NEW recipient \in Owners,
             NEW change \in {<< >>} \cup {<<o>> : o \in Minting},
             \A k \in DOMAIN change : change[k].owner = log[i].owner,
             w = UnshieldWitness(log, log[i], amount, recipient, change)
      PROVE  WitnessForm(w)
  <2>1. w.outs = change
    BY <1>4 DEF UnshieldWitness
  <2>2. CASE change = << >>
    <3>1. /\ change \in Seq(Note) /\ Len(change) \in 0 .. 1 /\ log[i].owner \in Owners
          /\ \A j \in 1 .. Len(change) : change[j].owner = log[i].owner
      BY <1>1, <2>2
    <3>2. WitnessForm(UnshieldWitness(log, log[i], amount, recipient, change))
      BY <3>1, UnshieldForm
    <3> QED BY <1>4, <3>2
  <2>3. ASSUME NEW o \in Minting, change = <<o>>
        PROVE  WitnessForm(w)
    <3>1. 1 \in DOMAIN change /\ change[1] = o /\ Len(change) = 1
      BY <2>3
    <3>2. o \in Note /\ o.owner = log[i].owner
      BY <1>0, <1>4, <2>1, <3>1
    <3>3. change \in Seq(Note) /\ \A j \in 1 .. Len(change) : change[j].owner = log[i].owner
      BY <2>3, <3>1, <3>2
    <3>4. WitnessForm(UnshieldWitness(log, log[i], amount, recipient, change))
      BY <1>1, <3>1, <3>3, UnshieldForm
    <3> QED BY <1>4, <3>4
  <2> QED BY <2>2, <2>3
<1> QED BY <1>2, <1>3, <1>4 DEF WitnessInv

LEMMA FreshOutputs ==
  ASSUME NEW w, WitnessInv(w)
  PROVE  /\ \A j \in 1 .. Len(w.outs) : w.outs[j].rho \in Unused
         /\ \A j, m \in 1 .. Len(w.outs) : w.outs[j].rho = w.outs[m].rho => j = m
<1>1. CASE w.outs = << >>
  BY <1>1
<1>2. ASSUME NEW o \in Minting, w.outs = <<o>>
      PROVE  /\ \A j \in 1 .. Len(w.outs) : w.outs[j].rho \in Unused
             /\ \A j, m \in 1 .. Len(w.outs) : w.outs[j].rho = w.outs[m].rho => j = m
  BY <1>2 DEF Minting
<1>3. ASSUME NEW o \in Minting, NEW p \in Minting, w.outs = <<o, p>>, o.rho # p.rho
      PROVE  /\ \A j \in 1 .. Len(w.outs) : w.outs[j].rho \in Unused
             /\ \A j, m \in 1 .. Len(w.outs) : w.outs[j].rho = w.outs[m].rho => j = m
  <2>1. Len(w.outs) = 2 /\ w.outs[1] = o /\ w.outs[2] = p
    BY <1>3
  <2>2. \A j \in 1 .. Len(w.outs) : j = 1 \/ j = 2
    BY <2>1
  <2> QED BY <1>3, <2>1, <2>2 DEF Minting
<1> QED BY <1>1, <1>2, <1>3, WitnessShape

LEMMA SubmitLedger ==
  ASSUME ClawbackInv, LedgerInv, Submit
  PROVE  LedgerInv' /\ Len(ledger') = Len(ledger) + 1 /\ \E S : ledger' \in Seq(S)
<1>1. PICK w, seen :
        /\ proof = << [signals |-> SignalsOf(w, LiveView(seen)), view |-> LiveView(seen)] >>
        /\ WitnessInv(w)
  BY DEF ClawbackInv, ProofInv, Submit
<1> DEFINE s == SignalsOf(w, LiveView(seen))
           n == Len(ledger)
           k == Len(log)
<1>2. /\ log' = log \o w.outs
      /\ \A i \in DOMAIN w.outs : w.outs[i].value \in Value
  BY <1>1, SubmitTree DEF SubmitsTree
<1>3. WitnessForm(w)
  BY <1>1, <1>2, SubmittedForm
<1>4. w.outs \in Seq(Note) /\ Len(w.outs) \in Nat
  BY <1>3, LenProperties DEF WitnessForm
<1>5. SealedFor(s, w)
  BY DEF SealedFor, SignalsOf, LiveView, ViewOf
<1>6. ledger' = Append(ledger, Event(s))
  BY <1>1 DEF Submit
<1> HIDE DEF s
<1>7. Posted(Event(s)) /\ Event(s).truth.outs = w.outs
  BY <1>3, <1>5, EventPosted
<1>8. PICK S : ledger \in Seq(S)
  BY DEF LedgerInv
<1> DEFINE S1 == S \cup {Event(s)}
<1>9. /\ ledger' \in Seq(S1) /\ n \in Nat /\ Len(ledger') = n + 1
      /\ \A i \in 1 .. n : ledger'[i] = ledger[i]
      /\ ledger'[n + 1] = Event(s)
  <2>1. ledger \in Seq(S1)
    BY <1>8
  <2>2. Event(s) \in S1
    OBVIOUS
  <2> HIDE DEF S1
  <2> QED BY <1>6, <2>1, <2>2, AppendProperties, LenProperties
<1>10. /\ k \in Nat /\ Len(log') = k + Len(w.outs)
       /\ \A i \in 1 .. k : log'[i] = log[i]
       /\ \A j \in 1 .. Len(w.outs) : log'[k + j] = w.outs[j]
  <2>1. log \in Seq(Note) /\ k \in Nat
    BY LenProperties DEF ClawbackInv, LogInv
  <2>2. /\ Len(log') = k + Len(w.outs)
        /\ \A i \in 1 .. k + Len(w.outs) : log'[i] = IF i <= k THEN log[i] ELSE w.outs[i - k]
    BY <1>2, <1>4, <2>1, ConcatProperties
  <2> HIDE DEF k
  <2>3. \A i \in 1 .. k : i \in 1 .. k + Len(w.outs) /\ i <= k
    BY <1>4, <2>1
  <2>4. \A j \in 1 .. Len(w.outs) : k + j \in 1 .. k + Len(w.outs) /\ ~(k + j <= k) /\ (k + j) - k = j
    BY <1>4, <2>1
  <2>5. ASSUME NEW j \in 1 .. Len(w.outs)
        PROVE  log'[k + j] = w.outs[j]
    BY <2>2, <2>4
  <2> QED BY <2>1, <2>2, <2>3, <2>5
<1>11. /\ \A i \in 1 .. n : Outs(ledger'[i]) = Outs(ledger[i])
       /\ Outs(ledger'[n + 1]) = w.outs
  BY <1>7, <1>9 DEF Outs
<1>12. /\ \A i \in 1 .. n : Posted(ledger[i])
       /\ \A i \in 1 .. n : \A j \in 1 .. Len(Outs(ledger[i])) : \E x \in 1 .. k : Outs(ledger[i])[j] = log[x]
       /\ \A i, l \in 1 .. n : \A j \in 1 .. Len(Outs(ledger[i])), m \in 1 .. Len(Outs(ledger[l])) :
             Outs(ledger[i])[j].rho = Outs(ledger[l])[m].rho => i = l /\ j = m
  BY DEF LedgerInv
<1>13. \A u \in Unused : \A x \in 1 .. k : log[x].rho # u
  <2>1. DOMAIN log = 1 .. k
    BY LenProperties DEF ClawbackInv, LogInv
  <2> QED BY <2>1 DEF Unused, NumberOf
<1> HIDE DEF n, k, S1
<1>14. \A i \in 1 .. n + 1 : i \in 1 .. n \/ i = n + 1
  BY <1>9
<1>15. \A i \in 1 .. n + 1 : Posted(ledger'[i])
  BY <1>7, <1>9, <1>12, <1>14
<1>16. ASSUME NEW i \in 1 .. n + 1, NEW j \in 1 .. Len(Outs(ledger'[i]))
       PROVE  \E x \in 1 .. Len(log') : Outs(ledger'[i])[j] = log'[x]
  <2>1. CASE i \in 1 .. n
    <3>1. PICK x \in 1 .. k : Outs(ledger[i])[j] = log[x]
      BY <1>11, <1>12, <2>1
    <3>2. x \in 1 .. Len(log') /\ log'[x] = log[x]
      BY <1>4, <1>10
    <3> QED BY <1>11, <2>1, <3>1, <3>2
  <2>2. CASE i = n + 1
    <3>1. j \in 1 .. Len(w.outs) /\ Outs(ledger'[i])[j] = w.outs[j]
      BY <1>11, <2>2
    <3>2. k + j \in 1 .. Len(log') /\ log'[k + j] = w.outs[j]
      BY <1>4, <1>10, <3>1
    <3> QED BY <3>1, <3>2
  <2> QED BY <1>14, <2>1, <2>2
<1>17. ASSUME NEW i \in 1 .. n + 1, NEW l \in 1 .. n + 1, NEW j \in 1 .. Len(Outs(ledger'[i])), NEW m \in 1 .. Len(Outs(ledger'[l])),
              Outs(ledger'[i])[j].rho = Outs(ledger'[l])[m].rho
       PROVE  i = l /\ j = m
  <2>1. \A a \in 1 .. n : \A b \in 1 .. Len(Outs(ledger[a])), c \in 1 .. Len(w.outs) : Outs(ledger[a])[b].rho # w.outs[c].rho
    <3> TAKE a \in 1 .. n
    <3> TAKE b \in 1 .. Len(Outs(ledger[a])), c \in 1 .. Len(w.outs)
    <3>1. PICK x \in 1 .. k : Outs(ledger[a])[b] = log[x]
      BY <1>12
    <3>2. w.outs[c].rho \in Unused
      BY <1>1, FreshOutputs
    <3> QED BY <1>13, <3>1, <3>2
  <2>2. CASE i \in 1 .. n /\ l \in 1 .. n
    BY <1>11, <1>12, <1>17, <2>2
  <2>3. CASE i = n + 1 /\ l = n + 1
    BY <1>1, <1>11, <1>17, <2>3, FreshOutputs
  <2>4. CASE i \in 1 .. n /\ l = n + 1
    BY <1>11, <1>17, <2>1, <2>4
  <2>5. CASE i = n + 1 /\ l \in 1 .. n
    BY <1>11, <1>17, <2>1, <2>5
  <2> QED BY <1>14, <2>2, <2>3, <2>4, <2>5
<1>18. LedgerInv'
  BY <1>9, <1>15, <1>16, <1>17 DEF LedgerInv
<1> QED BY <1>9, <1>18 DEF n

LEMMA SubmitNullifiers ==
  ASSUME ClawbackInv, NullifierInv, Submit
  PROVE  NullifierInv'
<1>1. PICK w, seen :
        /\ proof = << [signals |-> SignalsOf(w, LiveView(seen)), view |-> LiveView(seen)] >>
        /\ WitnessInv(w)
  BY DEF ClawbackInv, ProofInv, Submit
<1> DEFINE nfs == [i \in DOMAIN w.ins |-> Nullifier(w.ins[i])]
<1>2. nullifiers' = nullifiers \cup ToSet(nfs)
  <2>1. SignalsOf(w, LiveView(seen)).nullifiers = nfs
    BY DEF SignalsOf
  <2> HIDE DEF nfs
  <2> QED BY <1>1, <2>1 DEF Submit
<1>3. ASSUME NEW i \in DOMAIN w.ins
      PROVE  Nullifier(w.ins[i]) \in Nullifiers
  <2>1. PICK x \in 1 .. Len(log) : w.ins[i] = log[x]
    BY <1>1, WitnessShape
  <2>2. log[x] \in Note
    BY LogNote DEF ClawbackInv
  <2> QED BY <2>1, <2>2 DEF Nullifier, Nullifiers, Note
<1>4. ToSet(nfs) \subseteq Nullifiers
  BY <1>3 DEF ToSet
<1> QED BY <1>2, <1>4 DEF NullifierInv

----------------------------------------------------------------------------
(* Every step.                                                              *)

\* What the page lists: the fixture, or the first events.
LEMMA ListedOf ==
  ASSUME NEW S, NEW l \in Seq(S), NEW n \in 0 .. Len(l), \A i \in 1 .. Len(l) : Posted(l[i])
  PROVE  LET list == IF n = 0 THEN DemoTransactions ELSE SubSeq(l, 1, n)
             size == IF n = 0 THEN 2 ELSE n
         IN  Len(list) = size /\ DOMAIN list = 1 .. size /\ \A i \in 1 .. size : Posted(list[i])
<1>1. CASE n = 0
  <2>1. \A i \in 1 .. 2 : i = 1 \/ i = 2
    OBVIOUS
  <2> QED BY <1>1, <2>1, DemoPosted
<1>2. CASE n # 0
  <2>1. Len(l) \in Nat /\ \A i \in 1 .. Len(l) : l[i] \in S
    BY LenProperties, ElementOfSeq
  <2>2. 1 \in Int /\ n \in Int /\ \A i \in 1 .. n : l[i] \in S
    BY <2>1
  <2>3. SubSeq(l, 1, n) \in Seq(S) /\ Len(SubSeq(l, 1, n)) = n /\ \A i \in 1 .. n : SubSeq(l, 1, n)[i] = l[i]
    <3>1. Len(SubSeq(l, 1, n)) = IF 1 <= n THEN n - 1 + 1 ELSE 0
      BY <2>2, SubSeqProperties
    <3>2. Len(SubSeq(l, 1, n)) = n
      BY <1>2, <2>1, <3>1
    <3>3. \A i \in 1 .. n - 1 + 1 : SubSeq(l, 1, n)[i] = l[1 + i - 1]
      BY <2>2, SubSeqProperties
    <3>4. ASSUME NEW i \in 1 .. n
          PROVE  SubSeq(l, 1, n)[i] = l[i]
      <4>1. i \in 1 .. n - 1 + 1 /\ 1 + i - 1 = i
        BY <2>1
      <4> QED BY <3>3, <4>1
    <3> QED BY <2>2, <3>2, <3>4, SubSeqProperties
  <2>4. DOMAIN SubSeq(l, 1, n) = 1 .. n
    BY <2>3, LenProperties
  <2>5. \A i \in 1 .. n : i \in 1 .. Len(l)
    BY <2>1
  <2> QED BY <1>2, <2>3, <2>4, <2>5
<1> QED BY <1>1, <1>2

LEMMA ListedDef ==
  ASSUME LedgerInv, NEW n \in 0 .. Len(ledger)
  PROVE  /\ DOMAIN Listed(n) = 1 .. Len(Listed(n))
         /\ \A i \in 1 .. Len(Listed(n)) : Posted(Listed(n)[i])
<1>1. PICK S : ledger \in Seq(S)
  BY DEF LedgerInv
<1>2. \A i \in 1 .. Len(ledger) : Posted(ledger[i])
  BY DEF LedgerInv
<1> DEFINE list == IF n = 0 THEN DemoTransactions ELSE SubSeq(ledger, 1, n)
           size == IF n = 0 THEN 2 ELSE n
<1>3. Len(list) = size /\ DOMAIN list = 1 .. size /\ \A i \in 1 .. size : Posted(list[i])
  BY <1>1, <1>2, ListedOf
<1>4. Listed(n) = list
  BY DEF Listed
<1> HIDE DEF list, size
<1> QED BY <1>3, <1>4

LEMMA DeskStill ==
  ASSUME LedgerInv, DeskInv, LedgerInv', desk' = desk, Len(ledger) <= Len(ledger')
  PROVE  DeskInv'
<1>1. PICK S : ledger \in Seq(S)
  BY DEF LedgerInv
<1>2. PICK T : ledger' \in Seq(T)
  BY DEF LedgerInv
<1>3. /\ \A i \in 1 .. Len(ledger) : Posted(ledger[i])
      /\ \A i \in 1 .. Len(ledger') : Posted(ledger'[i])
  BY DEF LedgerInv
<1> DEFINE n == desk.listed
<1>4. n \in 0 .. Len(ledger) /\ n \in 0 .. Len(ledger')
  <2>1. Len(ledger) \in Nat /\ Len(ledger') \in Nat
    BY <1>1, <1>2, LenProperties
  <2> QED BY <2>1 DEF DeskInv
<1> HIDE DEF n
<1>5. Len(Listed(n)) = Len(Listed(n)')
  <2>1. Len(IF n = 0 THEN DemoTransactions ELSE SubSeq(ledger, 1, n)) = IF n = 0 THEN 2 ELSE n
    BY <1>1, <1>3, <1>4, ListedOf
  <2>2. Len(IF n = 0 THEN DemoTransactions ELSE SubSeq(ledger', 1, n)) = IF n = 0 THEN 2 ELSE n
    BY <1>2, <1>3, <1>4, ListedOf
  <2>3. n' = n
    BY DEF n
  <2> QED BY <2>1, <2>2, <2>3 DEF Listed
<1>6. ViewInv'
  BY DEF DeskInv, ViewInv
<1>7. Listed(desk.listed)' = Listed(n)'
  BY DEF n
<1> QED BY <1>4, <1>5, <1>6, <1>7 DEF DeskInv, DeskShape, n

LEMMA DeskStep ==
  ASSUME LedgerInv, DeskInv, ledger' = ledger,
         \/ OpenPage \/ (\E i \in DOMAIN Listed(desk.listed) : Select(i)) \/ (\E n \in 1 .. AUTHORITIES : LoadKey(n))
         \/ ClearKey \/ Decrypt \/ PickTarget
  PROVE  DeskInv'
<1>1. PICK listed, selected, target, key, shares, view, viewed :
        desk = [listed |-> listed, selected |-> selected, target |-> target, key |-> key, shares |-> shares,
                view |-> view, viewed |-> viewed]
  BY DEF DeskInv, DeskShape
<1>2. \A n : Listed(n)' = Listed(n)
  BY DEF Listed
<1>3. /\ listed \in 0 .. Len(ledger) /\ selected \in 0 .. Len(Listed(listed)) /\ key \in Field \cup {NoKey}
      /\ shares \in 0 .. AUTHORITIES /\ ViewInv /\ desk.viewed = viewed /\ desk.view = view
  BY <1>1 DEF DeskInv
<1>4. AUTHORITIES \in Nat
  BY ThresholdAssumption
<1>5. CASE OpenPage
  <2>1. desk' = [listed |-> Len(ledger), selected |-> 0, target |-> 0, key |-> key, shares |-> shares,
                 view |-> NoView, viewed |-> NotViewed]
    BY <1>1, <1>5 DEF OpenPage, OpenedDesk
  <2>2. Len(ledger) \in 0 .. Len(ledger)
    BY LenProperties DEF LedgerInv
  <2>3. 0 \in 0 .. Len(Listed(Len(ledger)))
    <3>1. DOMAIN Listed(Len(ledger)) = 1 .. Len(Listed(Len(ledger)))
      BY <2>2, ListedDef
    <3>2. PICK S : ledger \in Seq(S)
      BY DEF LedgerInv
    <3>3. \A i \in 1 .. Len(ledger) : Posted(ledger[i])
      BY DEF LedgerInv
    <3>4. Len(IF Len(ledger) = 0 THEN DemoTransactions ELSE SubSeq(ledger, 1, Len(ledger)))
            = IF Len(ledger) = 0 THEN 2 ELSE Len(ledger)
      BY <2>2, <3>2, <3>3, ListedOf
    <3> QED BY <2>2, <3>4 DEF Listed
  <2>4. ViewInv' /\ DeskShape'
    BY <2>1 DEF ViewInv, DeskShape
  <2> QED BY <1>2, <1>3, <2>1, <2>2, <2>3, <2>4 DEF DeskInv
<1>6. ASSUME NEW i \in DOMAIN Listed(desk.listed), Select(i)
      PROVE  DeskInv'
  <2>1. desk' = [listed |-> listed, selected |-> i, target |-> target, key |-> key, shares |-> shares,
                 view |-> view, viewed |-> viewed]
    BY <1>1, <1>6 DEF Select
  <2>2. i \in 0 .. Len(Listed(listed))
    <3>1. DOMAIN Listed(listed) = 1 .. Len(Listed(listed)) /\ desk.listed = listed
      BY <1>1, <1>3, ListedDef
    <3>2. i \in 1 .. Len(Listed(listed))
      BY <3>1
    <3> QED BY <3>2
  <2>3. ViewInv' /\ DeskShape'
    BY <1>3, <2>1 DEF ViewInv, DeskShape
  <2> QED BY <1>2, <1>3, <2>1, <2>2, <2>3 DEF DeskInv
<1>7. ASSUME NEW n \in 1 .. AUTHORITIES, LoadKey(n)
      PROVE  DeskInv'
  <2> DEFINE k == CombineShares(SubSeq(SplitViewKey(K_VIEW, Split), 1, n))
  <2>1. k \in Field
    BY LoadedKey
  <2>2. desk' = [listed |-> listed, selected |-> selected, target |-> target, key |-> k, shares |-> n,
                 view |-> view, viewed |-> viewed]
    BY <1>1, <1>7 DEF LoadKey
  <2> HIDE DEF k
  <2>3. n \in 0 .. AUTHORITIES
    BY <1>4
  <2>4. ViewInv' /\ DeskShape'
    BY <1>3, <2>2 DEF ViewInv, DeskShape
  <2> QED BY <1>2, <1>3, <2>1, <2>2, <2>3, <2>4 DEF DeskInv
<1>8. CASE ClearKey
  <2>1. desk' = [listed |-> listed, selected |-> selected, target |-> target, key |-> NoKey, shares |-> 0,
                 view |-> view, viewed |-> viewed]
    BY <1>1, <1>8 DEF ClearKey
  <2>2. ViewInv' /\ DeskShape'
    BY <1>3, <2>1 DEF ViewInv, DeskShape
  <2> QED BY <1>2, <1>3, <1>4, <2>1, <2>2 DEF DeskInv
<1>9. CASE Decrypt
  <2> DEFINE tx == Listed(listed)[selected]
  <2>1. desk' = [listed |-> listed, selected |-> selected, target |-> target, key |-> key, shares |-> shares,
                 view |-> DecryptAuditorView(tx, key), viewed |-> <<[tx |-> tx, key |-> key]>>]
    BY <1>1, <1>9 DEF Decrypt, Decrypted
  <2>2. Posted(tx)
    <3>1. selected \in 1 .. Len(Listed(listed))
      <4>1. selected # 0
        BY <1>1, <1>9 DEF Decrypt
      <4> QED BY <1>3, <4>1
    <3> QED BY <1>3, <3>1, ListedDef
  <2> HIDE DEF tx
  <2>3. ViewInv' /\ DeskShape'
    BY <2>1, <2>2 DEF ViewInv, DeskShape
  <2> QED BY <1>2, <1>3, <2>1, <2>3 DEF DeskInv
<1>10. CASE PickTarget
  <2>1. PICK t : desk' = [listed |-> listed, selected |-> selected, target |-> t, key |-> key,
                          shares |-> shares, view |-> view, viewed |-> viewed]
    BY <1>1, <1>10 DEF PickTarget
  <2>2. ViewInv' /\ DeskShape'
    BY <1>3, <2>1 DEF ViewInv, DeskShape
  <2> QED BY <1>2, <1>3, <2>1, <2>2 DEF DeskInv
<1> QED BY <1>5, <1>6, <1>7, <1>8, <1>9, <1>10

LEMMA NextDisclosure == ClawbackInv /\ DisclosureInv /\ [Next]_vars => DisclosureInv'
<1> SUFFICES ASSUME ClawbackInv, DisclosureInv, [Next]_vars
             PROVE  DisclosureInv'
  OBVIOUS
<1>0. LedgerInv /\ DeskInv /\ NullifierInv
  BY DEF DisclosureInv
<1>1. ASSUME UNCHANGED <<ledger, log, nullifiers>>
      PROVE  LedgerInv' /\ NullifierInv'
  <2>1. LedgerInv'
    <3>1. (\E S : ledger' \in Seq(S)) /\ \A i \in 1 .. Len(ledger') : Posted(ledger'[i])
      BY <1>0, <1>1 DEF LedgerInv
    <3>2. \A i \in 1 .. Len(ledger') : \A j \in 1 .. Len(Outs(ledger'[i])) : \E x \in 1 .. Len(log') :
             Outs(ledger'[i])[j] = log'[x]
      BY <1>0, <1>1 DEF LedgerInv
    <3>3. \A i, k \in 1 .. Len(ledger') : \A j \in 1 .. Len(Outs(ledger'[i])), m \in 1 .. Len(Outs(ledger'[k])) :
             Outs(ledger'[i])[j].rho = Outs(ledger'[k])[m].rho => i = k /\ j = m
      BY <1>0, <1>1 DEF LedgerInv
    <3> QED BY <3>1, <3>2, <3>3 DEF LedgerInv
  <2>2. NullifierInv'
    BY <1>0, <1>1 DEF NullifierInv
  <2> QED BY <2>1, <2>2
<1>2. ASSUME UNCHANGED <<ledger, log, nullifiers, desk>>
      PROVE  DisclosureInv'
  <2>1. Len(ledger) <= Len(ledger')
    <3>1. Len(ledger) \in Nat
      BY <1>0, LenProperties DEF LedgerInv
    <3> QED BY <1>2, <3>1
  <2> QED BY <1>0, <1>1, <1>2, <2>1, DeskStill DEF DisclosureInv
<1>3. CASE RunGate \/ LeaveGate \/ BuildShield \/ BuildTransfer \/ BuildUnshield \/ Discard
  <2>1. CASE RunGate \/ LeaveGate \/ Discard
    BY <1>2, <2>1 DEF RunGate, LeaveGate, Discard, chainVars
  <2>2. CASE BuildShield
    BY <1>2, <2>2 DEF BuildShield, Build, chainVars
  <2>3. CASE BuildTransfer
    BY <1>2, <2>3 DEF BuildTransfer, Build, chainVars
  <2>4. CASE BuildUnshield
    BY <1>2, <2>4 DEF BuildUnshield, Build, chainVars
  <2> QED BY <1>3, <2>1, <2>2, <2>3, <2>4
<1>4. CASE (\E seen \in FrozenSeen : StartFreeze(seen)) \/ Freeze \/ FreezeFails \/ UNCHANGED vars
  <2>1. UNCHANGED <<ledger, log, nullifiers, desk>>
    BY <1>4 DEF StartFreeze, Freeze, FreezeFails, vars, chainVars
  <2> QED BY <1>2, <2>1
<1>5. CASE Submit
  <2>1. LedgerInv' /\ Len(ledger') = Len(ledger) + 1
    BY <1>0, <1>5, SubmitLedger
  <2>2. NullifierInv'
    BY <1>0, <1>5, SubmitNullifiers
  <2>3. Len(ledger) \in Nat
    BY <1>0, LenProperties DEF LedgerInv
  <2>4. desk' = desk
    BY <1>5 DEF Submit
  <2>5. DeskInv'
    BY <1>0, <2>1, <2>3, <2>4, DeskStill
  <2> QED BY <2>1, <2>2, <2>5 DEF DisclosureInv
<1>6. CASE \/ OpenPage \/ (\E i \in DOMAIN Listed(desk.listed) : Select(i)) \/ (\E n \in 1 .. AUTHORITIES : LoadKey(n))
           \/ ClearKey \/ Decrypt \/ PickTarget
  <2>1. UNCHANGED <<ledger, log, nullifiers>>
    BY <1>6 DEF OpenPage, Select, LoadKey, ClearKey, Decrypt, PickTarget, chainVars
  <2> QED BY <1>0, <1>1, <1>6, <2>1, DeskStep DEF DisclosureInv
<1> QED BY <1>3, <1>4, <1>5, <1>6 DEF Next

\* The inductive invariant of the console: what the events seal, and what the panel
\* last made of one.
THEOREM DisclosureInvariant == Spec => []DisclosureInv
<1>1. ClawbackInv /\ DisclosureInv /\ [Next]_vars => DisclosureInv'
  BY NextDisclosure
<1> QED BY <1>1, InitDisclosure, ClawbackInvariant, PTL DEF Spec

----------------------------------------------------------------------------
(* Types.                                                                   *)

LEMMA TypesHere == ClawbackInv /\ DisclosureInv => TypeOK
<1> SUFFICES ASSUME ClawbackInv, DisclosureInv PROVE TypeOK
  OBVIOUS
<1>1. tree.leafCount \in 0 .. TREE_CAPACITY
  <2>1. tree.leafCount = Len(log) /\ Len(log) <= TREE_CAPACITY /\ Len(log) \in Nat
    BY LenProperties DEF ClawbackInv, LogInv
  <2> QED BY <2>1, CapacityRoom
<1>2. ToSet(frozen) \cup behind \subseteq 1 .. IMT_MAX - 1
  BY RangeOf DEF ClawbackInv, FrozenInv, Numbers
<1>3. issuer.target \in 0 .. IMT_MAX - 1
  <2>1. CASE issuer = NoFreeze
    BY <2>1, ImtMaxAssumption, ClawbackAssumption, CapacityRoom DEF NoFreeze
  <2>2. CASE issuer # NoFreeze
    <3>1. PICK seen \in Seq(Numbers), target \in Numbers :
            issuer = [target |-> target, seen |-> seen, root |-> ComputeFreeze(seen, target)]
      BY <2>2 DEF ClawbackInv, IssuerInv
    <3>2. issuer.target = target
      BY <3>1
    <3> QED BY <3>2, ImtMaxAssumption DEF Numbers
  <2> QED BY <2>1, <2>2
<1>4. Len(proof) <= 1
  <2>1. CASE proof = << >>
    BY <2>1
  <2>2. ASSUME NEW p, proof = <<p>>
        PROVE  Len(proof) <= 1
    BY <2>2
  <2> QED BY <2>1, <2>2 DEF ClawbackInv, ProofInv
<1>5. /\ nullifiers \subseteq Nullifiers
      /\ desk.key \in Field \cup {NoKey} /\ desk.shares \in 0 .. AUTHORITIES
      /\ desk.listed <= Len(ledger) /\ desk.selected \in 0 .. Len(Listed(desk.listed))
  BY DEF DisclosureInv, DeskInv, NullifierInv
<1> QED BY <1>1, <1>2, <1>3, <1>4, <1>5 DEF TypeOK

\* The types of the console's state: the key is a field element, and the tab points at
\* what it lists (frontend/app/regulator, components/TxList, DisclosurePanel).
THEOREM ClawbackTypes == Spec => []TypeOK
BY ClawbackInvariant, DisclosureInvariant, TypesHere, PTL

----------------------------------------------------------------------------
(* What the panel shows.                                                    *)

LEMMA NotSentinel ==
  ASSUME NEW o \in Note
  PROVE  ~IsSentinel(o)
<1>1. "value" \in DOMAIN o
  BY DEF Note
<1>2. DOMAIN << >> = {}
  OBVIOUS
<1>3. o # << >>
  BY <1>1, <1>2
<1> QED BY <1>3 DEF IsSentinel, Sentinel

LEMMA SealedDef ==
  ASSUME NEW outs \in Seq(Note), outs # << >>
  PROVE  LET slots == SealedOutputs(outs)
         IN  /\ DOMAIN slots = 1 .. Len(outs) /\ Len(slots) = Len(outs) /\ slots # << >>
             /\ slots \in Seq(Slots)
             /\ \A i \in 1 .. Len(outs) : slots[i] = Slot(outs[i], i) /\ ~IsSentinel(slots[i].commitment)
<1> DEFINE slots == SealedOutputs(outs)
           n == Len(outs)
<1>1. n \in Nat /\ n # 0 /\ \A i \in 1 .. n : outs[i] \in Note
  BY LenProperties, ElementOfSeq, EmptySeq
<1> HIDE DEF n
<1>2. slots = [i \in 1 .. n |-> Slot(outs[i], i)]
  BY DEF SealedOutputs, n
<1> HIDE DEF slots
<1>3. slots = [i \in 1 .. n |-> slots[i]] /\ \A i \in 1 .. n : slots[i] = Slot(outs[i], i)
  BY <1>2
<1>4. \A i \in 1 .. n : slots[i] \in Slots
  BY <1>1, <1>3 DEF Slots
<1>5. slots \in Seq(Slots) /\ Len(slots) = n
  BY <1>1, <1>3, <1>4, LenOfFunction
<1>6. \A i \in 1 .. n : ~IsSentinel(slots[i].commitment)
  BY <1>1, <1>3, NotSentinel DEF Slot
<1>7. DOMAIN slots = 1 .. n /\ slots # << >>
  BY <1>1, <1>5, LenProperties, EmptySeq
<1> QED BY <1>3, <1>5, <1>6, <1>7 DEF n, slots

\* The outputs as the page lists them: all, except that of an exact unshield.
LEMMA ListedOutputsDef ==
  ASSUME NEW tx, NEW outs \in Seq(Note), tx.outputs = SealedOutputs(outs)
  PROVE  ListedOutputs(tx) = IF outs = << >> THEN << >> ELSE SealedOutputs(outs)
<1> DEFINE n == Len(outs)
           slots == SealedOutputs(outs)
           S == {slots[i] : i \in 1 .. n}
<1>1. CASE outs = << >>
  <2> DEFINE ss == [i \in DOMAIN tx.outputs |-> IF IsSentinel(tx.outputs[i].commitment) THEN << >> ELSE <<tx.outputs[i]>>]
  <2>1. tx.outputs = <<EmptySlot>>
    BY <1>1 DEF SealedOutputs
  <2>2. DOMAIN tx.outputs = 1 .. 1 /\ IsSentinel(tx.outputs[1].commitment)
    BY <2>1 DEF EmptySlot, IsSentinel
  <2>3. ss = << << >> >>
    BY <2>2
  <2>4. ss \in Seq(Seq({})) /\ Len(ss) = 1 /\ ss[1] = << >>
    <3> HIDE DEF ss
    <3> QED BY <2>3
  <2>5. ListedOutputs(tx) = FlattenSeq(ss)
    BY DEF ListedOutputs
  <2> HIDE DEF ss
  <2>6. FlattenSeq(ss) \in Seq({})
    BY <2>4, FlattenHolds
  <2>7. FlattenSeq(ss) = << >>
    <3> DEFINE flat == FlattenSeq(ss)
    <3>1. Len(flat) \in Nat /\ \A i \in 1 .. Len(flat) : flat[i] \in {}
      BY <2>6, LenProperties, ElementOfSeq
    <3> HIDE DEF flat
    <3>2. Len(flat) = 0
      <4>1. Len(flat) # 0 => 1 \in 1 .. Len(flat)
        BY <3>1
      <4> QED BY <3>1, <4>1
    <3>3. flat = << >>
      BY <2>6, <3>2, EmptySeq DEF flat
    <3> QED BY <3>3 DEF flat
  <2> QED BY <1>1, <2>5, <2>7
<1>2. CASE outs # << >>
  <2>1. /\ DOMAIN slots = 1 .. n /\ Len(slots) = n
        /\ \A i \in 1 .. n : ~IsSentinel(slots[i].commitment)
    BY <1>2, SealedDef
  <2>2. PICK R : slots \in Seq(R)
    BY <1>2, SealedDef
  <2>3. n \in Nat /\ \A i \in 1 .. n : slots[i] \in R
    BY <2>1, <2>2, LenProperties, ElementOfSeq
  <2> HIDE DEF slots, n
  <2>4. ListedOutputs(tx) = FlattenSeq(Singles(slots, n))
    <3>1. [i \in DOMAIN slots |-> IF IsSentinel(slots[i].commitment) THEN << >> ELSE <<slots[i]>>]
            = Singles(slots, n)
      BY <2>1 DEF Singles
    <3> QED BY <3>1 DEF ListedOutputs, slots
  <2> DEFINE flat == FlattenSeq(Singles(slots, n))
  <2>5. flat \in Seq(R) /\ Len(flat) = n /\ \A k \in 1 .. n : flat[k] = slots[k]
    BY <2>3, FlattenSingles DEF ListsFirst
  <2> HIDE DEF flat
  <2>6. flat = slots
    BY <2>1, <2>2, <2>3, <2>5, SeqEqual
  <2> QED BY <1>2, <2>4, <2>6 DEF flat, slots
<1> QED BY <1>1, <1>2

Shown(note, key, role) ==
  LET pt == IF key = K_VIEW THEN [value |-> note.value, asset |-> note.asset, owner |-> note.owner, rho |-> note.rho]
                            ELSE Garbage
  IN  [value |-> pt.value, asset |-> pt.asset, owner |-> pt.owner, role |-> role, valueInRange |-> pt.value \in Value]

LEMMA ShownDef ==
  ASSUME NEW note, NEW j, NEW key, NEW role
  PROVE  DiscloseNote(Slot(note, j), key, role) = Shown(note, key, role)
BY DEF DiscloseNote, Slot, DecryptAuditor, EncryptToAuditor, Shown

LEMMA GarbageDef == Garbage.value \notin Value
BY NotesAssumption DEF Garbage, Value

LEMMA ShownRight ==
  ASSUME NEW note \in Note, NEW role
  PROVE  LET shown == Shown(note, K_VIEW, role)
         IN  /\ shown.value = note.value /\ shown.asset = note.asset /\ shown.owner = note.owner
             /\ shown.role = role
             /\ shown.valueInRange
<1> DEFINE shown == Shown(note, K_VIEW, role)
<1>1. shown = [value |-> note.value, asset |-> note.asset, owner |-> note.owner, role |-> role,
               valueInRange |-> note.value \in Value]
  BY DEF Shown
<1>2. note.value \in Value
  BY DEF Note
<1> HIDE DEF shown
<1>3. shown.value = note.value /\ shown.asset = note.asset /\ shown.owner = note.owner /\ shown.role = role
  BY <1>1
<1>4. shown.valueInRange = (note.value \in Value)
  BY <1>1
<1> QED BY <1>2, <1>3, <1>4 DEF shown

LEMMA ShownWrong ==
  ASSUME NEW note, NEW key, key # K_VIEW, NEW role
  PROVE  ~Shown(note, key, role).valueInRange
<1>1. Shown(note, key, role) = [value |-> Garbage.value, asset |-> Garbage.asset, owner |-> Garbage.owner, role |-> role,
                                valueInRange |-> Garbage.value \in Value]
  BY DEF Shown
<1>2. Shown(note, key, role).valueInRange = (Garbage.value \in Value)
  BY <1>1
<1> QED BY <1>2, GarbageDef

LEMMA DisclosedDef ==
  ASSUME NEW tx, NEW key, NEW outs \in Seq(Note), outs # << >>, tx.outputs = SealedOutputs(outs)
  PROVE  LET disclosed == DiscloseTransaction(tx, key)
         IN  /\ Len(disclosed) = Len(outs) /\ DOMAIN disclosed = 1 .. Len(outs)
             /\ \A i \in 1 .. Len(outs) : disclosed[i] = Shown(outs[i], key, RoleFor(tx.circuit, i, Len(outs)))
<1> DEFINE n == Len(outs)
           slots == SealedOutputs(outs)
           f == [i \in 1 .. n |-> DiscloseNote(slots[i], key, RoleFor(tx.circuit, i, n))]
           S == {f[i] : i \in 1 .. n}
<1>1. /\ DOMAIN slots = 1 .. n /\ Len(slots) = n
      /\ \A i \in 1 .. n : slots[i] = Slot(outs[i], i) /\ ~IsSentinel(slots[i].commitment)
  BY SealedDef
<1>2. n \in Nat
  BY LenProperties
<1> HIDE DEF slots, n
<1>3. DiscloseTransaction(tx, key) = FlattenSeq(Singles(f, n))
  <2>1. [i \in DOMAIN slots |-> IF IsSentinel(slots[i].commitment) THEN << >>
                                ELSE <<DiscloseNote(slots[i], key, RoleFor(tx.circuit, i, Len(slots)))>>]
          = Singles(f, n)
    BY <1>1 DEF Singles
  <2> HIDE DEF f
  <2> QED BY <2>1 DEF DiscloseTransaction, slots
<1>4. \A i \in 1 .. n : f[i] \in S /\ f[i] = Shown(outs[i], key, RoleFor(tx.circuit, i, n))
  BY <1>1, ShownDef
<1> DEFINE flat == FlattenSeq(Singles(f, n))
<1> HIDE DEF f, S
<1>5. flat \in Seq(S) /\ Len(flat) = n /\ \A k \in 1 .. n : flat[k] = f[k]
  <2>1. \A i \in 1 .. n : f[i] \in S
    BY <1>4
  <2>2. ListsFirst(FlattenSeq(Singles(f, n)), f, n, S)
    BY <1>2, <2>1, FlattenSingles
  <2> QED BY <2>2 DEF ListsFirst
<1> HIDE DEF flat
<1>6. DOMAIN flat = 1 .. n
  BY <1>5, LenProperties
<1>7. \A i \in 1 .. n : flat[i] = Shown(outs[i], key, RoleFor(tx.circuit, i, n))
  BY <1>4, <1>5
<1> QED BY <1>3, <1>5, <1>6, <1>7 DEF flat, n

\* The truth about an event that RevealRight asks of a view of it.
Truthful(tx, key, view) ==
  LET outs == tx.truth.outs
      headline == [asset |-> view.asset, amount |-> view.amount, recipient |-> view.recipient]
  IN  CASE outs = << >> -> view.status = "public" /\ headline = tx.truth.paid
        [] outs # << >> /\ key # K_VIEW -> view = [NoView EXCEPT !.status = "wrong key"]
        [] outs # << >> /\ key = K_VIEW ->
             /\ view.status = "revealed"
             /\ Len(view.outputs) = Len(outs)
             /\ \A i \in DOMAIN outs :
                   /\ view.outputs[i].value = outs[i].value
                   /\ view.outputs[i].asset = outs[i].asset
                   /\ view.outputs[i].owner = outs[i].owner
             /\ tx.circuit # "unshield" => headline = tx.truth.paid
             /\ view.sender = IF tx.truth.spender = 0
                              THEN <<"transparent deposit">>
                              ELSE <<"party", tx.truth.spender>>

LEMMA ViewTruthful ==
  ASSUME NEW tx, Posted(tx), NEW key
  PROVE  Truthful(tx, key, DecryptAuditorView(tx, key))
<1>1. PICK circuit, nfs, outs, spender, paid :
        /\ Plausible(circuit, outs, spender, paid)
        /\ tx = [circuit |-> circuit, nullifiers |-> nfs, outputs |-> SealedOutputs(outs),
                 publicReveal |-> IF circuit = "unshield" THEN paid ELSE NoReveal,
                 truth |-> [outs |-> outs, paid |-> paid, spender |-> spender]]
  BY DEF Posted
<1> DEFINE n == Len(outs)
           listed == [tx EXCEPT !.outputs = ListedOutputs(tx)]
           disclosed == DiscloseTransaction(listed, key)
           change == {i \in DOMAIN disclosed : disclosed[i].role = "change"}
           view == DecryptAuditorView(tx, key)
<1>2. /\ tx.circuit = circuit /\ tx.outputs = SealedOutputs(outs)
      /\ tx.publicReveal = IF circuit = "unshield" THEN paid ELSE NoReveal
      /\ tx.truth.outs = outs /\ tx.truth.paid = paid /\ tx.truth.spender = spender
  BY <1>1
<1>3. outs \in Seq(Note) /\ n \in Nat /\ DOMAIN outs = 1 .. n /\ (n = 0 <=> outs = << >>)
  BY <1>1, LenProperties, EmptySeq DEF Plausible
<1>4. /\ listed.circuit = circuit /\ listed.publicReveal = tx.publicReveal
      /\ listed.outputs = IF outs = << >> THEN << >> ELSE SealedOutputs(outs)
  <2>1. ListedOutputs(tx) = IF outs = << >> THEN << >> ELSE SealedOutputs(outs)
    BY <1>2, <1>3, ListedOutputsDef
  <2>2. listed.outputs = ListedOutputs(tx) /\ listed.circuit = tx.circuit /\ listed.publicReveal = tx.publicReveal
    BY <1>1
  <2> HIDE DEF listed
  <2> QED BY <1>2, <2>1, <2>2
<1> HIDE DEF listed, n
<1>5. view = CASE listed.outputs = << >> /\ tx.publicReveal # NoReveal ->
                    AuditView("public", << >>, tx.publicReveal.asset, tx.publicReveal.amount,
                              tx.publicReveal.recipient, <<"hidden">>)
               [] listed.outputs = << >> /\ tx.publicReveal = NoReveal -> [NoView EXCEPT !.status = "nothing"]
               [] listed.outputs # << >> /\ ~disclosed[1].valueInRange -> [NoView EXCEPT !.status = "wrong key"]
               [] OTHER ->
                    AuditView("revealed", disclosed, disclosed[1].asset, disclosed[1].value, disclosed[1].owner,
                              CASE change # {} -> <<"party", disclosed[Min(change)].owner>>
                                [] change = {} /\ tx.circuit = "shield" -> <<"transparent deposit">>
                                [] OTHER -> <<"unknown">>)
  BY DEF DecryptAuditorView, listed
<1> HIDE DEF view
<1>6. CASE outs = << >>
  <2>1. circuit = "unshield" /\ \E asset, amount, recipient : paid = Told(asset, amount, recipient)
    BY <1>1, <1>3, <1>6 DEF Plausible, n
  <2>2. PICK asset, amount, recipient : paid = Told(asset, amount, recipient)
    BY <2>1
  <2>3. /\ tx.publicReveal = paid /\ paid.asset = asset /\ paid.amount = amount /\ paid.recipient = recipient
    BY <1>2, <2>1, <2>2 DEF Told
  <2>4. paid # NoReveal
    <3>1. "asset" \in DOMAIN paid
      BY <2>2 DEF Told
    <3>2. DOMAIN << >> = {}
      OBVIOUS
    <3> QED BY <3>1, <3>2 DEF NoReveal
  <2>5. view = AuditView("public", << >>, asset, amount, recipient, <<"hidden">>)
    BY <1>4, <1>5, <1>6, <2>3, <2>4
  <2>6. view.status = "public" /\ [asset |-> view.asset, amount |-> view.amount, recipient |-> view.recipient] = paid
    BY <2>2, <2>5 DEF AuditView, Told
  <2> QED BY <1>2, <1>6, <2>6 DEF Truthful, view
<1>7. CASE outs # << >>
  <2>0. n \in Nat /\ n # 0 /\ 1 \in 1 .. n
    BY <1>3, <1>7
  <2>1. /\ Len(disclosed) = n /\ DOMAIN disclosed = 1 .. n
        /\ \A i \in 1 .. n : disclosed[i] = Shown(outs[i], key, RoleFor(circuit, i, n))
    <3>1. listed.outputs = SealedOutputs(outs) /\ listed.circuit = circuit
      BY <1>4, <1>7
    <3> QED BY <1>3, <1>7, <3>1, DisclosedDef DEF n
  <2>2. listed.outputs # << >>
    <3>1. SealedOutputs(outs) # << >>
      BY <1>3, <1>7, SealedDef
    <3> QED BY <1>4, <1>7, <3>1
  <2> HIDE DEF disclosed
  <2>3. CASE key # K_VIEW
    <3>1. ~disclosed[1].valueInRange
      BY <2>0, <2>1, <2>3, ShownWrong
    <3>2. view = [NoView EXCEPT !.status = "wrong key"]
      BY <1>5, <2>2, <3>1
    <3> QED BY <1>2, <1>7, <2>3, <3>2 DEF Truthful, view
  <2>4. CASE key = K_VIEW
    <3>1. ASSUME NEW i \in 1 .. n
          PROVE  /\ disclosed[i].value = outs[i].value /\ disclosed[i].asset = outs[i].asset
                 /\ disclosed[i].owner = outs[i].owner /\ disclosed[i].valueInRange
                 /\ disclosed[i].role = RoleFor(circuit, i, n)
      <4>1. outs[i] \in Note
        BY <1>3, ElementOfSeq DEF n
      <4>2. disclosed[i] = Shown(outs[i], K_VIEW, RoleFor(circuit, i, n))
        BY <2>1, <2>4
      <4> QED BY <4>1, <4>2, ShownRight
    <3>2. view = AuditView("revealed", disclosed, disclosed[1].asset, disclosed[1].value, disclosed[1].owner,
                           CASE change # {} -> <<"party", disclosed[Min(change)].owner>>
                             [] change = {} /\ tx.circuit = "shield" -> <<"transparent deposit">>
                             [] OTHER -> <<"unknown">>)
      <4>1. disclosed[1].valueInRange
        BY <2>0, <3>1
      <4> HIDE DEF change
      <4> QED BY <1>5, <2>2, <4>1
    <3> DEFINE sender == CASE change # {} -> <<"party", disclosed[Min(change)].owner>>
                           [] change = {} /\ circuit = "shield" -> <<"transparent deposit">>
                           [] OTHER -> <<"unknown">>
    <3>3. sender = IF spender = 0 THEN <<"transparent deposit">> ELSE <<"party", spender>>
      <4>0. 0 \notin Owners
        BY ClawbackAssumption
      <4>1. CASE circuit = "shield" /\ n = 1 /\ spender = 0
        <5>1. change = {}
          BY <2>1, <3>1, <4>1 DEF RoleFor
        <5> QED BY <4>1, <5>1
      <4>2. CASE circuit = "transfer" /\ n = 2 /\ spender \in Owners /\ outs[2].owner = spender
        <5>1. \A i \in 1 .. n : i = 1 \/ i = 2
          BY <4>2
        <5>2. disclosed[1].role = "recipient" /\ disclosed[2].role = "change" /\ disclosed[2].owner = spender
          BY <3>1, <4>2 DEF RoleFor
        <5>3. change = {2}
          BY <2>1, <4>2, <5>1, <5>2
        <5>4. Min(change) = 2
          <6>1. change \in SUBSET (0 .. 3 - 1) /\ change # {}
            BY <5>3
          <6>2. Min(change) \in change
            <7> HIDE DEF change
            <7> QED BY <6>1, MinMax
          <6> QED BY <5>3, <6>2
        <5> HIDE DEF change
        <5> QED BY <4>0, <4>2, <5>2, <5>3, <5>4
      <4>3. CASE circuit = "unshield" /\ n = 1 /\ spender \in Owners /\ outs[1].owner = spender
        <5>1. disclosed[1].role = "change" /\ disclosed[1].owner = spender
          BY <3>1, <4>3 DEF RoleFor
        <5>2. change = {1}
          BY <2>1, <4>3, <5>1
        <5>3. Min(change) = 1
          <6>1. change \in SUBSET (0 .. 2 - 1) /\ change # {}
            BY <5>2
          <6>2. Min(change) \in change
            <7> HIDE DEF change
            <7> QED BY <6>1, MinMax
          <6> QED BY <5>2, <6>2
        <5> HIDE DEF change
        <5> QED BY <4>0, <4>3, <5>1, <5>2, <5>3
      <4>4. n \in 0 .. 1 => n = 1
        BY <2>0
      <4> HIDE DEF sender, change
      <4> QED BY <1>1, <2>0, <4>1, <4>2, <4>3, <4>4 DEF Plausible, n
    <3>4. view = AuditView("revealed", disclosed, disclosed[1].asset, disclosed[1].value, disclosed[1].owner, sender)
      BY <1>2, <3>2
    <3> HIDE DEF sender
    <3>5. /\ view.status = "revealed" /\ view.outputs = disclosed /\ view.sender = sender
          /\ view.asset = outs[1].asset /\ view.amount = outs[1].value /\ view.recipient = outs[1].owner
      BY <2>0, <3>1, <3>4 DEF AuditView
    <3>6. circuit # "unshield" => paid = [asset |-> view.asset, amount |-> view.amount, recipient |-> view.recipient]
      BY <1>1, <3>5 DEF Plausible, PaidTo, Told
    <3>7. \A i \in DOMAIN outs : /\ view.outputs[i].value = outs[i].value
                                 /\ view.outputs[i].asset = outs[i].asset
                                 /\ view.outputs[i].owner = outs[i].owner
      BY <1>3, <3>1, <3>5
    <3>8. Len(view.outputs) = Len(outs)
      BY <2>1, <3>5 DEF n
    <3> QED BY <1>2, <1>7, <2>4, <3>3, <3>5, <3>6, <3>7, <3>8 DEF Truthful, view
  <2> QED BY <2>3, <2>4
<1> QED BY <1>6, <1>7

LEMMA RevealRightHere == DisclosureInv => RevealRight
<1> SUFFICES ASSUME DisclosureInv, NEW k \in DOMAIN desk.viewed
             PROVE  Truthful(desk.viewed[k].tx, desk.viewed[k].key, desk.view)
  BY DEF RevealRight, Truthful
<1>1. desk.viewed # NotViewed
  BY DEF NotViewed
<1>2. PICK tx, key : Posted(tx) /\ desk.viewed = << [tx |-> tx, key |-> key] >> /\ desk.view = DecryptAuditorView(tx, key)
  BY <1>1 DEF DisclosureInv, DeskInv, ViewInv
<1>3. desk.viewed[k].tx = tx /\ desk.viewed[k].key = key
  BY <1>2
<1> QED BY <1>2, <1>3, ViewTruthful

\* What the disclosure panel shows of an event is the truth about it, under the view key,
\* and nothing under another (sdk/src/disclose.ts, decryptAuditorView).
THEOREM AlwaysRevealsRight == Spec => []RevealRight
BY DisclosureInvariant, RevealRightHere, PTL

----------------------------------------------------------------------------
(* What a recipient's scan finds.                                           *)

LEMMA DistinctCount ==
  ASSUME NEW S, NEW s \in Seq(S), Distinct(s)
  PROVE  IsFiniteSet(ToSet(s)) /\ Cardinality(ToSet(s)) = Len(s)
<1>1. Len(s) \in Nat /\ DOMAIN s = 1 .. Len(s) /\ \A i \in 1 .. Len(s) : s[i] \in S
  BY LenProperties, ElementOfSeq
<1>2. ToSet(s) = {s[i] : i \in 1 .. Len(s)}
  BY RangeOf
<1>3. s \in Bijection(1 .. Len(s), ToSet(s))
  <2>1. s \in [1 .. Len(s) -> ToSet(s)]
    <3>1. s \in [1 .. Len(s) -> S]
      BY LenProperties
    <3> QED BY <1>1, <1>2, <3>1
  <2>2. \A i, j \in 1 .. Len(s) : s[i] = s[j] => i = j
    BY DEF Distinct
  <2> QED BY <1>2, <2>1, <2>2 DEF Bijection, Injection, Surjection, IsInjective
<1>4. ExistsBijection(1 .. Len(s), ToSet(s))
  BY <1>3, Fun_ExistsBij
<1>5. Len(s) \in Nat
  BY <1>1
<1> HIDE DEF Distinct
<1>6. Cardinality(ToSet(s)) = Len(s)
  BY <1>4, <1>5, FS_CountingElements
<1> QED BY <1>2, <1>6, RangeOf

IndexSum(f, s, I) == f = [u \in SUBSET I |-> IF u = {} THEN 0 ELSE s[First(u)].value + f[u \ {First(u)}]]

\* Summed place by place or note by note, when no note is there twice.
LEMMA IndexSumIs ==
  ASSUME NEW s \in Seq(Note), Distinct(s), NEW I, I \subseteq DOMAIN s, IsFiniteSet(I),
         NEW f, \A u \in SUBSET I : f[u] = IF u = {} THEN 0 ELSE s[First(u)].value + f[u \ {First(u)}]
  PROVE  f[I] = ValueOf({s[i] : i \in I})
<1> DEFINE At(u) == {s[i] : i \in u}
<1>1. DOMAIN s = 1 .. Len(s)
  BY LenProperties
<1> DEFINE Bad == {u \in SUBSET I : f[u] # ValueOf(At(u))}
<1>6. SUFFICES ASSUME Bad # {} PROVE FALSE
  OBVIOUS
<1>7. PICK u \in Bad : \A w \in Bad : w \subseteq u => w = u
  <2>1. Bad \subseteq SUBSET I
    OBVIOUS
  <2> HIDE DEF Bad, At
  <2> QED BY <1>6, <2>1, SmallestSubset
<1>8. u # {}
  <2>1. At({}) = {}
    OBVIOUS
  <2> QED BY <2>1, ValueOfNone
<1> DEFINE x == First(u)
           r == u \ {x}
<1>9. x \in u /\ r \in SUBSET I /\ r \subseteq u /\ r # u
  BY <1>8, FirstIsElement
<1> HIDE DEF x
<1>10. f[r] = ValueOf(At(r))
  BY <1>7, <1>9
<1>11. f[u] = s[x].value + f[r]
  BY <1>8 DEF x
<1>12. At(u) \in SUBSET Note /\ IsFiniteSet(At(u)) /\ s[x] \in At(u)
  <2>1. At(u) \subseteq ToSet(s)
    <3>1. ToSet(s) = {s[i] : i \in 1 .. Len(s)}
      BY RangeOf
    <3> QED BY <1>1, <3>1
  <2>2. IsFiniteSet(ToSet(s)) /\ ToSet(s) \subseteq Note
    BY RangeOf
  <2>3. s[x] \in At(u)
    BY <1>9
  <2> HIDE DEF At
  <2> QED BY <2>1, <2>2, <2>3, FS_Subset
<1>13. At(r) = At(u) \ {s[x]}
  <2>1. \A i \in u : s[i] = s[x] => i = x
    BY <1>1, <1>9 DEF Distinct
  <2> QED BY <1>9, <2>1
<1>14. ValueOf(At(u)) = s[x].value + ValueOf(At(r))
  <2> HIDE DEF At, r
  <2> QED BY <1>12, <1>13, ValueOfSplit
<1>15. f[u] = ValueOf(At(u))
  BY <1>10, <1>11, <1>14
<1> QED BY <1>15

LEMMA IndexSums ==
  ASSUME NEW s \in Seq(Note), Distinct(s), NEW I, I \subseteq 1 .. Len(s)
  PROVE  MapThenSumSet(LAMBDA i : s[i].value, I) = ValueOf({s[i] : i \in I})
<1> DEFINE f == CHOOSE g : IndexSum(g, s, I)
           v == [p \in I \X Nat |-> s[p[1]].value + p[2]]
<1>1. \A i \in 1 .. Len(s) : s[i] \in Note /\ s[i].value \in Nat
  <2>1. \A i \in 1 .. Len(s) : s[i] \in Note
    BY ElementOfSeq
  <2>2. \A n \in Note : n.value \in Nat
    BY NotesAssumption DEF Note, Value
  <2> QED BY <2>1, <2>2
<1>2. IsFiniteSet(I)
  <2>1. IsFiniteSet(1 .. Len(s))
    BY LenProperties, FS_Interval
  <2> QED BY <2>1, FS_Subset
<1>3. MapThenSumSet(LAMBDA i : s[i].value, I) = f[I]
  BY DEF MapThenSumSet, MapThenFoldSet, IndexSum, First
<1>4. IndexSum(f, s, I)
  <2>1. v \in [I \X Nat -> Nat]
    <3>1. ASSUME NEW p \in I \X Nat
          PROVE  s[p[1]].value + p[2] \in Nat
      <4>1. p[1] \in 1 .. Len(s) /\ p[2] \in Nat
        OBVIOUS
      <4>2. s[p[1]].value \in Nat
        BY <1>1, <4>1
      <4> QED BY <4>1, <4>2
    <3> QED BY <3>1
  <2>2. PICK h \in [SUBSET I -> Nat] : FoldedBy(h, 0, v, I)
    <3> HIDE DEF v
    <3> QED BY <1>2, <2>1, FoldExists
  <2>3. ASSUME NEW u \in SUBSET I, u # {}
        PROVE  v[<<First(u), h[u \ {First(u)}]>>] = s[First(u)].value + h[u \ {First(u)}]
    <3>1. First(u) \in I /\ h[u \ {First(u)}] \in Nat
      BY <2>3, FirstIsElement
    <3> QED BY <3>1
  <2>4. IndexSum(h, s, I)
    <3> HIDE DEF v
    <3>1. h = [u \in SUBSET I |-> IF u = {} THEN 0 ELSE v[<<First(u), h[u \ {First(u)}]>>]]
      BY <2>2 DEF FoldedBy
    <3> QED BY <2>3, <3>1 DEF IndexSum
  <2> QED BY <2>4
<1> HIDE DEF f
<1>5. ASSUME NEW u \in SUBSET I
      PROVE  f[u] = IF u = {} THEN 0 ELSE s[First(u)].value + f[u \ {First(u)}]
  BY <1>4 DEF IndexSum
<1>6. DOMAIN s = 1 .. Len(s)
  BY LenProperties
<1> QED BY <1>2, <1>3, <1>5, <1>6, IndexSumIs

\* The outputs of an event, as the page lists them.
LEMMA ListedPart ==
  ASSUME NEW tx, Posted(tx)
  PROVE  /\ Outs(tx) \in Seq(Note)
         /\ ListedOutputs(tx) \in Seq(Slots)
         /\ Len(ListedOutputs(tx)) = Len(Outs(tx))
         /\ \A j \in 1 .. Len(Outs(tx)) : ListedOutputs(tx)[j] = Slot(Outs(tx)[j], j)
<1>1. PICK circuit, nfs, outs, spender, paid :
        /\ Plausible(circuit, outs, spender, paid)
        /\ tx = [circuit |-> circuit, nullifiers |-> nfs, outputs |-> SealedOutputs(outs),
                 publicReveal |-> IF circuit = "unshield" THEN paid ELSE NoReveal,
                 truth |-> [outs |-> outs, paid |-> paid, spender |-> spender]]
  BY DEF Posted
<1>2. outs \in Seq(Note) /\ tx.outputs = SealedOutputs(outs) /\ Outs(tx) = outs
  BY <1>1 DEF Plausible, Outs
<1>3. ListedOutputs(tx) = IF outs = << >> THEN << >> ELSE SealedOutputs(outs)
  BY <1>2, ListedOutputsDef
<1>4. CASE outs = << >>
  BY <1>2, <1>3, <1>4
<1>5. CASE outs # << >>
  BY <1>2, <1>3, <1>5, SealedDef
<1> QED BY <1>4, <1>5

LEMMA SlotTells ==
  ASSUME NEW x, NEW i, NEW y, NEW j, Slot(x, i) = Slot(y, j)
  PROVE  x = y
<1>1. Slot(x, i).commitment = x /\ Slot(y, j).commitment = y
  BY DEF Slot
<1> QED BY <1>1

Parts == [i \in DOMAIN ledger |-> ListedOutputs(ledger[i])]

LEMMA OutputsHold ==
  ASSUME LedgerInv
  PROVE  /\ FlattenSeq(Parts) \in Seq(Slots)
         /\ \A o : Holds(FlattenSeq(Parts), o)
                     <=> \E i \in 1 .. Len(ledger) : \E j \in 1 .. Len(Outs(ledger[i])) : o = Slot(Outs(ledger[i])[j], j)
         /\ Distinct(FlattenSeq(Parts))
<1> DEFINE n == Len(ledger)
<1>1. n \in Nat /\ DOMAIN ledger = 1 .. n
  BY LenProperties DEF LedgerInv
<1>2. ASSUME NEW i \in 1 .. n
      PROVE  /\ ListedOutputs(ledger[i]) \in Seq(Slots)
             /\ Len(ListedOutputs(ledger[i])) = Len(Outs(ledger[i]))
             /\ \A j \in 1 .. Len(Outs(ledger[i])) : ListedOutputs(ledger[i])[j] = Slot(Outs(ledger[i])[j], j)
  <2>1. Posted(ledger[i])
    BY DEF LedgerInv
  <2> QED BY <2>1, ListedPart
<1>3. \A i, k \in 1 .. n : \A j \in 1 .. Len(Outs(ledger[i])), m \in 1 .. Len(Outs(ledger[k])) :
         Outs(ledger[i])[j].rho = Outs(ledger[k])[m].rho => i = k /\ j = m
  BY DEF LedgerInv
<1> HIDE DEF n
<1>4. Parts = [i \in 1 .. n |-> Parts[i]] /\ \A i \in 1 .. n : Parts[i] = ListedOutputs(ledger[i])
  BY <1>1 DEF Parts
<1>5. Parts \in Seq(Seq(Slots)) /\ Len(Parts) = n
  <2>1. \A i \in 1 .. n : Parts[i] \in Seq(Slots)
    BY <1>2, <1>4
  <2> QED BY <1>1, <1>4, <2>1, LenOfFunction
<1>6. ASSUME NEW o
      PROVE  Holds(FlattenSeq(Parts), o)
               <=> \E i \in 1 .. n : \E j \in 1 .. Len(Outs(ledger[i])) : o = Slot(Outs(ledger[i])[j], j)
  <2>1. Holds(FlattenSeq(Parts), o) <=> InFirst(Parts, n, o)
    BY <1>5, FlattenHolds
  <2>2. InFirst(Parts, n, o) <=> \E i \in 1 .. n : \E j \in 1 .. Len(Outs(ledger[i])) : o = Slot(Outs(ledger[i])[j], j)
    BY <1>2, <1>4 DEF InFirst
  <2> QED BY <2>1, <2>2
<1>7. ASSUME NEW i \in 1 .. n, NEW k \in 1 .. n, NEW j \in 1 .. Len(Parts[i]), NEW m \in 1 .. Len(Parts[k]),
             Parts[i][j] = Parts[k][m]
      PROVE  i = k /\ j = m
  <2>1. j \in 1 .. Len(Outs(ledger[i])) /\ m \in 1 .. Len(Outs(ledger[k]))
    BY <1>2, <1>4
  <2>2. Parts[i][j] = Slot(Outs(ledger[i])[j], j) /\ Parts[k][m] = Slot(Outs(ledger[k])[m], m)
    BY <1>2, <1>4, <2>1
  <2>3. Outs(ledger[i])[j] = Outs(ledger[k])[m]
    BY <1>7, <2>2, SlotTells
  <2> QED BY <1>3, <2>1, <2>3
<1>8. AllApart(Parts)
  BY <1>5, <1>7 DEF AllApart, Distinct
<1>9. FlattenSeq(Parts) \in Seq(Slots) /\ Distinct(FlattenSeq(Parts))
  BY <1>5, <1>8, FlattenHolds
<1> QED BY <1>6, <1>9 DEF n

LEMMA TryDecryptDef ==
  ASSUME NEW o \in Note, NEW j, NEW owner, NEW key
  PROVE  TryDecryptNote(Slot(o, j), [owner |-> owner, key |-> key])
           = IF j = key /\ o.owner = owner THEN <<o>> ELSE << >>
<1> DEFINE slot == Slot(o, j)
           ctx == [owner |-> owner, key |-> key]
           pt == DecryptRecipient(slot.cRecipient, ctx.key)
           note == [asset |-> pt.asset, value |-> pt.value, owner |-> ctx.owner, rho |-> pt.rho]
<1>1. slot.commitment = o /\ slot.cRecipient = EncryptToRecipient(o, j) /\ ctx.owner = owner /\ ctx.key = key
  BY DEF Slot
<1>2. /\ o = [asset |-> o.asset, value |-> o.value, owner |-> o.owner, rho |-> o.rho]
      /\ o.value \in Value
  BY DEF Note
<1>3. TryDecryptNote(slot, ctx) = IF pt.value \in Value /\ note = slot.commitment THEN <<note>> ELSE << >>
  BY DEF TryDecryptNote
<1>4. CASE j = key
  <2>1. pt = [value |-> o.value, asset |-> o.asset, rho |-> o.rho]
    BY <1>1, <1>4 DEF DecryptRecipient, EncryptToRecipient
  <2> HIDE DEF pt, slot, ctx
  <2>2. note = [asset |-> o.asset, value |-> o.value, owner |-> owner, rho |-> o.rho] /\ pt.value = o.value
    BY <1>1, <2>1
  <2>3. CASE o.owner = owner
    <3>1. note = o
      BY <1>2, <2>2, <2>3
    <3> HIDE DEF note
    <3> QED BY <1>1, <1>2, <1>3, <1>4, <2>2, <2>3, <3>1 DEF slot, ctx
  <2>4. CASE o.owner # owner
    <3>1. note.owner = owner
      BY <2>2
    <3>2. note # o
      BY <2>4, <3>1
    <3> HIDE DEF note
    <3> QED BY <1>1, <1>3, <2>4, <3>2 DEF slot, ctx
  <2> QED BY <2>3, <2>4
<1>5. CASE j # key
  <2>1. pt = [value |-> MAX_VALUE + 1, asset |-> << >>, rho |-> 0]
    BY <1>1, <1>5 DEF DecryptRecipient, EncryptToRecipient
  <2>2. pt.value \notin Value
    <3> HIDE DEF pt
    <3> QED BY <2>1, NotesAssumption DEF Value
  <2> HIDE DEF pt, note
  <2> QED BY <1>3, <1>5, <2>2
<1> QED BY <1>4, <1>5

\* Whether a recipient with this key of a channel should find the note.
Due(owner, key, x) ==
  \E i \in 1 .. Len(ledger) : key \in 1 .. Len(Outs(ledger[i])) /\ x = Outs(ledger[i])[key] /\ x.owner = owner

LEMMA ScanHolds ==
  ASSUME LedgerInv, NEW owner, NEW key
  PROVE  LET found == ScanForOwnedNotes(FlattenSeq(Parts), [owner |-> owner, key |-> key])
         IN  /\ found \in Seq(Note)
             /\ \A x : Holds(found, x) <=> Due(owner, key, x)
             /\ Distinct(found)
<1> DEFINE outputs == FlattenSeq(Parts)
           ctx == [owner |-> owner, key |-> key]
           n == Len(outputs)
           found == ScanForOwnedNotes(outputs, ctx)
           tried == [i \in 1 .. n |-> TryDecryptNote(outputs[i], ctx)]
           Slotted(o) == \E i \in 1 .. Len(ledger) : \E j \in 1 .. Len(Outs(ledger[i])) : o = Slot(Outs(ledger[i])[j], j)
<1>1. outputs \in Seq(Slots) /\ Distinct(outputs) /\ \A o : Holds(outputs, o) <=> Slotted(o)
  BY OutputsHold
<1>2. n \in Nat /\ DOMAIN outputs = 1 .. n
  BY <1>1, LenProperties
<1>3. \A i \in 1 .. Len(ledger) : \A j \in 1 .. Len(Outs(ledger[i])) : Outs(ledger[i])[j] \in Note
  <2> TAKE i \in 1 .. Len(ledger)
  <2>1. Outs(ledger[i]) \in Seq(Note)
    BY ListedPart DEF LedgerInv
  <2> QED BY <2>1, ElementOfSeq
<1>4. found = FlattenSeq(tried)
  BY <1>2 DEF ScanForOwnedNotes
<1> HIDE DEF outputs, n, ctx, found
<1>5. ASSUME NEW i \in 1 .. n
      PROVE  \E k \in 1 .. Len(ledger) : \E j \in 1 .. Len(Outs(ledger[k])) :
               /\ outputs[i] = Slot(Outs(ledger[k])[j], j)
               /\ tried[i] = IF j = key /\ Outs(ledger[k])[j].owner = owner THEN <<Outs(ledger[k])[j]>> ELSE << >>
  <2>1. Holds(outputs, outputs[i])
    BY DEF Holds, n
  <2>2. PICK k \in 1 .. Len(ledger) : \E j \in 1 .. Len(Outs(ledger[k])) : outputs[i] = Slot(Outs(ledger[k])[j], j)
    BY <1>1, <2>1
  <2>3. PICK j \in 1 .. Len(Outs(ledger[k])) : outputs[i] = Slot(Outs(ledger[k])[j], j)
    BY <2>2
  <2>4. Outs(ledger[k])[j] \in Note
    BY <1>3
  <2>5. tried[i] = TryDecryptNote(Slot(Outs(ledger[k])[j], j), ctx)
    BY <2>3
  <2>6. tried[i] = IF j = key /\ Outs(ledger[k])[j].owner = owner THEN <<Outs(ledger[k])[j]>> ELSE << >>
    BY <2>4, <2>5, TryDecryptDef DEF ctx
  <2> HIDE DEF tried
  <2> QED BY <2>3, <2>6
<1>6. tried = [i \in 1 .. n |-> tried[i]]
  OBVIOUS
<1> HIDE DEF tried
<1>7. ASSUME NEW i \in 1 .. n, NEW a \in 1 .. Len(tried[i])
      PROVE  /\ a = 1 /\ tried[i][a] \in Note
             /\ outputs[i] = Slot(tried[i][a], key)
             /\ Due(owner, key, tried[i][a])
  <2>1. PICK k \in 1 .. Len(ledger) : \E j \in 1 .. Len(Outs(ledger[k])) :
               /\ outputs[i] = Slot(Outs(ledger[k])[j], j)
               /\ tried[i] = IF j = key /\ Outs(ledger[k])[j].owner = owner THEN <<Outs(ledger[k])[j]>> ELSE << >>
    BY <1>5
  <2>2. PICK j \in 1 .. Len(Outs(ledger[k])) :
               /\ outputs[i] = Slot(Outs(ledger[k])[j], j)
               /\ tried[i] = IF j = key /\ Outs(ledger[k])[j].owner = owner THEN <<Outs(ledger[k])[j]>> ELSE << >>
    BY <2>1
  <2> DEFINE o == Outs(ledger[k])[j]
  <2>3. o \in Note
    BY <1>3
  <2>4. j = key /\ o.owner = owner /\ tried[i] = <<o>>
    <3>1. Len(<< >>) = 0
      OBVIOUS
    <3> HIDE DEF o
    <3>2. tried[i] # << >>
      BY <3>1
    <3> QED BY <2>2, <3>2 DEF o
  <2>5. a = 1 /\ tried[i][a] = o
    BY <2>4
  <2>6. Due(owner, key, o)
    BY <2>4 DEF Due
  <2> QED BY <2>2, <2>3, <2>4, <2>5, <2>6
<1>8. \A i \in 1 .. n : tried[i] \in Seq(Note)
  <2> TAKE i \in 1 .. n
  <2>1. \E x : tried[i] = << >> \/ tried[i] = <<x>>
    BY <1>5
  <2>2. CASE tried[i] = << >>
    BY <2>2
  <2>3. ASSUME NEW x, tried[i] = <<x>>
        PROVE  tried[i] \in Seq(Note)
    <3>1. 1 \in 1 .. Len(tried[i]) /\ tried[i][1] = x
      BY <2>3
    <3>2. x \in Note
      BY <1>7, <3>1
    <3> QED BY <2>3, <3>2
  <2> QED BY <2>1, <2>2, <2>3
<1>9. tried \in Seq(Seq(Note)) /\ Len(tried) = n
  BY <1>2, <1>6, <1>8, LenOfFunction
<1>10. ASSUME NEW x
       PROVE  Holds(found, x) <=> Due(owner, key, x)
  <2>1. Holds(found, x) <=> InFirst(tried, n, x)
    BY <1>4, <1>9, FlattenHolds
  <2>2. InFirst(tried, n, x) => Due(owner, key, x)
    BY <1>7 DEF InFirst
  <2>3. ASSUME Due(owner, key, x)
        PROVE  InFirst(tried, n, x)
    <3>1. PICK k \in 1 .. Len(ledger) : key \in 1 .. Len(Outs(ledger[k])) /\ x = Outs(ledger[k])[key] /\ x.owner = owner
      BY <2>3 DEF Due
    <3>2. Holds(outputs, Slot(x, key))
      BY <1>1, <3>1
    <3>3. PICK i \in 1 .. n : outputs[i] = Slot(x, key)
      BY <3>2 DEF Holds, n
    <3>4. x \in Note
      BY <1>3, <3>1
    <3>5. tried[i] = <<x>>
      <4>1. tried[i] = TryDecryptNote(Slot(x, key), ctx)
        BY <3>3 DEF tried
      <4> QED BY <3>1, <3>4, <4>1, TryDecryptDef DEF ctx
    <3>6. 1 \in 1 .. Len(tried[i]) /\ tried[i][1] = x
      BY <3>5
    <3> QED BY <3>6 DEF InFirst
  <2> QED BY <2>1, <2>2, <2>3
<1>11. AllApart(tried)
  <2>1. ASSUME NEW i \in 1 .. n, NEW k \in 1 .. n, NEW a \in 1 .. Len(tried[i]), NEW b \in 1 .. Len(tried[k]),
               tried[i][a] = tried[k][b]
        PROVE  i = k /\ a = b
    <3>1. outputs[i] = outputs[k] /\ a = 1 /\ b = 1
      BY <1>7, <2>1
    <3> QED BY <1>1, <3>1 DEF Distinct, n
  <2> QED BY <1>9, <2>1 DEF AllApart, Distinct
<1>12. found \in Seq(Note) /\ Distinct(found)
  BY <1>4, <1>9, <1>11, FlattenHolds
<1> QED BY <1>10, <1>12 DEF found, outputs, ctx

LEMMA ScanFindsHere == DisclosureInv => ScanFinds
<1> SUFFICES ASSUME DisclosureInv, NEW owner \in Owners, NEW key \in 1 .. 2
             PROVE  LET outputs == FlattenSeq([i \in DOMAIN ledger |-> ListedOutputs(ledger[i])])
                        found == ScanForOwnedNotes(outputs, [owner |-> owner, key |-> key])
                        mine == UNION {{ledger[i].truth.outs[j] : j \in {k \in {key} \cap DOMAIN ledger[i].truth.outs :
                                          ledger[i].truth.outs[k].owner = owner}} : i \in DOMAIN ledger}
                        balances == AggregateByAsset(found)
                    IN  /\ ToSet(found) = mine
                        /\ Len(found) = Cardinality(mine)
                        /\ \A a \in DOMAIN balances :
                              balances[a].rawAmount = MapThenSumSet(LAMBDA n : n.value, {n \in mine : n.asset = a})
  BY DEF ScanFinds
<1> DEFINE outputs == FlattenSeq([i \in DOMAIN ledger |-> ListedOutputs(ledger[i])])
           found == ScanForOwnedNotes(outputs, [owner |-> owner, key |-> key])
           mine == UNION {{ledger[i].truth.outs[j] : j \in {k \in {key} \cap DOMAIN ledger[i].truth.outs :
                             ledger[i].truth.outs[k].owner = owner}} : i \in DOMAIN ledger}
           balances == AggregateByAsset(found)
<1>0. LedgerInv
  BY DEF DisclosureInv
<1>1. found \in Seq(Note) /\ (\A x : Holds(found, x) <=> Due(owner, key, x)) /\ Distinct(found)
  BY <1>0, ScanHolds DEF Parts
<1>2. DOMAIN ledger = 1 .. Len(ledger)
  BY <1>0, LenProperties DEF LedgerInv
<1>3. \A i \in 1 .. Len(ledger) : DOMAIN Outs(ledger[i]) = 1 .. Len(Outs(ledger[i]))
  <2> TAKE i \in 1 .. Len(ledger)
  <2>1. Outs(ledger[i]) \in Seq(Note)
    BY <1>0, ListedPart DEF LedgerInv
  <2> QED BY <2>1, LenProperties
<1>4. \A x : x \in mine <=> Due(owner, key, x)
  BY <1>2, <1>3 DEF Due, Outs
<1> HIDE DEF found, mine
<1>5. DOMAIN found = 1 .. Len(found) /\ ToSet(found) = {found[i] : i \in 1 .. Len(found)}
  BY <1>1, LenProperties, RangeOf
<1>6. ToSet(found) = mine
  <2>1. \A x : x \in ToSet(found) <=> Holds(found, x)
    BY <1>5 DEF Holds
  <2> QED BY <1>1, <1>4, <2>1
<1>7. Len(found) = Cardinality(mine)
  BY <1>1, <1>6, DistinctCount
<1>8. ASSUME NEW a \in DOMAIN balances
      PROVE  balances[a].rawAmount = MapThenSumSet(LAMBDA n : n.value, {n \in mine : n.asset = a})
  <2> DEFINE I == {i \in DOMAIN found : found[i].asset = a}
  <2>1. balances[a].rawAmount = MapThenSumSet(LAMBDA i : found[i].value, I)
    BY DEF AggregateByAsset
  <2>2. I \in SUBSET (1 .. Len(found))
    BY <1>5
  <2>3. {found[i] : i \in I} = {n \in mine : n.asset = a}
    BY <1>5, <1>6
  <2> HIDE DEF I, balances
  <2>4. MapThenSumSet(LAMBDA i : found[i].value, I) = ValueOf({found[i] : i \in I})
    BY <1>1, <2>2, IndexSums
  <2> QED BY <2>1, <2>3, <2>4 DEF ValueOf
<1> QED BY <1>6, <1>7, <1>8 DEF found, mine

\* A recipient's scan of the listed outputs finds exactly the notes that it owns among those
\* under its key, each once, and sums them per asset (sdk/src/scan.ts).
THEOREM ScanAlwaysFinds == Spec => []ScanFinds
BY DisclosureInvariant, ScanFindsHere, PTL
=============================================================================
