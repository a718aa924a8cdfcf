----------------------------- MODULE MerkleTree -----------------------------
(***************************************************************************)
(* The SDK's incremental Merkle tree (sdk/src/merkle.ts), hash by hash.     *)
(*                                                                         *)
(* A field element is a tuple and Poseidon is the tuple of its inputs, which *)
(* is injective: << >> is the empty leaf, <<x>> the commitment or key x,     *)
(* <<l, r>> a node, and the longer tuples are the hashed leaves of the       *)
(* registries.                                                             *)
(***************************************************************************)
EXTENDS Integers, SequencesExt

CONSTANT TREE_DEPTH   \* 20 in the code

ASSUME TreeDepthAssumption == TREE_DEPTH \in Nat \ {0}

\* The leaves that a tree of each height has room for.
capacity[height \in 0 .. TREE_DEPTH] == IF height = 0 THEN 1 ELSE 2 * capacity[height - 1]

EMPTY_LEAF == << >>

HashNode(left, right) == <<left, right>>

ImtLeafHash(value, nextIndex, nextValue) == <<value, nextIndex, nextValue>>

AssetsLeafHash(assetId, sacAddress, decimals, perTxLimitRaw) ==
  <<assetId, sacAddress, decimals, perTxLimitRaw>>

\* zeros[i] is the root of an empty subtree of height i.
zeros[i \in Nat] ==
  IF i = 0 THEN EMPTY_LEAF ELSE HashNode(zeros[i - 1], zeros[i - 1])

emptyTreeZeros(depth) == [i \in 1 .. depth + 1 |-> zeros[i - 1]]

EmptyFrontier(depth) == SubSeq(emptyTreeZeros(depth), 1, depth)

\* A leaf's index on the way up: halved at every level.
IndexAt(index) ==
  LET idx[level \in 0 .. TREE_DEPTH] == IF level = 0 THEN index ELSE idx[level - 1] \div 2
  IN  idx

\* The node above leaf index at a level is a right child.
IsRight(index, level) == IndexAt(index)[level] % 2 = 1

----------------------------------------------------------------------------
\* One insertion: what it leaves in the frontier (the last left child of every
\* level) and the root it gives.
InsertInto(frontier, index, leaf) ==
  LET climb[level \in 0 .. TREE_DEPTH] ==
        IF level = 0
        THEN [frontier |-> frontier, root |-> leaf]
        ELSE LET s == climb[level - 1]
             IN  IF IsRight(index, level - 1)
                 THEN [s EXCEPT !.root = HashNode(s.frontier[level], @)]
                 ELSE [frontier |-> [s.frontier EXCEPT ![level] = s.root],
                       root     |-> HashNode(s.root, zeros[level - 1])]
  IN  climb[TREE_DEPTH]

\* The insertion of several leaves, as the builders compute it.
ApplyFrontierTransition(oldFrontier, nextIndex, newLeaves) ==
  LET after[j \in 0 .. Len(newLeaves)] ==
        IF j = 0
        THEN [frontier |-> oldFrontier, root |-> zeros[TREE_DEPTH]]
        ELSE InsertInto(after[j - 1].frontier, nextIndex + j - 1, newLeaves[j])
  IN  after[Len(newLeaves)]

\* The nodes that the circuit computes above a leaf, level by level.
CircuitNodes(frontier, index, leaf) ==
  LET cur[l \in 0 .. TREE_DEPTH] ==
        IF l = 0
        THEN leaf
        ELSE IF IsRight(index, l - 1)
             THEN HashNode(frontier[l], cur[l - 1])
             ELSE HashNode(cur[l - 1], zeros[l - 1])
  IN  cur

\* The circuit's FrontierTransition: a left child takes its level of the frontier.
CircuitTransition(oldFrontier, leaves, nextIndex) ==
  LET fr[j \in 0 .. Len(leaves)] ==
        IF j = 0
        THEN oldFrontier
        ELSE [l \in 1 .. TREE_DEPTH |->
                IF IsRight(nextIndex + j - 1, l - 1)
                THEN fr[j - 1][l]
                ELSE CircuitNodes(fr[j - 1], nextIndex + j - 1, leaves[j])[l - 1]]
      last == Len(leaves)
  IN  [frontier |-> fr[last],
       root     |-> CircuitNodes(fr[last - 1], nextIndex + last - 1, leaves[last])[TREE_DEPTH]]

\* root() and frontier() of a tree with these leaves: all insertions replayed.
Replay(leaves) == ApplyFrontierTransition(EmptyFrontier(TREE_DEPTH), 0, leaves)

----------------------------------------------------------------------------
\* The nodes of a level, as far as there are leaves below them.
Rows(leaves) ==
  LET row[d \in 0 .. TREE_DEPTH] ==
        IF d = 0
        THEN leaves
        ELSE [i \in 1 .. (Len(row[d - 1]) + 1) \div 2 |->
                HashNode(row[d - 1][2 * i - 1],
                         IF 2 * i <= Len(row[d - 1]) THEN row[d - 1][2 * i] ELSE zeros[d - 1])]
  IN  row

\* Siblings and directions from a leaf to the root; leafIndex counts from 0.
InclusionPath(leaves, leafIndex) ==
  LET rows == Rows(leaves)
      at == IndexAt(leafIndex)
      sibling(d) == IF at[d] % 2 = 1 THEN at[d] - 1 ELSE at[d] + 1
  IN  [siblings |-> [k \in 1 .. TREE_DEPTH |->
                       IF sibling(k - 1) < Len(rows[k - 1])
                       THEN rows[k - 1][sibling(k - 1) + 1]
                       ELSE zeros[k - 1]],
       pathBits |-> [k \in 1 .. TREE_DEPTH |-> at[k - 1] % 2]]

VerifyInclusionPath(leaf, path, root) ==
  LET cur[d \in 0 .. TREE_DEPTH] ==
        IF d = 0
        THEN leaf
        ELSE IF path.pathBits[d] = 0
             THEN HashNode(cur[d - 1], path.siblings[d])
             ELSE HashNode(path.siblings[d], cur[d - 1])
  IN  root = cur[TREE_DEPTH]

----------------------------------------------------------------------------
\* A non-membership set: the values in ascending order, each leaf naming the next
\* value, between a head that stands for 0 and a tail that stands for max.
ImtLeaves(sorted, max) ==
  LET n == Len(sorted)
      next(i) == IF i < n THEN sorted[i + 1] ELSE max
  IN  <<ImtLeafHash(0, 1, next(0))>>
        \o [i \in 1 .. n |-> ImtLeafHash(sorted[i], i + 1, next(i))]
        \o <<ImtLeafHash(max, 0, 0)>>

\* MerkleNonMembership: the low leaf is in the tree and brackets the target.
AbsentUnder(target, low, path, root) ==
  /\ low[1] < target
  /\ target < low[3] \/ low[3] = 0
  /\ VerifyInclusionPath(low, path, root)
=============================================================================
