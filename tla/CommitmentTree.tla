--------------------------- MODULE CommitmentTree ---------------------------
(***************************************************************************)
(* One on-chain commitment tree (contracts/finnes/src/merkle.rs) and the   *)
(* circuits' FrontierTransition (circuits/lib/merkle.circom).              *)
(*                                                                         *)
(* The contract hashes nothing: it stores the frontier and the root a proof *)
(* outputs.  With a collision-free hash a root and a frontier each stand   *)
(* for one sequence of leaves, and are represented by it.                  *)
(***************************************************************************)
EXTENDS Notes, Sequences

CONSTANTS
  TREE_CAPACITY,          \* 2^TREE_DEPTH, TREE_DEPTH = 20 in the code
  RECENT_ROOTS_CAPACITY   \* 64 in the code

ASSUME TreeAssumption ==
  /\ TREE_CAPACITY \in Nat
  /\ RECENT_ROOTS_CAPACITY \in Nat \ {0}

Leaves == Seq(Note)

TreeState == [frontier : Leaves, root : Leaves, leafCount : Nat, recentRoots : Seq(Leaves)]

\* The seed `init` stores: empty frontier and root, ring of one root, no leaf.
EmptyTree ==
  [frontier |-> << >>, root |-> << >>, leafCount |-> 0, recentRoots |-> << << >> >>]

----------------------------------------------------------------------------
(* The circuit's side.                                                     *)

\* Num2Bits(depth) range-checks the index of each of the inserted leaves, the
\* gated zero leaf of an unshield without change included.
IndicesFit(nextIndex, nInserts) == nextIndex + nInserts <= TREE_CAPACITY

\* The leaves behind the frontier and the root that FrontierTransition outputs.
\* An index below the number of leaves behind the frontier writes over what
\* stands there; this is how a misplaced insert loses commitments.
FrontierTransition(frontier, nextIndex, leaves) ==
  IF nextIndex < Len(frontier)
  THEN SubSeq(frontier, 1, nextIndex) \o leaves
  ELSE frontier \o leaves

----------------------------------------------------------------------------
(* The contract's side.                                                    *)

\* Faults (wrong versions of the next definitions, for testing the properties):
\* an input is not compared with what is stored; the ring is never trimmed, or
\* takes no root any more once it is full.
CheckOldFrontierSkipped(t, oldFrontier) == TRUE
CheckNextIndexSkipped(t, nextIndex) == TRUE
IsRecentRootSkipped(t, candidate) == TRUE
PushUntrimmed(ring, root) == Append(ring, root)
PushUntilFull(ring, root) ==
  IF Len(ring) < RECENT_ROOTS_CAPACITY THEN Append(ring, root) ELSE ring

CheckOldFrontier(t, oldFrontier) == t.frontier = oldFrontier

CheckNextIndex(t, nextIndex) == t.leafCount = nextIndex

IsRecentRoot(t, candidate) ==
  \E i \in DOMAIN t.recentRoots : t.recentRoots[i] = candidate

\* Oldest first; the root is pushed even when it is already in the ring.
PushRecentRoot(ring, root) ==
  IF Len(ring) < RECENT_ROOTS_CAPACITY
  THEN Append(ring, root)
  ELSE Append(Tail(ring), root)

ApplyTransition(t, newFrontier, newRoot, nInserts) ==
  [frontier    |-> newFrontier,
   root        |-> newRoot,
   leafCount   |-> t.leafCount + nInserts,
   recentRoots |-> PushRecentRoot(t.recentRoots, newRoot)]
=============================================================================
