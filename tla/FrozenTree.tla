----------------------------- MODULE FrozenTree -----------------------------
(***************************************************************************)
(* The frozen set as the console keeps it (frontend/lib/freeze.ts): an       *)
(* indexed Merkle tree rebuilt from the frozen commitments, for the issuer   *)
(* who freezes another one and for the spender who proves that a note is     *)
(* not among them.                                                         *)
(***************************************************************************)
EXTENDS MerkleTree

CONSTANT IMT_MAX   \* r - 1 in the code

ASSUME ImtMaxAssumption == IMT_MAX \in Nat

\* Ascending, without repetitions.
SortedFrozen(cms) ==
  CHOOSE sorted \in [1 .. Cardinality(ToSet(cms)) -> ToSet(cms)] :
    \A i, j \in DOMAIN sorted : i < j => sorted[i] < sorted[j]

BuildFrozenImt(sorted) == ImtLeaves(sorted, IMT_MAX)

FrozenRootOf(cms) == Replay(BuildFrozenImt(SortedFrozen(cms))).root

\* computeFreeze throws for a target out of range or already frozen.
CanFreeze(current, target) == target \in 1 .. IMT_MAX - 1 /\ target \notin ToSet(current)

\* Fault: the new commitment is put at the end, not where it belongs.
ComputeFreezeUnsorted(current, target) ==
  Replay(BuildFrozenImt(SortedFrozen(current) \o <<target>>)).root

ComputeFreeze(current, target) == FrozenRootOf(current \o <<target>>)

\* Fault: the low leaf is the first one that is not below.
LowIndexPast(sorted, cm) == Cardinality({i \in DOMAIN sorted : sorted[i] <= cm}) + 1

\* The index of the last leaf below a commitment: the head, or a frozen one.
LowIndex(sorted, cm) == Cardinality({i \in DOMAIN sorted : sorted[i] < cm})

\* frozenNonMembership, which throws for a frozen commitment.
FrozenNonMembership(current, cm) ==
  LET sorted == SortedFrozen(current)
      leaves == BuildFrozenImt(sorted)
      low == LowIndex(sorted, cm)
  IN  [low |-> leaves[low + 1], path |-> InclusionPath(leaves, low), root |-> Replay(leaves).root]
=============================================================================
