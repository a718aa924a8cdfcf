------------------------------ MODULE Gadgets -------------------------------
(***************************************************************************)
(* The gates on single gadgets (scripts/test-*-parity.ts, test-demo-state): *)
(* the full-field comparison bit by bit, membership and non-membership, the *)
(* registry, the tree transition, and the demo's compliance trees.          *)
(***************************************************************************)
EXTENDS Signals, Bits

----------------------------------------------------------------------------
(* The comparison.                                                         *)

\* "r": a bit array of a number from the modulus up passes as a field element.
ComparatorVerdict(flaw) ==
  CASE flaw = "none" -> \A a, b \in Field : LessThanField(a, b) = {IF a < b THEN 1 ELSE 0}
    [] flaw = "r"    -> \E bits \in BitArrays(FR_BITS) : Packed(bits, FR_BITS) >= FR_MODULUS /\ AliasCheckBLS(bits)

----------------------------------------------------------------------------
(* Absence from {0, 10, 50, 90}, the last leaf naming no next value.       *)

ImtList == << ImtLeafHash(0, 1, 10), ImtLeafHash(10, 2, 50), ImtLeafHash(50, 3, 90), ImtLeafHash(90, 0, 0) >>

AbsentBy(target, leafIndex, low) ==
  AbsentUnder(target, low, InclusionPath(ImtList, leafIndex), Replay(ImtList).root)

NonMembershipVerdict(flaw) ==
  CASE flaw = "none"    -> AbsentBy(30, 1, ImtList[2])
    [] flaw = "tail"    -> AbsentBy(200, 3, ImtList[4])
    [] flaw = "present" -> \E x \in {10, 50}, i \in 1 .. 4 : AbsentBy(x, i - 1, ImtList[i])
    [] flaw = "low leaf" -> AbsentBy(30, 1, [ImtList[2] EXCEPT ![3] = 40])

----------------------------------------------------------------------------
(* The registry and its limit.                                             *)

RegistryLeaves ==
  << AssetsLeafHash(DeriveAssetId(SacX), SacX, 7, MAX_VALUE), AssetsLeafHash(DeriveAssetId(SacY), SacY, 2, 2) >>

\* An output of so much of the second token; id and root are what the flaw sets.
Metering(value, id, root) ==
  [w |-> ShieldWitness([NoteOf(SacY, value, PartyA, 6) EXCEPT !.asset = id]),
   meters |-> << [leaf |-> [RegistryLeaves[2] EXCEPT ![1] = id], path |-> InclusionPath(RegistryLeaves, 1)] >>,
   assetsRoot |-> root]

AssetsVerdict(flaw) ==
  LET root == Replay(RegistryLeaves).root
      id == DeriveAssetId(SacY)
  IN  CASE flaw = "none"     -> Registered(Metering(1, id, root))
        [] flaw = "at limit" -> Registered(Metering(2, id, root))
        [] flaw = "limit"    -> Registered(Metering(3, id, root))
        [] flaw = "forged"   -> Registered(Metering(1, <<999>>, root))
        [] flaw = "root"     -> Registered(Metering(1, id, HashNode(root, root)))

----------------------------------------------------------------------------
(* The tree: a path against the root, the circuit's transition against the  *)
(* SDK's, from every filling of the tree and for one leaf or two.           *)

Grown(n) == [i \in 1 .. n |-> LeafOf(i)]

MerkleVerdict(flaw) ==
  CASE flaw = "none" ->
         \A n \in 1 .. TREE_CAPACITY :
           \A i \in 1 .. n : VerifyInclusionPath(LeafOf(i), InclusionPath(Grown(n), i - 1), Replay(Grown(n)).root)
    [] flaw = "transition" ->
         \A n \in 0 .. TREE_CAPACITY - 1, k \in 1 .. 2 :
           n + k <= TREE_CAPACITY =>
             LET leaves == [i \in 1 .. k |-> LeafOf(n + i)]
             IN  CircuitTransition(Replay(Grown(n)).frontier, leaves, n)
                   = ApplyFrontierTransition(Replay(Grown(n)).frontier, n, leaves)

----------------------------------------------------------------------------
(* The demo's trees: both parties enrolled, both tokens registered, nobody  *)
(* sanctioned, nothing frozen.                                             *)

DemoComplianceState ==
  ViewOf(<<PartyA, PartyB>>, << >>,
         << [sac |-> SacX, decimals |-> 7, limit |-> MAX_VALUE], [sac |-> SacY, decimals |-> 7, limit |-> MAX_VALUE] >>,
         << >>, EmptyFrontier(TREE_DEPTH), 0, SCENARIO_VIEW_KEY)

VerifyEnrolled(party, leafIndex) ==
  VerifyInclusionPath(LeafOf(party), InclusionPath(KycLeaves(DemoComplianceState), leafIndex),
                      Replay(KycLeaves(DemoComplianceState)).root)

\* By the head of the empty list alone.
VerifyAbsent(target, root) ==
  LET leaves == BuildFrozenImt(DemoComplianceState.sanction)
  IN  /\ 0 < target /\ target < IMT_MAX
      /\ VerifyInclusionPath(ImtLeafHash(0, 1, IMT_MAX), InclusionPath(leaves, 0), root)

DemoStateVerdict(flaw) ==
  LET assets == AssetLeaves(DemoComplianceState)
  IN  CASE flaw = "none"     -> /\ VerifyEnrolled(PartyA, 0) /\ VerifyEnrolled(PartyB, 1)
                                /\ \A i \in DOMAIN assets :
                                     VerifyInclusionPath(assets[i], InclusionPath(assets, i - 1), Replay(assets).root)
                                /\ \A party \in {PartyA, PartyB} : VerifyAbsent(party, FrozenRootOf(<< >>))
                                /\ Replay(<< >>) = [frontier |-> EmptyFrontier(TREE_DEPTH), root |-> zeros[TREE_DEPTH]]
        [] flaw = "outsider" -> \E i \in 0 .. 1 : VerifyEnrolled(IntentKey, i)
        [] flaw = "root"     -> VerifyAbsent(PartyA, Replay(KycLeaves(DemoComplianceState)).root)

----------------------------------------------------------------------------
GadgetCases ==
  ({"comparator"} \X {"none", "r"})
    \cup ({"non-membership"} \X {"none", "tail", "present", "low leaf"})
    \cup ({"assets"} \X {"none", "at limit", "limit", "forged", "root"})
    \cup ({"merkle"} \X {"none", "transition"}) \cup ({"demo state"} \X {"none", "outsider", "root"})

GadgetVerdict(gadget, flaw) ==
  CASE gadget = "comparator"     -> ComparatorVerdict(flaw)
    [] gadget = "non-membership" -> NonMembershipVerdict(flaw)
    [] gadget = "assets"         -> AssetsVerdict(flaw)
    [] gadget = "merkle"         -> MerkleVerdict(flaw)
    [] gadget = "demo state"     -> DemoStateVerdict(flaw)
=============================================================================
