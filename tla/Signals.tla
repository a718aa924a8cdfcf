------------------------------ MODULE Signals -------------------------------
(***************************************************************************)
(* A witness signal by signal: what the SDK's builders put next to the      *)
(* notes (sdk/src/witness.ts: roots, paths, low leaves, nullifiers,         *)
(* ciphertexts, the tree transition) and what the circuits demand of it     *)
(* (circuits/lib).  Module Circuits states the same demand abstractly.      *)
(*                                                                         *)
(* A token's address is a number and its asset_id the hash <<address>>.     *)
(***************************************************************************)
EXTENDS Witness, FrozenTree, Disclosure

CONSTANTS
  PartyA, PartyB, IntentKey,  \* the scripts' keys as numbers
  SacX, SacY,                 \* the demo's token addresses
  SCENARIO_VIEW_KEY

DeriveAssetId(sacAddress) == <<sacAddress>>

\* The scripts' amounts go up to 3 here, and their commitments to 8.
ASSUME SignalsAssumption ==
  /\ Cardinality({PartyA, PartyB, IntentKey}) = 3
  /\ {PartyA, PartyB, IntentKey} \subseteq Owners \cap (1 .. IMT_MAX - 1)
  /\ SacX # SacY
  /\ {DeriveAssetId(SacX), DeriveAssetId(SacY)} \subseteq Assets
  /\ 3 <= MAX_VALUE
  /\ 8 < IMT_MAX

\* A commitment or a key as a leaf, and a commitment's place among the field
\* elements, which its randomness decides.
LeafOf(x) == <<x>>
NumberOf(n) == n.rho

NoteOf(sac, value, owner, rho) ==
  [asset |-> DeriveAssetId(sac), value |-> value, owner |-> owner, rho |-> rho]

\* The trees of the compliance state, as demoState builds them, and the tree the
\* outputs are inserted into.
\*   kyc, sanction: sequences of identities; assets: of registry entries
\*   frozen: commitments as numbers
ViewOf(kyc, sanction, assets, frozen, frontier, nextIndex, kView) ==
  [kyc |-> kyc, sanction |-> sanction, assets |-> assets, frozen |-> frozen,
   frontier |-> frontier, nextIndex |-> nextIndex, kView |-> kView]

KycLeaves(v) == [i \in DOMAIN v.kyc |-> LeafOf(v.kyc[i])]

AssetLeaves(v) ==
  [i \in DOMAIN v.assets |->
     AssetsLeafHash(DeriveAssetId(v.assets[i].sac), v.assets[i].sac, v.assets[i].decimals, v.assets[i].limit)]

----------------------------------------------------------------------------
\* The identities a circuit checks against the KYC tree.
Recipients(w) ==
  CASE w.kind = "unshield" -> <<w.recipient>>
    [] w.kind = "transfer" -> <<w.outs[1].owner>>
    [] w.kind = "deposit"  -> << >>
    [] OTHER -> [i \in DOMAIN w.outs |-> w.outs[i].owner]

\* The amounts it compares with the registry's limit.
Metered(w) ==
  IF w.kind = "unshield"
  THEN << [asset |-> w.ins[1].asset, value |-> w.amount] >>
  ELSE [i \in DOMAIN w.outs |-> [asset |-> w.outs[i].asset, value |-> w.outs[i].value]]

\* Fault: the last output first.
InsertedReversed(w) ==
  IF w.outs = << >> THEN <<EMPTY_LEAF>> ELSE Reverse([i \in DOMAIN w.outs |-> LeafOf(w.outs[i])])

\* Without an output the zero leaf is inserted.
Inserted(w) == IF w.outs = << >> THEN <<EMPTY_LEAF>> ELSE [i \in DOMAIN w.outs |-> LeafOf(w.outs[i])]

\* Where a caller finds something in a list; the first place when it is not there.
IndexIn(s, x) == IF x \in ToSet(s) THEN SelectInSeq(s, LAMBDA y : y = x) - 1 ELSE 0

Transition(w, v) ==
  LET t == ApplyFrontierTransition(v.frontier, v.nextIndex, Inserted(w))
  IN  IF w.outs = << >> THEN [t EXCEPT !.frontier = v.frontier] ELSE t

\* Everything a builder derives from the notes and the view.
SignalsOf(w, v) ==
  LET anchor == [i \in DOMAIN w.anchor |-> LeafOf(w.anchor[i])]
      meterAt(i) == IndexIn([k \in DOMAIN v.assets |-> DeriveAssetId(v.assets[k].sac)], Metered(w)[i].asset)
      t == Transition(w, v)
  IN  [w            |-> w,
       keys         |-> [i \in DOMAIN w.ins |-> w.ins[i].owner],
       nullifiers   |-> [i \in DOMAIN w.ins |-> Nullifier(w.ins[i])],
       commitments  |-> [i \in DOMAIN w.outs |-> LeafOf(w.outs[i])],
       anchorRoot   |-> Replay(anchor).root,
       inPaths      |-> [i \in DOMAIN w.ins |-> InclusionPath(anchor, IndexIn(w.anchor, w.ins[i]))],
       frozenRoot   |-> FrozenRootOf(v.frozen),
       unfrozen     |-> [i \in DOMAIN w.ins |-> FrozenNonMembership(v.frozen, NumberOf(w.ins[i]))],
       kycRoot      |-> Replay(KycLeaves(v)).root,
       kycPaths     |-> [i \in DOMAIN Recipients(w) |->
                           InclusionPath(KycLeaves(v), IndexIn(v.kyc, Recipients(w)[i]))],
       sanctionRoot |-> FrozenRootOf(v.sanction),
       unsanctioned |-> [i \in DOMAIN Recipients(w) |-> FrozenNonMembership(v.sanction, Recipients(w)[i])],
       assetsRoot   |-> Replay(AssetLeaves(v)).root,
       meters       |-> [i \in DOMAIN Metered(w) |->
                           [leaf |-> AssetLeaves(v)[meterAt(i) + 1],
                            path |-> InclusionPath(AssetLeaves(v), meterAt(i))]],
       kView        |-> v.kView,
       cAuditor     |-> [i \in DOMAIN w.outs |-> EncryptToAuditor(w.outs[i], v.kView)],
       oldFrontier  |-> v.frontier,
       nextIndex    |-> v.nextIndex,
       newFrontier  |-> t.frontier,
       newRoot      |-> t.root]

----------------------------------------------------------------------------
(* The constraints, gadget by gadget.                                      *)

SpentNotes(s) ==
  \A i \in DOMAIN s.w.ins :
    LET n == s.w.ins[i] IN
    /\ n.owner = s.keys[i]
    /\ s.nullifiers[i] = <<n.rho, s.keys[i]>>
    /\ n.value \in Value
    /\ VerifyInclusionPath(LeafOf(n), s.inPaths[i], s.anchorRoot)
    /\ AbsentUnder(NumberOf(n), s.unfrozen[i].low, s.unfrozen[i].path, s.frozenRoot)

\* One asset per leg, what goes in comes out.
Conserved(w) ==
  LET legwise == \A i \in DOMAIN w.ins :
                   w.outs[i].asset = w.ins[i].asset /\ w.outs[i].value = w.ins[i].value
  IN  CASE w.kind = "shield"   -> w.amount = w.outs[1].value
        [] w.kind = "transfer" -> /\ w.ins[1].owner = w.ins[2].owner
                                  /\ \A n \in {w.ins[2], w.outs[1], w.outs[2]} : n.asset = w.ins[1].asset
                                  /\ w.ins[1].value + w.ins[2].value = w.outs[1].value + w.outs[2].value
        [] w.kind = "unshield" -> /\ \A i \in DOMAIN w.outs : w.outs[i].asset = w.ins[1].asset
                                  /\ w.ins[1].value = w.amount + (IF w.outs = << >> THEN 0 ELSE w.outs[1].value)
        [] OTHER -> legwise

\* Fault: the ciphertext is published as it comes.
NewNotesUnsealed(s) ==
  \A i \in DOMAIN s.w.outs : s.w.outs[i].value \in Value /\ s.commitments[i] = LeafOf(s.w.outs[i])

\* The auditor's ciphertext is of the note behind the commitment.
NewNotes(s) ==
  \A i \in DOMAIN s.w.outs :
    /\ s.w.outs[i].value \in Value
    /\ s.commitments[i] = LeafOf(s.w.outs[i])
    /\ s.cAuditor[i] = EncryptToAuditor(s.w.outs[i], s.kView)

Registered(s) ==
  \A i \in DOMAIN Metered(s.w) :
    LET leaf == s.meters[i].leaf IN
    /\ leaf[1] = Metered(s.w)[i].asset
    /\ leaf[1] = DeriveAssetId(leaf[2])
    /\ Metered(s.w)[i].value \in Value
    /\ leaf[4] \in Value
    /\ Metered(s.w)[i].value <= leaf[4]
    /\ VerifyInclusionPath(leaf, s.meters[i].path, s.assetsRoot)

Approved(s) ==
  \A i \in DOMAIN Recipients(s.w) :
    LET party == Recipients(s.w)[i] IN
    /\ VerifyInclusionPath(LeafOf(party), s.kycPaths[i], s.kycRoot)
    /\ s.w.kind # "shield" =>
         AbsentUnder(party, s.unsanctioned[i].low, s.unsanctioned[i].path, s.sanctionRoot)

\* Without an output the circuit keeps the old frontier, but takes the root.
Advanced(s) ==
  LET t == CircuitTransition(s.oldFrontier, Inserted(s.w), s.nextIndex)
  IN  /\ IndicesFit(s.nextIndex, Len(Inserted(s.w)))
      /\ s.newFrontier = IF s.w.outs = << >> THEN s.oldFrontier ELSE t.frontier
      /\ s.newRoot = t.root

\* The witness generator accepts these signals.
WitnessOk(s) ==
  SpentNotes(s) /\ Conserved(s.w) /\ NewNotes(s) /\ Registered(s) /\ Approved(s) /\ Advanced(s)

----------------------------------------------------------------------------
\* The view as module Circuits has it: sets for roots.
Abstracted(w, v) ==
  [kyc |-> ToSet(v.kyc), sanction |-> ToSet(v.sanction),
   assets |-> {[asset |-> DeriveAssetId(a.sac), limit |-> a.limit] : a \in ToSet(v.assets)},
   frozen |-> {n \in ToSet(w.ins) : NumberOf(n) \in ToSet(v.frozen)},
   frontier |-> v.frontier, nextIndex |-> v.nextIndex]
=============================================================================
