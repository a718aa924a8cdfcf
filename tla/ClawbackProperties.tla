------------------------- MODULE ClawbackProperties -------------------------
(***************************************************************************)
(* What the SDK's trees, the freeze, the disclosure and the custody of the   *)
(* view key promise, over the states of module Clawback.                    *)
(***************************************************************************)
EXTENDS Clawback

\* Types.  The key in the tab is a field element, and the tab points at what it
\* lists.
TypeOK ==
  /\ tree.leafCount \in 0 .. TREE_CAPACITY
  /\ nullifiers \subseteq Nullifiers
  /\ ToSet(frozen) \cup behind \subseteq 1 .. IMT_MAX - 1
  /\ issuer.target \in 0 .. IMT_MAX - 1
  /\ desk.key \in Field \cup {NoKey}
  /\ desk.shares \in 0 .. AUTHORITIES
  /\ desk.listed <= Len(ledger)
  /\ desk.selected \in 0 .. Len(Listed(desk.listed))
  /\ Len(proof) <= 1

----------------------------------------------------------------------------
(* The trees.                                                              *)

\* What is stored after any sequence of transitions, exact unshields included, is
\* what a replay of all leaves gives; and the path of a leaf proves that leaf and
\* no other.  (The circuit's FrontierTransition, IncrementalMerkleTree.insert and
\* inclusionPath are three separate pieces of code.)
TreesAgree ==
  LET leaves == [i \in DOMAIN log |-> LeafOf(log[i])]
      replayed == Replay(leaves)
  IN  /\ tree.leafCount = Len(log)
      /\ tree.frontier = replayed.frontier
      /\ tree.root = replayed.root
      /\ \A i \in DOMAIN log :
            LET path == InclusionPath(leaves, i - 1)
            IN  \A j \in DOMAIN log : VerifyInclusionPath(leaves[j], path, tree.root) <=> i = j

\* The way down from a root, left or right by the bits of a place, and the siblings
\* that lead back up.
Opening(root, bits) ==
  LET node[d \in 0 .. TREE_DEPTH] == IF d = TREE_DEPTH THEN root ELSE node[d + 1][bits[d + 1] + 1]
  IN  [node |-> node[0], siblings |-> [k \in 1 .. TREE_DEPTH |-> node[k][2 - bits[k]]], pathBits |-> bits]

\* Everything a prover could open under a root.
Openings(root) == {Opening(root, bits) : bits \in [1 .. TREE_DEPTH -> {0, 1}]}

\* Whoever knows the tree under the stored frozen root can show the absence of
\* exactly the commitments it was not computed from, whichever low leaf they pick:
\* no frozen note gets by, and no other note is caught with it.
FrozenExact ==
  LET leaves == {o \in Openings(frozenRoot) : Len(o.node) = 3}
  IN  \A x \in 1 .. IMT_MAX - 1 :
        (\E o \in leaves : AbsentUnder(x, o.node, o, frozenRoot)) <=> x \notin behind

\* What a builder puts together passes the constraints of its circuit exactly
\* when the statement of the circuit holds of the notes: none of the derived
\* signals (paths, low leaves, registry leaf, transition) is ever the reason for a
\* failure, and none hides one.
BuildersAgree ==
  \A i \in DOMAIN proof :
    LET s == proof[i].signals
    IN  WitnessOk(s) <=> Provable(s.w, Abstracted(s.w, proof[i].view))

----------------------------------------------------------------------------
(* The freeze.                                                             *)

\* The full unshield of a note to its owner, from what the chain shows now.
FullUnshield(n) == UnshieldWitness(log, n, n.value, n.owner, << >>)

\* An unfrozen note that its owner may withdraw can be withdrawn, unless the
\* stored frozen root lost a freeze: then nobody's proof is accepted, though only
\* the frozen notes should be affected.  (Of the states between which only a tab or
\* a proof under way differs, one is looked at: the quiet one.)
HonestAccepted ==
  Quiet =>
    \A i \in {j \in Unspent : NumberOf(log[j]) \notin ToSet(frozen)} :
      LET w == FullUnshield(log[i])
          v == LiveView(frozen)
          s == SignalsOf(w, v)
      IN  Provable(w, Abstracted(w, v)) =>
            WitnessOk(s) /\ (Accepts(s) <=> behind = ToSet(frozen))

\* A note under the stored frozen root is never spent, by a proof made before
\* it was frozen or by one from a list that lacks it.
FrozenUnspent ==
  [][\A i \in DOMAIN log :
       Nullifier(log[i]) \in nullifiers' \ nullifiers => NumberOf(log[i]) \notin behind]_vars

----------------------------------------------------------------------------
(* The disclosure.                                                         *)

\* The panel's view is the truth about the transaction it was asked for: each
\* output is the note that was minted, a party named as the sender is the one
\* that spent, and the headline is what was paid, except that of a partial
\* unshield, which is the change.  Another key reveals nothing.
RevealRight ==
  \A k \in DOMAIN desk.viewed :
    LET view == desk.view
        tx == desk.viewed[k].tx
        outs == tx.truth.outs
        headline == [asset |-> view.asset, amount |-> view.amount, recipient |-> view.recipient]
    IN  CASE outs = << >> -> view.status = "public" /\ headline = tx.truth.paid
          [] outs # << >> /\ desk.viewed[k].key # K_VIEW -> view = [NoView EXCEPT !.status = "wrong key"]
          [] outs # << >> /\ desk.viewed[k].key = K_VIEW ->
               /\ view.status = "revealed"
               /\ Len(view.outputs) = Len(outs)
               /\ \A i \in DOMAIN outs :
                     /\ view.outputs[i].value = outs[i].value
                     /\ view.outputs[i].asset = outs[i].asset
                     /\ view.outputs[i].owner = outs[i].owner
               /\ tx.circuit # "unshield" => headline = tx.truth.paid
               /\ view.sender = IF tx.truth.spender = 0
                                THEN <<"transparent deposit">>
                                ELSE <<"party", tx.truth.spender>>

\* A quorum's shares give the view key, whatever the polynomial and whichever
\* authorities they are of; fewer shares fit every key.
SharesSplit ==
  \A coefficients \in Coefficients :
    LET shares == SplitViewKey(K_VIEW, coefficients) IN
    \A some \in SUBSET (1 .. AUTHORITIES) :
      IF Cardinality(some) >= QUORUM
      THEN CombineShares(SetToSeq({shares[i] : i \in some})) = K_VIEW
      ELSE \A k \in Field : \E c \in Coefficients :
             \A i \in some : SplitViewKey(k, c)[i].y = shares[i].y

\* The tab has the view key as soon as a quorum gave its shares, and nothing could
\* be told from fewer.
QuorumExact == SharesSplit /\ (desk.shares >= QUORUM => desk.key = K_VIEW)

\* A recipient that scans the outputs with the key of a channel finds exactly the
\* notes that it owns among those encrypted under that key, and their sums.
ScanFinds ==
  \A owner \in Owners, key \in 1 .. 2 :
    LET outputs == FlattenSeq([i \in DOMAIN ledger |-> ListedOutputs(ledger[i])])
        found == ScanForOwnedNotes(outputs, [owner |-> owner, key |-> key])
        mine == UNION {{ledger[i].truth.outs[j] : j \in {k \in {key} \cap DOMAIN ledger[i].truth.outs :
                          ledger[i].truth.outs[k].owner = owner}} : i \in DOMAIN ledger}
        balances == AggregateByAsset(found)
    IN  /\ ToSet(found) = mine
        /\ Len(found) = Cardinality(mine)
        /\ \A a \in DOMAIN balances :
              balances[a].rawAmount = MapThenSumSet(LAMBDA n : n.value, {n \in mine : n.asset = a})

\* The scripts' gates: the good cases are accepted, and each flawed one, in which
\* only one constraint fails, is refused.  Among the good cases: the bitwise
\* comparison is that of the integers for all field elements, the circuit's tree
\* transition is the SDK's, the rehearsed life of the contract is accepted step by
\* step, and the public signals are everywhere in the order of the proof.
GatesTell == gate = NoGate \/ (gate.accepted <=> <<gate.circuit, gate.flaw>> \in G!GoodCases)
=============================================================================
