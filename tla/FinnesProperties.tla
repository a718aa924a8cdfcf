-------------------------- MODULE FinnesProperties --------------------------
(***************************************************************************)
(* What the settlement contract is meant to guarantee.                      *)
(***************************************************************************)
EXTENDS Finnes

\* The shape of the contract's storage (state.rs, types.rs) and of the history.
TypeOK ==
  /\ ledger \in Nat
  /\ tree \in [Trees -> TreeState]
  /\ nullifiers \subseteq Nullifiers
  /\ compliance \in [kyc      : WindowedRoot(KycRoots),
                     sanction : WindowedRoot(SanctionRoots),
                     assets   : WindowedRoot(AssetsRoots)]
  /\ frozen \subseteq Note
  /\ frozenRoot \subseteq Note
  /\ registered \subseteq Assets
  /\ accounts \subseteq Owners
  /\ balance \in [Assets -> Nat]
  /\ intents \in [IntentIds -> Intent]
  /\ log \in [Trees -> Seq(Note)]
  /\ spends \in Seq(Spending)
  /\ recovered \subseteq Note

\* The notes this step spends, and the leaves it adds to a tree.
NewlySpent == Spent' \ Spent
NewLeaves(t) == Len(log[t]) + 1 .. Len(log'[t])

\* The step is a spending call, the last one of spends'.
Spends == Len(spends') > Len(spends)

----------------------------------------------------------------------------
(* The commitment trees and the nullifiers.                                 *)

\* The root and the frontier a proof supplied are those of exactly the emitted
\* commitments, whatever the prover had observed when it built the proof; the
\* leaf count is in lockstep (merkle.rs 57-67); the ring ends with the current
\* root and holds only roots this very tree had.
TreeMatchesLog ==
  \A t \in Trees :
    /\ tree[t].root = log[t]
    /\ tree[t].frontier = log[t]
    /\ tree[t].leafCount = Len(log[t])
    /\ Last(tree[t].recentRoots) = tree[t].root
    /\ \A i \in DOMAIN tree[t].recentRoots : IsPrefix(tree[t].recentRoots[i], log[t])

\* No two calls consume the same note, across all six spending entrypoints and both
\* trees.  Within one call a note may be named twice; it is consumed once.
NoDoubleSpend ==
  \A j, k \in DOMAIN spends : j # k => ToSet(spends[j].notes) \cap ToSet(spends[k].notes) = {}

\* Every spent note was committed to one of the trees, and its marker is set.
SpendsAreRecorded ==
  /\ Spent \subseteq Emitted
  /\ nullifiers = {Nullifier(n) : n \in Spent}

\* Only commitments are ever added to a tree, in order: nothing is overwritten
\* or dropped by a proof with an old frontier or a wrong index.
AppendOnly == [][\A t \in Trees : IsPrefix(tree[t].root, tree'[t].root)]_vars

----------------------------------------------------------------------------
(* Value.                                                                   *)

\* The notes whose owner, or intent, can still spend them.
Live == Emitted \ (Spent \cup frozen)

\* A call that names no note twice and whose fees are values, as every call of the
\* repository's own clients (write-flow.ts 290-292, builder.ts).  The circuits and
\* the contract require neither.
Conserves(s) == IsInjective(s.notes) /\ \A k \in DOMAIN s.fees : s.fees[k] \in Value

\* As long as every spending call was one of these, everything that can still be
\* unshielded is covered by tokens the contract holds, for each asset: through
\* transfers, swaps, escrows, freezes, recoveries and repeated commitments (sac.rs,
\* lib.rs 490-521).
Backed ==
  (\A k \in DOMAIN spends : Conserves(spends[k])) =>
    \A a \in Assets : ValueOf({n \in Live : n.asset = a}) <= balance[a]

----------------------------------------------------------------------------
(* Compliance.                                                              *)

\* "Frozen notes are unspendable by their owner (non-membership in every
\* spend)" (lib.rs 493-494): no step spends a note frozen before it.
FrozenUnspendable == [][NewlySpent \cap frozen = {}]_vars

Windowed(c) == ToSet(c.window)

\* The change of a transfer or an unshield: the last leaf of the call.
IsChange(k) ==
  /\ Spends
  /\ Last(spends').call \in {"confidential_transfer", "unshield"}
  /\ k = Len(log'["main"])

\* An owner in some accepted kyc root and, where the call spends, not in all of the
\* accepted sanction roots; an asset and a value some accepted registry lists.
Approved(n) ==
  /\ \E r \in Windowed(compliance.kyc) : n.owner \in r
  /\ Spends => \E r \in Windowed(compliance.sanction) : n.owner \notin r

Registered(n) ==
  \E r \in Windowed(compliance.assets) : \E leaf \in r :
    leaf.asset = n.asset /\ n.value <= leaf.limit

\* The change of an unshield: the asset the spent note already was, and not worth
\* more than it if the fee is a value.
UnshieldChange(t, n) ==
  /\ t = "main"
  /\ Spends
  /\ Last(spends').call = "unshield"
  /\ n.asset = Last(spends').notes[1].asset
  /\ Last(spends').fees[1] \in Value => n.value <= Last(spends').notes[1].value

\* Nothing but the change of a transfer or an unshield, whose owner no circuit looks
\* at, is paid to an owner that the accepted roots do not approve (invariants 6, 19).
RevokedReceivesNothing ==
  [][\A k \in NewLeaves("main") : IsChange(k) \/ Approved(log'["main"][k])]_vars

\* What enters a tree is an asset of an accepted registry within its limit, or the
\* change of an unshield, which no circuit looks up.
OnlyListedAssets ==
  [][\A t \in Trees : \A k \in NewLeaves(t) :
       Registered(log'[t][k]) \/ UnshieldChange(t, log'[t][k])]_vars

\* The latest value of each windowed root is always accepted, no root takes two
\* slots, and the window is bounded (state.rs 172-183).
CurrentRootAccepted ==
  \A c \in {compliance.kyc, compliance.sanction, compliance.assets} :
    /\ WindowContains(c.window, c.current)
    /\ IsInjective(c.window)
    /\ Len(c.window) <= COMPLIANCE_WINDOW_CAPACITY

\* "a proof built against the immediately-prior root still validates"
\* (lib.rs 862-863): replacing a root leaves the replaced one accepted.
PriorRootAccepted ==
  [][\A k \in {"kyc", "sanction", "assets"} :
       WindowContains(compliance'[k].window, compliance[k].current)]_vars

----------------------------------------------------------------------------
(* Escrow.                                                                  *)

\* A settled intent took both legs and returned none; a returned leg had been
\* deposited and its deadline was reached (DVP_ESCROW.md 70-74).
EscrowExclusive ==
  \A i \in IntentIds :
    /\ intents[i].settled => intents[i].deposited = Legs /\ intents[i].refunded = {}
    /\ intents[i].refunded # {} =>
         intents[i].refunded \subseteq intents[i].deposited /\ ledger >= intents[i].deadline

\* While a leg is deposited and neither settled nor refunded, its escrow note is in
\* the escrow tree, and whatever took its nullifier was a note of the main tree or
\* the settlement or refund of other legs (lib.rs 676-684): no transfer, unshield or
\* deposit takes a note out of escrow (state.rs 62-67).
EscrowHeld ==
  \A i \in IntentIds : \A leg \in intents[i].deposited :
    ~intents[i].settled /\ leg \notin intents[i].refunded =>
      /\ Terms[i].escrow[leg] \in Committed("escrow")
      /\ \A k \in DOMAIN spends : \A n \in ToSet(spends[k].notes) :
           Nullifier(n) = Nullifier(Terms[i].escrow[leg]) =>
             \/ n \in Committed("main")
             \/ spends[k].legs # {} /\ <<i, leg>> \notin spends[k].legs

\* A note leaves the escrow tree only in a step that settles an intent with both legs
\* before its deadline, or refunds a deposited leg from the deadline on, and in the
\* asset that this intent pays out.
EscrowExits ==
  [][\A n \in (NewlySpent \cap Committed("escrow")) \ Committed("main") :
       \E i \in IntentIds, leg \in Legs :
         \/ /\ ~intents[i].settled /\ intents'[i].settled
            /\ intents[i].deposited = Legs /\ ledger < intents[i].deadline
            /\ n.asset = Terms[i].out[leg].asset
         \/ /\ leg \in intents'[i].refunded \ intents[i].refunded
            /\ leg \in intents[i].deposited /\ ledger >= intents[i].deadline
            /\ n.asset = Terms[i].refund[leg].asset]_vars

\* "After `deadline`, only `escrow_refund` is allowed" (DVP_ESCROW.md 73): past
\* the deadline an intent's record changes only by a refund.
OnlyRefundAfterDeadline ==
  [][\A i \in IntentIds :
       intents[i].exists /\ ledger >= intents[i].deadline =>
         intents'[i] = [intents[i] EXCEPT !.refunded = intents'[i].refunded]]_vars

\* A deposited leg does not stay in escrow for ever (DVP_ESCROW.md 52-54): it is
\* settled, refunded, or its nullifier was used by other legs.
EscrowResolved ==
  \A i \in IntentIds : \A leg \in Legs :
    leg \in intents[i].deposited ~>
      \/ intents[i].settled
      \/ leg \in intents[i].refunded
      \/ ~NullifierUnused(Terms[i].escrow[leg])

LegStatus(i, leg) ==
  CASE intents[i].settled -> "swapped"
    [] ~intents[i].settled /\ leg \in intents[i].refunded -> "returned"
    [] ~intents[i].settled /\ leg \in intents[i].deposited \ intents[i].refunded -> "held"
    [] OTHER -> "empty"

Swap(i) == INSTANCE AtomicSwap WITH
  status  <- [leg \in Legs |-> LegStatus(i, leg)],
  expired <- intents[i].exists /\ ledger >= intents[i].deadline

\* Every intent implements the atomic swap: \A i \in IntentIds : Swap(i)!Spec,
\* with the quantifier inside the [] as TLC wants it.
SwapsAtomically ==
  /\ \A i \in IntentIds : Swap(i)!Init
  /\ [][\A i \in IntentIds : [Swap(i)!Next]_(Swap(i)!vars)]_vars
=============================================================================
