------------------------------- MODULE Finnes -------------------------------
(***************************************************************************)
(* The settlement contract (contracts/finnes/src) after `init`: one action  *)
(* per entrypoint that changes state, each an atomic Soroban transaction.   *)
(* An entrypoint whose check fails reverts, so a check is a guard.          *)
(*                                                                         *)
(* Every proof-bearing call is prepared against observations of the state   *)
(* that may be old, or of different ages: the frontier and the leaf count   *)
(* are two separate reads (frontend/lib/soroban.ts), the compliance and     *)
(* frozen roots come from other services.  The contract's checks decide     *)
(* which observations still count.                                         *)
(*                                                                         *)
(* log, spends and recovered are history: what the events and the private   *)
(* witnesses say, which the contract does not store.                        *)
(*                                                                         *)
(* An operator under "Fault:" or "Faults:" is no part of the model: it is a *)
(* wrong version of the next definition, for testing the properties.        *)
(***************************************************************************)
EXTENDS Circuits, ComplianceRoots, FiniteSets, SequencesExt

CONSTANTS
  KycRoots,        \* kyc_root values the issuer publishes: sets of owners
  SanctionRoots,   \* sanction_root values: sets of owners
  AssetsRoots,     \* assets_root values: sets of [asset, limit]
  IntentIds,       \* intent identifiers
  Terms,           \* the commitments of each intent's IntentRecord
  Deadlines,       \* deadlines the parties may agree on
  AccountHolders,  \* owners with a Stellar account to pay out to
  Supply,          \* tokens of each asset in existence
  REUSED,          \* rho values a prover may use again instead of a sampled one
  EARLY,           \* notes that may be frozen before they are committed
  FRESH_RESERVE,   \* leaves kept free of shields, transfers and recoveries
  MAX_LEDGER,      \* bound on the ledger sequence
  MAX_FROZEN,      \* bound on the number of freezes
  MAX_RECOVERED,   \* bound on the number of recovery mints
  ISSUER_LAGS      \* whether the issuer may read the frozen set late

Trees == {"main", "escrow"}
Legs == {"a", "b"}
Calls == {"confidential_transfer", "settle_dvp", "unshield",
          "escrow_deposit", "settle_intent", "escrow_refund"}

AssetLeaf == [asset : Assets, limit : Nat]

\* escrow_a_cm, escrow_b_cm, out_a_cm, out_b_cm, refund_a_cm, refund_b_cm.
IntentTerms == [escrow : [Legs -> Note], out : [Legs -> Note], refund : [Legs -> Note]]

ASSUME FinnesAssumption ==
  /\ KycRoots \subseteq SUBSET Owners
  /\ SanctionRoots \subseteq SUBSET Owners
  /\ AssetsRoots \subseteq SUBSET AssetLeaf
  /\ Terms \in [IntentIds -> IntentTerms]
  /\ Deadlines \subseteq Nat
  /\ AccountHolders \subseteq Owners
  /\ Supply \in [Assets -> Nat]
  /\ REUSED \subseteq Nat
  /\ EARLY \subseteq Note
  /\ FRESH_RESERVE \in Nat
  /\ MAX_LEDGER \in Nat
  /\ MAX_FROZEN \in Nat
  /\ MAX_RECOVERED \in Nat
  /\ ISSUER_LAGS \in BOOLEAN

VARIABLES
  ledger,       \* env.ledger().sequence()
  tree,         \* Frontier, TreeRoot, LeafCount, RecentRoots of each tree
  nullifiers,   \* the Nullifier(_) markers
  compliance,   \* KycRoot, SanctionRoot, AssetsRoot and their windows
  frozen,       \* the Frozen(_) markers
  frozenRoot,   \* FrozenRoot, as the set it commits to
  registered,   \* assets with a SacAddr entry
  accounts,     \* owners with a TransparentAddr entry
  balance,      \* the contract's balance of each asset's token
  intents,      \* the Intent(_) records
  log,          \* history: the commitments emitted for each tree, in order
  spends,       \* history: the spending calls, in order, with the spent notes
  recovered     \* history: the frozen notes a recovery was minted for

issuerVars == <<compliance, frozen, frozenRoot, registered, accounts, recovered>>
vars == <<ledger, tree, nullifiers, balance, intents, log, spends, issuerVars>>

Intent == [exists : BOOLEAN, deadline : Nat, settled : BOOLEAN,
           deposited : SUBSET Legs, refunded : SUBSET Legs]

NoIntent == [exists |-> FALSE, deadline |-> 0, settled |-> FALSE,
             deposited |-> {}, refunded |-> {}]

\* A spending call: the legs it takes out of escrow, the notes behind its
\* nullifiers and its fees.
Spending == [call : Calls, legs : SUBSET (IntentIds \X Legs), notes : Seq(Note), fees : Seq(Field)]

Init ==
  /\ ledger = 0
  /\ tree = [t \in Trees |-> EmptyTree]
  /\ nullifiers = {}
  /\ \E kyc \in KycRoots, sanction \in SanctionRoots, assets \in AssetsRoots :
        compliance = [kyc |-> SeedRoot(kyc), sanction |-> SeedRoot(sanction),
                      assets |-> SeedRoot(assets)]
  /\ frozen = {}
  /\ frozenRoot = {}
  /\ registered = {}
  /\ accounts = {}
  /\ balance = [a \in Assets |-> 0]
  /\ intents = [i \in IntentIds |-> NoIntent]
  /\ log = [t \in Trees |-> << >>]
  /\ spends = << >>
  /\ recovered = {}

----------------------------------------------------------------------------
(* What a prover may have observed when it built its proof.                 *)

Snapshots(t) == ToSet(tree[t].recentRoots)

Observations(t) ==
  [kyc       : KycRoots,
   sanction  : SanctionRoots,
   assets    : AssetsRoots,
   frozen    : (SUBSET frozen) \cup {frozenRoot},
   frontier  : Snapshots(t),
   nextIndex : {Len(s) : s \in Snapshots(t)}]

\* Every root either tree ever had.
Anchors == UNION {Prefixes(log[t]) : t \in Trees}

\* The k-th output of the next transaction, of any owner, with a sampled rho or one
\* that is used again: nothing compares a commitment with the earlier ones.
NewNotes(k) ==
  [asset : Assets, value : Value, owner : Owners, rho : {Len(log["main"]) + k} \cup REUSED]

\* The bound on shields, transfers and recoveries.
RoomFor(k) == Len(log["main"]) + k + FRESH_RESERVE <= TREE_CAPACITY

----------------------------------------------------------------------------
(* The contract's checks.                                                   *)

\* Faults: a check that is forgotten.
CheckFrozenRootSkipped(pub) == TRUE
CheckAssetsRootSkipped(pub) == TRUE
NullifierUnchecked(n) == TRUE

CheckFrozenRootStrict(pub) == pub.frozen = frozenRoot
CheckKycRoot(pub) == RootInWindow(compliance.kyc, pub.kyc)
CheckSanctionRoot(pub) == RootInWindow(compliance.sanction, pub.sanction)
CheckAssetsRoot(pub) == RootInWindow(compliance.assets, pub.assets)

CheckSpendRoots(pub) ==
  /\ CheckFrozenRootStrict(pub)
  /\ CheckKycRoot(pub)
  /\ CheckSanctionRoot(pub)
  /\ CheckAssetsRoot(pub)

CheckTree(t, pub) ==
  /\ CheckOldFrontier(tree[t], pub.frontier)
  /\ CheckNextIndex(tree[t], pub.nextIndex)

NullifierUnused(n) == Nullifier(n) \notin nullifiers

----------------------------------------------------------------------------
(* The contract's effects.                                                  *)

\* Faults: the escrow tree's leaves go to the main tree; only the first of two
\* nullifiers is marked.
InsertIntoMain(t, pub, leaves) ==
  LET new == FrontierTransition(pub.frontier, pub.nextIndex, leaves)
  IN  /\ tree' = [tree EXCEPT !["main"] = ApplyTransition(@, new, new, Len(leaves))]
      /\ log' = [log EXCEPT !["main"] = @ \o leaves]

InsertFirstNullifier(call, legs, notes, fees) ==
  /\ nullifiers' = nullifiers \cup {Nullifier(notes[1])}
  /\ spends' = Append(spends, [call |-> call, legs |-> legs, notes |-> notes, fees |-> fees])

\* Store the proof's frontier and root, and emit the commitments.
Insert(t, pub, leaves) ==
  LET new == FrontierTransition(pub.frontier, pub.nextIndex, leaves)
  IN  /\ tree' = [tree EXCEPT ![t] = ApplyTransition(@, new, new, Len(leaves))]
      /\ log' = [log EXCEPT ![t] = @ \o leaves]

InsertNullifiers(call, legs, notes, fees) ==
  /\ nullifiers' = nullifiers \cup {Nullifier(n) : n \in ToSet(notes)}
  /\ spends' = Append(spends, [call |-> call, legs |-> legs, notes |-> notes, fees |-> fees])

\* Fault: the deposit's transfer goes the wrong way.
PullDepositReversed(asset, amount) ==
  /\ asset \in registered
  /\ balance[asset] + amount <= Supply[asset]
  /\ balance' = [balance EXCEPT ![asset] = @ - amount]

\* The token's transfer fails when the depositor does not hold the amount.
PullDeposit(asset, amount) ==
  /\ asset \in registered
  /\ balance[asset] + amount <= Supply[asset]
  /\ balance' = [balance EXCEPT ![asset] = @ + amount]

PayOut(asset, amount) ==
  /\ asset \in registered
  /\ amount <= balance[asset]
  /\ balance' = [balance EXCEPT ![asset] = @ - amount]

----------------------------------------------------------------------------
(* Shielding, transfers and unshielding.                                    *)

Shield ==
  /\ RoomFor(1)
  /\ \E pub \in Observations("main") :
       /\ CheckKycRoot(pub)
       /\ CheckAssetsRoot(pub)
       /\ CheckTree("main", pub)
       /\ \E out \in NewNotes(1) :
            /\ ShieldStatement(out, pub)
            /\ PullDeposit(out.asset, out.value)
            /\ Insert("main", pub, <<out>>)
  /\ UNCHANGED <<ledger, nullifiers, intents, spends, issuerVars>>

\* Both nullifiers are looked up before either is inserted, and nobody compares
\* them: the two inputs may be one note.
ConfidentialTransfer ==
  /\ RoomFor(2)
  /\ \E anchor \in Anchors :
       /\ IsRecentRoot(tree["main"], anchor)
       /\ \E pub \in Observations("main") :
            /\ CheckSpendRoots(pub)
            /\ CheckTree("main", pub)
            /\ \E in0, in1 \in ToSet(anchor) :
                 /\ NullifierUnused(in0)
                 /\ NullifierUnused(in1)
                 /\ TransferInputs(anchor, in0, in1, pub)
                 /\ \E out0 \in NewNotes(1), out1 \in NewNotes(2), fee \in Field :
                      /\ TransferOutputs(in0, in1, out0, out1, fee, pub)
                      /\ InsertNullifiers("confidential_transfer", {}, <<in0, in1>>, <<fee>>)
                      /\ Insert("main", pub, <<out0, out1>>)
  /\ UNCHANGED <<ledger, balance, intents, issuerVars>>

\* Both parties authorise the call.  The legs' notes are not compared either.
SettleDvp ==
  /\ RoomFor(2)
  /\ \E anchor \in Anchors :
       /\ IsRecentRoot(tree["main"], anchor)
       /\ \E pub \in Observations("main") :
            /\ CheckSpendRoots(pub)
            /\ CheckTree("main", pub)
            /\ \E inX, inY \in ToSet(anchor) :
                 /\ NullifierUnused(inX)
                 /\ NullifierUnused(inY)
                 /\ \E outX \in NewNotes(1), feeX \in Field :
                      /\ DvpLegStatement(anchor, inX, outX, feeX, pub)
                      /\ \E outY \in NewNotes(2), feeY \in Field :
                           /\ DvpStatement(anchor, inX, inY, outX, outY, feeX, feeY, pub)
                           /\ InsertNullifiers("settle_dvp", {}, <<inX, inY>>, <<feeX, feeY>>)
                           /\ Insert("main", pub, <<outX, outY>>)
  /\ UNCHANGED <<ledger, balance, intents, issuerVars>>

Unshield ==
  /\ \E anchor \in Anchors :
       /\ IsRecentRoot(tree["main"], anchor)
       /\ \E pub \in Observations("main") :
            /\ CheckSpendRoots(pub)
            /\ CheckTree("main", pub)
            /\ \E in \in ToSet(anchor), recipient \in accounts :
                 /\ NullifierUnused(in)
                 /\ \E amount \in Value, fee \in Field,
                       change \in {<< >>} \cup {<<c>> : c \in NewNotes(1)} :
                      /\ RoomFor(Len(change))
                      /\ UnshieldStatement(anchor, in, amount, recipient, change, fee, pub)
                      /\ InsertNullifiers("unshield", {}, <<in>>, <<fee>>)
                      /\ Insert("main", pub, change)
                      /\ PayOut(in.asset, amount)
  /\ UNCHANGED <<ledger, intents, issuerVars>>

----------------------------------------------------------------------------
(* The issuer: compliance roots, registries, freezing and recovery.         *)

UpdateKycRoot ==
  /\ \E r \in KycRoots : compliance' = [compliance EXCEPT !.kyc = SetRoot(@, r)]
  /\ UNCHANGED <<ledger, tree, nullifiers, balance, intents, log, spends,
                 frozen, frozenRoot, registered, accounts, recovered>>

UpdateSanctionRoot ==
  /\ \E r \in SanctionRoots : compliance' = [compliance EXCEPT !.sanction = SetRoot(@, r)]
  /\ UNCHANGED <<ledger, tree, nullifiers, balance, intents, log, spends,
                 frozen, frozenRoot, registered, accounts, recovered>>

UpdateAssetsRoot ==
  /\ \E r \in AssetsRoots : compliance' = [compliance EXCEPT !.assets = SetRoot(@, r)]
  /\ UNCHANGED <<ledger, tree, nullifiers, balance, intents, log, spends,
                 frozen, frozenRoot, registered, accounts, recovered>>

\* The issuer keeps the registry in lockstep with the asset identifiers, so an
\* asset always resolves to the token whose hash it is.
RegisterAsset ==
  /\ \E a \in Assets : registered' = registered \cup {a}
  /\ UNCHANGED <<ledger, tree, nullifiers, balance, intents, log, spends,
                 compliance, frozen, frozenRoot, accounts, recovered>>

RegisterTransparent ==
  /\ \E o \in AccountHolders : accounts' = accounts \cup {o}
  /\ UNCHANGED <<ledger, tree, nullifiers, balance, intents, log, spends,
                 compliance, frozen, frozenRoot, registered, recovered>>

\* The frozen set the issuer computes the new root from: read from the indexer,
\* which may not have ingested the latest freezes yet.
IssuerViews == IF ISSUER_LAGS THEN SUBSET frozen ELSE {frozen}

Committed(t) == ToSet(log[t])
Emitted == Committed("main") \cup Committed("escrow")

\* freeze takes any 32 bytes, those of a commitment in no tree included.
Freezable == Emitted \cup EARLY

Freeze ==
  /\ Cardinality(frozen) < MAX_FROZEN
  /\ \E cm \in Freezable, view \in IssuerViews :
       /\ cm \notin frozen
       /\ frozen' = frozen \cup {cm}
       /\ frozenRoot' = view \cup {cm}
  /\ UNCHANGED <<ledger, tree, nullifiers, balance, intents, log, spends,
                 compliance, registered, accounts, recovered>>

Spent == UNION {ToSet(spends[k].notes) : k \in DOMAIN spends}

\* The notes a recovery may replace: the issuer recovers the value of a frozen
\* note that was committed and not spent before the freeze, once.  The contract
\* checks none of this.
Recoverable == (frozen \cap Emitted) \ (recovered \cup Spent)

MintRecovery ==
  /\ RoomFor(1)
  /\ Cardinality(recovered) < MAX_RECOVERED
  /\ \E pub \in Observations("main") :
       /\ CheckKycRoot(pub)
       /\ CheckAssetsRoot(pub)
       /\ CheckTree("main", pub)
       /\ \E cm \in Recoverable, out \in NewNotes(1) :
            /\ out.asset = cm.asset
            /\ out.value = cm.value
            /\ ShieldStatement(out, pub)
            /\ Insert("main", pub, <<out>>)
            /\ recovered' = recovered \cup {cm}
  /\ UNCHANGED <<ledger, nullifiers, balance, intents, spends,
                 compliance, frozen, frozenRoot, registered, accounts>>

----------------------------------------------------------------------------
(* Two-phase settlement through the escrow tree.                            *)

CreateIntent(i) ==
  /\ ~intents[i].exists
  /\ \E deadline \in Deadlines :
       /\ deadline > ledger
       /\ intents' = [intents EXCEPT ![i] = [NoIntent EXCEPT !.exists = TRUE, !.deadline = deadline]]
  /\ UNCHANGED <<ledger, tree, nullifiers, balance, log, spends, issuerVars>>

\* The leg is the first one whose commitment matches: b, if it has the commitment of
\* a, only when a is not among the open legs.
Matches(i, kind, leg, open) ==
  leg \in open /\ (leg = "b" /\ "a" \in open => Terms[i][kind]["a"] # Terms[i][kind]["b"])

\* A leg can be deposited until the settlement, before and after the deadline.
DepositOpen(i, leg) ==
  /\ intents[i].exists
  /\ ~intents[i].settled
  /\ Matches(i, "escrow", leg, Legs \ intents[i].deposited)

\* Spends a MAIN note into the leg's escrow note.
EscrowDeposit(i, leg) ==
  /\ DepositOpen(i, leg)
  /\ \E anchor \in Anchors :
       /\ IsRecentRoot(tree["main"], anchor)
       /\ \E pub \in Observations("escrow") :
            /\ CheckFrozenRootStrict(pub)
            /\ CheckAssetsRoot(pub)
            /\ CheckTree("escrow", pub)
            /\ \E in \in ToSet(anchor) :
                 /\ NullifierUnused(in)
                 /\ \E fee \in Field :
                      /\ EscrowLegStatement(FALSE, anchor, in, Terms[i].escrow[leg], fee, pub)
                      /\ InsertNullifiers("escrow_deposit", {}, <<in>>, <<fee>>)
            /\ Insert("escrow", pub, <<Terms[i].escrow[leg]>>)
  /\ intents' = [intents EXCEPT ![i].deposited = @ \cup {leg}]
  /\ UNCHANGED <<ledger, balance, issuerVars>>

\* Fault: settling is still possible in the ledger of the deadline.
SettleOpenOneMore(i) ==
  /\ intents[i].exists
  /\ ~intents[i].settled
  /\ intents[i].deposited = Legs
  /\ ledger <= intents[i].deadline

SettleOpen(i) ==
  /\ intents[i].exists
  /\ ~intents[i].settled
  /\ intents[i].deposited = Legs
  /\ ledger < intents[i].deadline

\* Asset X goes to B, asset Y to A.  The outputs are pinned to the terms, the
\* spent notes are not: any escrows whose keys the caller knows will do
\* (lib.rs 676-684).
SettleIntent(i) ==
  /\ SettleOpen(i)
  /\ \E anchor \in Anchors :
       /\ IsRecentRoot(tree["escrow"], anchor)
       /\ \E pub \in Observations("main") :
            /\ CheckSpendRoots(pub)
            /\ CheckTree("main", pub)
            /\ \E inX, inY \in ToSet(anchor) :
                 /\ NullifierUnused(inX)
                 /\ NullifierUnused(inY)
                 /\ \E feeX, feeY \in Field :
                      /\ DvpStatement(anchor, inX, inY, Terms[i].out["b"], Terms[i].out["a"], feeX, feeY, pub)
                      /\ InsertNullifiers("settle_intent", {i} \X Legs, <<inX, inY>>, <<feeX, feeY>>)
            /\ Insert("main", pub, <<Terms[i].out["b"], Terms[i].out["a"]>>)
  /\ intents' = [intents EXCEPT ![i].settled = TRUE]
  /\ UNCHANGED <<ledger, balance, issuerVars>>

\* Faults: a refund before the deadline, a refund only when both legs are in.
RefundOpenEarly(i, leg) ==
  /\ intents[i].exists
  /\ ~intents[i].settled
  /\ leg \in intents[i].deposited \ intents[i].refunded

RefundOpenForBoth(i, leg) ==
  /\ intents[i].exists
  /\ ~intents[i].settled
  /\ ledger >= intents[i].deadline
  /\ intents[i].deposited = Legs
  /\ leg \notin intents[i].refunded

RefundOpen(i, leg) ==
  /\ intents[i].exists
  /\ ~intents[i].settled
  /\ ledger >= intents[i].deadline
  /\ Matches(i, "refund", leg, intents[i].deposited \ intents[i].refunded)

EscrowRefund(i, leg) ==
  /\ RefundOpen(i, leg)
  /\ \E anchor \in Anchors :
       /\ IsRecentRoot(tree["escrow"], anchor)
       /\ \E pub \in Observations("main") :
            /\ CheckSpendRoots(pub)
            /\ CheckTree("main", pub)
            /\ \E in \in ToSet(anchor) :
                 /\ NullifierUnused(in)
                 /\ \E fee \in Field :
                      /\ EscrowLegStatement(TRUE, anchor, in, Terms[i].refund[leg], fee, pub)
                      /\ InsertNullifiers("escrow_refund", {<<i, leg>>}, <<in>>, <<fee>>)
            /\ Insert("main", pub, <<Terms[i].refund[leg]>>)
  /\ intents' = [intents EXCEPT ![i].refunded = @ \cup {leg}]
  /\ UNCHANGED <<ledger, balance, issuerVars>>

\* The network closes a ledger.
CloseLedger ==
  /\ ledger < MAX_LEDGER
  /\ ledger' = ledger + 1
  /\ UNCHANGED <<tree, nullifiers, balance, intents, log, spends, issuerVars>>

----------------------------------------------------------------------------
Next ==
  \/ Shield
  \/ ConfidentialTransfer
  \/ SettleDvp
  \/ Unshield
  \/ UpdateKycRoot
  \/ UpdateSanctionRoot
  \/ UpdateAssetsRoot
  \/ RegisterAsset
  \/ RegisterTransparent
  \/ Freeze
  \/ MintRecovery
  \/ \E i \in IntentIds : CreateIntent(i)
  \/ \E i \in IntentIds, leg \in Legs : EscrowDeposit(i, leg)
  \/ \E i \in IntentIds : SettleIntent(i)
  \/ \E i \in IntentIds, leg \in Legs : EscrowRefund(i, leg)
  \/ CloseLedger

Spec == Init /\ [][Next]_vars

\* Ledgers keep closing, and each depositor keeps asking for its refund.
Fairness ==
  /\ WF_vars(CloseLedger)
  /\ \A i \in IntentIds, leg \in Legs : WF_vars(EscrowRefund(i, leg))

FairSpec == Spec /\ Fairness
=============================================================================
