------------------------------ MODULE Clawback ------------------------------
(***************************************************************************)
(* The regulator's console (frontend/app/regulator, components              *)
(* TxList, DisclosurePanel, AuditorKeyInput, FreezePanel, over              *)
(* lib/finnes-client.ts and freeze.ts) beside the spenders whose notes it   *)
(* reads and freezes (scripts/lib/ *-live.ts), with the SDK's trees hash by *)
(* hash: what is stored in the contract here is what they computed.         *)
(*                                                                         *)
(* Compliance roots other than the frozen root do not move here.            *)
(* behind is history: the set the stored frozen root commits to, by the     *)
(* issuer's account of it; an event's truth is its plaintext.               *)
(***************************************************************************)
EXTENDS Signals, Threshold

CONSTANTS
  Seedings,    \* the notes shielded before the run starts, one sequence for each case
  Kyc,         \* the enrolled identities, in the order of their leaves
  Sanctioned,  \* the sanctioned ones
  Registry,    \* [sac, decimals, limit], in the order of the leaves
  Deposits,    \* what may be shielded: [asset, value, owner]
  K_VIEW,      \* the auditor's view key
  Split,       \* the coefficients of its one split into shares
  MAX_EVENTS,  \* bound on transactions, freezes and disclosures together
  GATE_DEPTH   \* the depth of the trees in the scripts' gates

ASSUME ClawbackAssumption ==
  /\ Owners \subseteq 1 .. IMT_MAX - 1
  /\ TREE_CAPACITY = capacity[TREE_DEPTH]
  /\ TREE_CAPACITY + 6 < IMT_MAX   \* there are always commitments left to draw
  /\ \A seeds \in Seedings :
        /\ seeds \in Leaves
        /\ Len(seeds) <= TREE_CAPACITY
        /\ \A i, j \in DOMAIN seeds : NumberOf(seeds[i]) = NumberOf(seeds[j]) => i = j
        /\ \A i \in DOMAIN seeds : NumberOf(seeds[i]) \in 6 .. IMT_MAX - 1
  /\ Kyc \in Seq(Owners) /\ Len(Kyc) <= TREE_CAPACITY
  /\ Sanctioned \in Seq(Owners) /\ Len(Sanctioned) + 2 <= TREE_CAPACITY
  /\ Registry \in Seq([sac : Nat, decimals : Nat, limit : Nat]) \ {<< >>} /\ Len(Registry) <= TREE_CAPACITY
  /\ \A i, j \in DOMAIN Registry : Registry[i].sac = Registry[j].sac => i = j
  /\ Deposits \subseteq [asset : Assets, value : Nat, owner : Owners]
  /\ K_VIEW \in Field /\ Split \in Coefficients
  /\ MAX_EVENTS \in Nat
  /\ GATE_DEPTH \in Nat /\ 3 <= GATE_DEPTH

\* The gates have trees of their own, deeper than the contract's here.
G == INSTANCE Gates WITH TREE_DEPTH <- GATE_DEPTH, TREE_CAPACITY <- 2 ^ GATE_DEPTH

VARIABLES
  tree,        \* the contract's main tree, as hashes
  log,         \* the notes behind its leaves
  nullifiers,  \* the contract's nullifiers
  frozen,      \* the frozen commitments, in the order of their events
  frozenRoot,  \* the root the contract stores
  behind,      \* history: the set that root was computed from
  ledger,      \* the events of shields, transfers and unshields
  proof,       \* what a spender has built and not submitted, and from which trees:
               \* << >> or << [signals, view] >>
  issuer,      \* the freeze panel's operation
  desk,        \* the regulator's tab
  gate,        \* the witness gate a script has just run
  events       \* how many transactions, freezes and disclosures there were

chainVars == <<tree, log, nullifiers, frozen, frozenRoot, behind, ledger, events>>
vars == <<chainVars, proof, issuer, desk, gate>>

----------------------------------------------------------------------------
(* The contract.                                                           *)

FreshTree == [EmptyTree EXCEPT !.frontier = Replay(<< >>).frontier, !.root = Replay(<< >>).root,
                               !.recentRoots = <<Replay(<< >>).root>>]

\* One shield after another.
GrownTree(notes) ==
  LET grown[n \in 0 .. Len(notes)] ==
        IF n = 0
        THEN FreshTree
        ELSE LET t == grown[n - 1]
                 s == ApplyFrontierTransition(t.frontier, t.leafCount, <<LeafOf(notes[n])>>)
             IN  ApplyTransition(t, s.frontier, s.root, 1)
  IN  grown[Len(notes)]

\* Fault: the frozen root of a spend is not compared.
AcceptsAnyFrozenRoot(s) ==
  /\ CheckOldFrontier(tree, s.oldFrontier)
  /\ CheckNextIndex(tree, s.nextIndex)
  /\ s.w.kind # "shield" => IsRecentRoot(tree, s.anchorRoot)
  /\ \A i \in DOMAIN s.nullifiers : s.nullifiers[i] \notin nullifiers

\* The checks on a spend's or a shield's public inputs, compliance roots aside.
Accepts(s) ==
  /\ CheckOldFrontier(tree, s.oldFrontier)
  /\ CheckNextIndex(tree, s.nextIndex)
  /\ s.w.kind # "shield" => IsRecentRoot(tree, s.anchorRoot) /\ s.frozenRoot = frozenRoot
  /\ \A i \in DOMAIN s.nullifiers : s.nullifiers[i] \notin nullifiers

\* The event: one output slot even for an exact unshield.
Event(s) ==
  LET w == s.w
      paid == CASE w.kind = "unshield" -> [asset |-> w.ins[1].asset, amount |-> w.amount, recipient |-> w.recipient]
                [] OTHER -> [asset |-> w.outs[1].asset, amount |-> w.outs[1].value, recipient |-> w.outs[1].owner]
  IN  [circuit      |-> w.kind,
       nullifiers   |-> s.nullifiers,
       outputs      |-> IF w.outs = << >>
                        THEN << [commitment |-> Sentinel, cAuditor |-> NoCiphertext, cRecipient |-> NoCiphertext] >>
                        ELSE [i \in DOMAIN w.outs |-> [commitment |-> w.outs[i], cAuditor |-> s.cAuditor[i],
                                                       cRecipient |-> EncryptToRecipient(w.outs[i], i)]],
       publicReveal |-> IF w.kind = "unshield" THEN paid ELSE NoReveal,
       truth        |-> [outs |-> w.outs, paid |-> paid,
                         spender |-> IF w.ins = << >> THEN 0 ELSE w.ins[1].owner]]

----------------------------------------------------------------------------
(* The console's fixture, for a chain without events in range.             *)

PastEvent(w) ==
  LET s == [w |-> w, nullifiers |-> [i \in DOMAIN w.ins |-> Nullifier(w.ins[i])],
            cAuditor |-> [i \in DOMAIN w.outs |-> EncryptToAuditor(w.outs[i], K_VIEW)]]
  IN  Event(s)

\* A pays B and gets change; A deposits.  The numbers up to 5 are the fixture's.
DemoTransactions ==
  << PastEvent(TransferWitness(<< >>, NoteOf(SacX, 2, PartyA, 1), NoteOf(SacX, 1, PartyA, 2),
                                  NoteOf(SacX, 2, PartyB, 3), NoteOf(SacX, 1, PartyA, 4))),
     PastEvent(ShieldWitness(NoteOf(SacY, 2, PartyA, 5))) >>

\* What the page listed when it was opened, with so many events in range.
Listed(n) == IF n = 0 THEN DemoTransactions ELSE SubSeq(ledger, 1, n)

----------------------------------------------------------------------------
NoGate == [circuit |-> "none", flaw |-> "none", accepted |-> TRUE]
NoFreeze == [target |-> 0, seen |-> << >>, root |-> << >>]
NoKey == -1
NotViewed == << >>

OpenedDesk(n) ==
  [listed |-> n, selected |-> 0, target |-> 0, key |-> NoKey, shares |-> 0,
   view |-> NoView, viewed |-> NotViewed]

Init ==
  /\ log \in Seedings
  /\ tree = GrownTree(log)
  /\ ledger = [i \in DOMAIN log |-> PastEvent(ShieldWitness(log[i]))]
  /\ nullifiers = {} /\ frozen = << >> /\ behind = {}
  /\ frozenRoot = FrozenRootOf(<< >>)
  /\ proof = << >>
  /\ issuer = NoFreeze
  /\ desk = OpenedDesk(0)
  /\ gate = NoGate
  /\ events = 0

----------------------------------------------------------------------------
(* The scripts' gates run before anything else happens.                    *)

RunGate ==
  /\ gate = NoGate /\ events = 0 /\ proof = << >> /\ desk = OpenedDesk(0)
  /\ \E case \in G!GateCases :
       gate' = [circuit |-> case[1], flaw |-> case[2], accepted |-> G!Verdict(case[1], case[2])]
  /\ UNCHANGED <<chainVars, proof, issuer, desk>>

LeaveGate ==
  /\ gate # NoGate
  /\ gate' = NoGate
  /\ UNCHANGED <<chainVars, proof, issuer, desk>>

----------------------------------------------------------------------------
(* Spenders.                                                               *)

\* Randomness decides where a commitment falls among the others: below or above
\* all that are there.
Unused == (6 .. IMT_MAX - 1) \ {NumberOf(log[i]) : i \in DOMAIN log}
FreshNumbers == {Min(Unused), Max(Unused)}

Minted(asset, value, owner, number) ==
  [asset |-> asset, value |-> value, owner |-> owner, rho |-> number]

Unspent == {i \in DOMAIN log : Nullifier(log[i]) \notin nullifiers}

\* The frozen set as the spender or the issuer reads it: an indexer behind the
\* chain gives a prefix, the RPC server's window of events a suffix, and the
\* scripts always take the empty set.
FrozenSeen ==
  {SubSeq(frozen, 1, n) : n \in 0 .. Len(frozen)} \cup {SubSeq(frozen, n, Len(frozen)) : n \in 1 .. Len(frozen)}

LiveView(seen) == ViewOf(Kyc, Sanctioned, Registry, seen, tree.frontier, tree.leafCount, K_VIEW)

\* Bound: the spenders together have one proof under way at a time.
Unbusy == gate = NoGate /\ proof = << >> /\ events < MAX_EVENTS

\* frozenNonMembership throws for a commitment it finds frozen.
Build(w, seen) ==
  /\ \A i \in DOMAIN w.ins : NumberOf(w.ins[i]) \notin ToSet(seen)
  /\ proof' = << [signals |-> SignalsOf(w, LiveView(seen)), view |-> LiveView(seen)] >>
  /\ UNCHANGED <<chainVars, issuer, desk, gate>>

BuildShield ==
  /\ Unbusy
  /\ \E d \in Deposits, f \in FreshNumbers :
       Build(ShieldWitness(Minted(d.asset, d.value, d.owner, f)), << >>)

\* Two notes pay an amount, and the rest goes back to their owner.
Payment(in0, in1, payee, amount, f, g) ==
  TransferWitness(log, in0, in1, Minted(in0.asset, amount, payee, f),
                  Minted(in0.asset, in0.value + in1.value - amount, in0.owner, g))

BuildTransfer ==
  /\ Unbusy
  /\ \E i \in Unspent, j \in Unspent :
       /\ i < j
       /\ log[i].owner = log[j].owner /\ log[i].asset = log[j].asset
       /\ \E payee \in Owners, f \in FreshNumbers, seen \in FrozenSeen :
            \E amount \in 1 .. log[i].value + log[j].value, g \in FreshNumbers \ {f} :
              Build(Payment(log[i], log[j], payee, amount, f, g), seen)

BuildUnshield ==
  /\ Unbusy
  /\ \E i \in Unspent, recipient \in Owners, f \in FreshNumbers, seen \in FrozenSeen :
       \E amount \in 1 .. log[i].value :
         LET in == log[i]
             change == IF amount = in.value THEN << >>
                       ELSE <<Minted(in.asset, in.value - amount, in.owner, f)>>
         IN  Build(UnshieldWitness(log, in, amount, recipient, change), seen)

\* The prover succeeds and the contract accepts.
Submit ==
  /\ proof # << >>
  /\ LET s == proof[1].signals
         outs == s.w.outs
     IN  /\ WitnessOk(s)
         /\ Accepts(s)
         /\ tree' = ApplyTransition(tree, s.newFrontier, s.newRoot, Len(outs))
         /\ log' = log \o outs
         /\ nullifiers' = nullifiers \cup ToSet(s.nullifiers)
         /\ ledger' = Append(ledger, Event(s))
  /\ events' = events + 1
  /\ proof' = << >>
  /\ UNCHANGED <<frozen, frozenRoot, behind, issuer, desk, gate>>

\* The prover fails, the contract refuses, or the spender gives up.
Discard ==
  /\ proof # << >>
  /\ proof' = << >>
  /\ UNCHANGED <<chainVars, issuer, desk, gate>>

----------------------------------------------------------------------------
(* The regulator's tab.                                                    *)

\* Bound: the tab rests while a proof or a freeze is under way, which read nothing
\* of what the tab writes, and write nothing that it could not as well read later
\* or earlier.
Quiet == gate = NoGate /\ proof = << >> /\ issuer = NoFreeze

\* Bound: between two openings of the page either a key is used or a target is
\* picked; the two panels share nothing but the selection.
Disclosing == desk.key # NoKey \/ desk.viewed # NotViewed
Freezing == desk.target # 0

\* Opening the page lists the events once; the key stays with the tab.
OpenPage ==
  /\ Quiet
  /\ desk' = [OpenedDesk(Len(ledger)) EXCEPT !.key = desk.key, !.shares = desk.shares]
  /\ UNCHANGED <<chainVars, proof, issuer, gate>>

\* Neither the view nor the freeze target is cleared.
Select(i) ==
  /\ Quiet
  /\ desk' = [desk EXCEPT !.selected = i]
  /\ UNCHANGED <<chainVars, proof, issuer, gate>>

\* A key put together from the shares of the first n authorities.
LoadKey(n) ==
  LET shares == SubSeq(SplitViewKey(K_VIEW, Split), 1, n)
  IN  /\ Quiet /\ desk.key = NoKey /\ ~Freezing
      /\ CanCombine(shares)
      /\ desk' = [desk EXCEPT !.key = CombineShares(shares), !.shares = n]
      /\ UNCHANGED <<chainVars, proof, issuer, gate>>

ClearKey ==
  /\ Quiet /\ desk.key # NoKey
  /\ desk' = [desk EXCEPT !.key = NoKey, !.shares = 0]
  /\ UNCHANGED <<chainVars, proof, issuer, gate>>

Decrypted(tx) ==
  [desk EXCEPT !.view = DecryptAuditorView(tx, desk.key), !.viewed = <<[tx |-> tx, key |-> desk.key]>>]

Decrypt ==
  /\ Quiet /\ events < MAX_EVENTS
  /\ desk.selected # 0 /\ desk.key # NoKey
  /\ desk' = Decrypted(Listed(desk.listed)[desk.selected])
  /\ events' = events + 1
  /\ UNCHANGED <<tree, log, nullifiers, frozen, frozenRoot, behind, ledger, proof, issuer, gate>>

----------------------------------------------------------------------------
(* The freeze panel.                                                       *)

\* An output of the selected transaction, of the fixture too; no key is needed.
PickTarget ==
  /\ Quiet /\ desk.selected # 0 /\ ~Disclosing
  /\ \E o \in ToSet(ListedOutputs(Listed(desk.listed)[desk.selected])) :
       desk' = [desk EXCEPT !.target = NumberOf(o.commitment)]
  /\ UNCHANGED <<chainVars, proof, issuer, gate>>

\* freezeCommitment up to the issuer's signature.  The code has no such bound on
\* the size of the frozen tree as the one here: its 2^20 leaves are never filled.
StartFreeze(seen) ==
  /\ gate = NoGate /\ issuer = NoFreeze /\ events < MAX_EVENTS
  /\ Freezing
  /\ CanFreeze(seen, desk.target)
  /\ Len(frozen) + 3 <= TREE_CAPACITY
  /\ issuer' = [target |-> desk.target, seen |-> seen, root |-> ComputeFreeze(seen, desk.target)]
  /\ UNCHANGED <<chainVars, proof, desk, gate>>

\* The contract stores the root as it comes.
Freeze ==
  /\ issuer # NoFreeze
  /\ issuer.target \notin ToSet(frozen)
  /\ frozen' = Append(frozen, issuer.target)
  /\ frozenRoot' = issuer.root
  /\ behind' = ToSet(issuer.seen) \cup {issuer.target}
  /\ issuer' = NoFreeze
  /\ events' = events + 1
  /\ UNCHANGED <<tree, log, nullifiers, ledger, proof, desk, gate>>

\* AlreadyFrozen, or no signature.
FreezeFails ==
  /\ issuer # NoFreeze
  /\ issuer' = NoFreeze
  /\ UNCHANGED <<chainVars, proof, desk, gate>>

----------------------------------------------------------------------------
Next ==
  \/ RunGate
  \/ LeaveGate
  \/ BuildShield
  \/ BuildTransfer
  \/ BuildUnshield
  \/ Submit
  \/ Discard
  \/ OpenPage
  \/ \E i \in DOMAIN Listed(desk.listed) : Select(i)
  \/ \E n \in 1 .. AUTHORITIES : LoadKey(n)
  \/ ClearKey
  \/ Decrypt
  \/ PickTarget
  \/ \E seen \in FrozenSeen : StartFreeze(seen)
  \/ Freeze
  \/ FreezeFails

Spec == Init /\ [][Next]_vars
=============================================================================
