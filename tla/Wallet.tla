------------------------------ MODULE Wallet -------------------------------
(***************************************************************************)
(* The institution's wallet (frontend/lib/write-flow.ts, soroban.ts,        *)
(* indexer.ts, note-store.ts, live-notes.ts): one browser tab that shields, *)
(* transfers and unshields notes of one token for one identity, against a   *)
(* chain it shares with others and reads through the indexer or, when none  *)
(* is configured, through the RPC server's window of events.                *)
(*                                                                         *)
(* An operation is a chain of awaits.  Between two of them the chain moves, *)
(* the tab may be closed, and a transaction that was sent may still be      *)
(* included after the wallet stopped waiting for it.                        *)
(*                                                                         *)
(* paidOut, pulled and returned are history: what the contract moved.       *)
(* An operator under "Fault:" or "Faults:" is no part of the model: it is a *)
(* wrong version of the next definition, for testing the properties.        *)
(***************************************************************************)
EXTENDS Witness, FiniteSets

CONSTANTS
  Me, Bank, Other,  \* the wallet's identity, the recipient, everyone else
  Token,            \* the one registered asset
  LIMIT,            \* its per-transaction limit
  Requests,         \* what the user may ask for: [kind, amount]
  Seeds,            \* the demo's leaves, whose openings the wallet ships with
  Sources,          \* "indexer" and "rpc": how this build reads the chain
  LEAVES_LIMIT,     \* leaves in an answer of /v1/leaves: 1000 in the code
  INSISTENT,        \* whether the user repeats a failed request that can succeed
  MAX_DISTURBANCES  \* bound on notes of others, freezes, aged events, closed
                    \* tabs, refused signatures, expiries and timeouts together

Request == [kind : {"shield", "transfer", "unshield"}, amount : Nat \ {0}]

ASSUME WalletAssumption ==
  /\ Cardinality({Me, Bank, Other}) = 3
  /\ {Me, Bank, Other} \subseteq Owners
  /\ Token \in Assets
  /\ 1 \in Value   \* what others shield
  /\ LIMIT \in Nat
  /\ Requests \subseteq Request
  /\ Seeds \in Leaves
  /\ Len(Seeds) <= TREE_CAPACITY
  /\ \A i, j \in DOMAIN Seeds : Seeds[i].rho = Seeds[j].rho => i = j
  /\ Sources \subseteq {"indexer", "rpc"}
  /\ LEAVES_LIMIT \in Nat
  /\ INSISTENT \in BOOLEAN
  /\ MAX_DISTURBANCES \in Nat

VARIABLES
  tree,        \* the contract's main tree
  log,         \* the commitments emitted for it, in order
  nullifiers,  \* the contract's nullifiers
  frozen,      \* the frozen commitments, in the order of their events
  paidOut,     \* history: tokens the contract paid out
  pulled,      \* history: tokens deposited in the contract
  returned,    \* history: the change notes of unshields
  source,      \* where this build reads the chain from
  indexed,     \* how many leaves and freezes the indexer has ingested
  aged,        \* how many of them the RPC server no longer returns
  orphans,     \* transactions sent, undecided, that no tab waits for
  others,      \* notes of others so far
  store,       \* localStorage: openings with the leaf index they were saved under
  op,          \* the operation the tab is running
  screen,      \* the last result, and the request when it failed
  abandoned,   \* openings given up while their transaction was undecided
  faults       \* closed tabs, refusals, expiries and timeouts so far

chainVars == <<tree, log, nullifiers, frozen, paidOut, pulled, returned>>
netVars == <<source, indexed, aged, orphans, others>>
tabVars == <<store, op, screen, abandoned>>
vars == <<chainVars, netVars, tabVars, faults>>

----------------------------------------------------------------------------
Disturbances == others + Len(frozen) + aged.leaves + aged.freezes + faults
MayDisturb == Disturbances < MAX_DISTURBANCES

----------------------------------------------------------------------------
(* The chain.                                                              *)

Registry == {[asset |-> Token, limit |-> LIMIT]}

\* The public inputs a witness takes from what the wallet read: the compliance
\* roots are the demo state's constants.
Pub(view, frontier, nextIndex) ==
  [kyc |-> {Me, Bank, Other}, sanction |-> {}, assets |-> Registry,
   frozen |-> ToSet(view), frontier |-> frontier, nextIndex |-> nextIndex]

\* The checks of `shield`, `confidential_transfer` and `unshield`.
Accepts(pi) ==
  /\ CheckOldFrontier(tree, pi.pub.frontier)
  /\ CheckNextIndex(tree, pi.pub.nextIndex)
  /\ pi.kind # "shield" =>
       /\ IsRecentRoot(tree, pi.anchor)
       /\ pi.pub.frozen = ToSet(frozen)
       /\ \A i \in DOMAIN pi.nullifiers : pi.nullifiers[i] \notin nullifiers

\* Their effects.
Apply(pi) ==
  /\ tree' = ApplyTransition(tree, pi.newRoot, pi.newRoot, Len(pi.outputs))
  /\ log' = log \o pi.outputs
  /\ nullifiers' = nullifiers \cup ToSet(pi.nullifiers)
  /\ UNCHANGED frozen

\* The tokens they move for the wallet, and the change they give back.
Record(pi) ==
  /\ paidOut' = paidOut + (IF pi.kind = "unshield" THEN pi.amount ELSE 0)
  /\ pulled' = pulled + (IF pi.kind = "shield" THEN pi.amount ELSE 0)
  /\ returned' = returned \cup (IF pi.kind = "unshield" THEN ToSet(pi.outputs) ELSE {})

----------------------------------------------------------------------------
(* What the wallet reads.                                                  *)

\* fetchLiveCommitments: the leaves whose events the RPC server still returns.
FetchLiveCommitments == SubSeq(log, aged.leaves + 1, Len(log))

\* bridgeAgedOutPrefix: the seeds before the first event that is still served.
Bridge(events) ==
  IF events # << >> /\ events[1] \in ToSet(Seeds)
  THEN SubSeq(Seeds, 1, (CHOOSE p \in DOMAIN Seeds : Seeds[p] = events[1]) - 1) \o events
  ELSE events

\* buildChainTree
ChainView ==
  IF source = "indexer"
  THEN SubSeq(log, 1, Min({indexed.leaves, LEAVES_LIMIT}))
  ELSE Bridge(FetchLiveCommitments)

\* indexFrozen
FrozenView ==
  IF source = "indexer"
  THEN SubSeq(frozen, 1, indexed.freezes)
  ELSE SubSeq(frozen, aged.freezes + 1, Len(frozen))

\* An opening, with the leaf index it is remembered under.
Opening == [leafIndex : Nat, note : Note]

\* The elements of s that are in T, in their order.
Filter(s, T) ==
  LET f[i \in 0 .. Len(s)] ==
        IF i = 0 THEN << >>
        ELSE IF s[i] \in T THEN Append(f[i - 1], s[i]) ELSE f[i - 1]
  IN  f[Len(s)]

\* allLiveNotes, without the seeds of others: the known openings by leaf index.
AllLiveNotes ==
  LET all == {l \in {[leafIndex |-> i - 1, note |-> Seeds[i]] : i \in DOMAIN Seeds} \cup store :
                l.note.owner = Me}
      indices == Filter([i \in 1 .. TREE_CAPACITY |-> i - 1], {l.leafIndex : l \in all})
  IN  [k \in DOMAIN indices |-> (CHOOSE l \in all : l.leafIndex = indices[k]).note]

IsNullifierUsed(nf) == nf \in nullifiers

\* Fault: the nullifiers are not asked for.
SpendableUnasked(view) == Filter(AllLiveNotes, ToSet(view))

\* spendableNotes: the known openings that are leaves of the view and not spent.
SpendableNotes(view) ==
  Filter(AllLiveNotes, {n \in ToSet(view) : ~IsNullifierUsed(Nullifier(n))})

\* The two notes of highest value, the earlier one first among equals.
TwoHighest(notes) ==
  LET highest(I) == CHOOSE i \in I : \A j \in I \ {i} :
                      \/ notes[i].value > notes[j].value
                      \/ notes[i].value = notes[j].value /\ i < j
      first == highest(DOMAIN notes)
  IN  <<notes[first], notes[highest(DOMAIN notes \ {first})]>>

\* A note nobody has an opening of yet: rho and r_note are sampled.
Sampled ==
  ToSet(log) \cup {l.note : l \in abandoned}
    \cup UNION {ToSet(pi.outputs) : pi \in orphans \cup ToSet(op.tx)}

FreshNote(value, owner, k) ==
  LET used == {n.rho : n \in Sampled}
      unused == {r \in 0 .. Cardinality(used) + 1 : r \notin used}
      first == Min(unused)
  IN  [asset |-> Token, value |-> value, owner |-> owner,
       rho |-> IF k = 1 THEN first ELSE Min(unused \ {first})]

----------------------------------------------------------------------------
(* Operations.  pc names the await the operation stands at:                 *)
(*   tree      buildChainTree            notes    isNullifierUsed            *)
(*   frozen    indexFrozen, then proving reads    readTreeState, then proving*)
(*   submit    prepare, sign and send    poll     getTransaction             *)

Idle ==
  [pc |-> "idle", amount |-> 0, kind |-> "none", shields |-> 0, prepared |-> FALSE,
   view |-> << >>, picked |-> << >>, frontier |-> << >>, leafCount |-> << >>,
   keep |-> << >>, tx |-> << >>, status |-> "none"]

Blank == [result |-> "none", kind |-> "none", amount |-> 0]

Init ==
  /\ tree = [frontier |-> Seeds, root |-> Seeds, leafCount |-> Len(Seeds),
             recentRoots |-> <<Seeds>>]
  /\ log = Seeds
  /\ nullifiers = {}
  /\ frozen = << >>
  /\ paidOut = 0
  /\ pulled = 0
  /\ returned = {}
  /\ source \in Sources
  /\ indexed = [leaves |-> Len(Seeds), freezes |-> 0]
  /\ aged = [leaves |-> 0, freezes |-> 0]
  /\ orphans = {}
  /\ others = 0
  /\ store = {}
  /\ op = Idle
  /\ screen = Blank
  /\ abandoned = {}
  /\ faults = 0

\* The operation ends with a result on the screen.
Succeed ==
  /\ op' = Idle
  /\ screen' = [Blank EXCEPT !.result = "ok"]

\* Fault: only the await is reset.
FailHalfReset ==
  /\ op' = [op EXCEPT !.pc = "idle"]
  /\ screen' = [result |-> "error", kind |-> op.kind, amount |-> op.amount]

Fail ==
  /\ op' = Idle
  /\ screen' = [result |-> "error", kind |-> op.kind, amount |-> op.amount]

\* doShield refuses the amount before it reads anything.
LimitOK == op.amount <= LIMIT

----------------------------------------------------------------------------
(* What could make a request fail whenever it is repeated.                 *)

Known == SpendableNotes(log)

\* A spend beyond the leaves that one answer of the indexer holds.
ViewTruncated == Len(log) > LEAVES_LIMIT

ShieldBlocked(amount) == amount > LIMIT \/ ~IndicesFit(Len(log), 1)

UnshieldBlocked(amount) ==
  \/ Known = << >>
  \/ Known[1] \in ToSet(frozen)
  \/ amount > Known[1].value
  \/ amount > LIMIT
  \/ ViewTruncated
  \/ ~IndicesFit(Len(log), 1)

TransferBlocked(amount) ==
  \/ amount > LIMIT
  \/ ViewTruncated
  \/ ~IndicesFit(Len(log), (2 - Min({2, Len(Known)})) + 2)
  \/ /\ Len(Known) >= 2
     /\ LET in == TwoHighest(Known)
            sum == in[1].value + in[2].value
        IN  \/ \E i \in 1 .. 2 : in[i] \in ToSet(frozen)
            \/ amount > sum
            \/ sum - amount > LIMIT

Blocked(r) ==
  \/ r.kind = "shield" /\ ShieldBlocked(r.amount)
  \/ r.kind = "unshield" /\ UnshieldBlocked(r.amount)
  \/ r.kind = "transfer" /\ TransferBlocked(r.amount)

----------------------------------------------------------------------------
\* The user presses the button: runShield, runTransfer, runUnshield.
Start(r) ==
  /\ op.pc = "idle"
  /\ (INSISTENT /\ screen.result = "error" /\ ~Blocked(screen)) =>
        r = [kind |-> screen.kind, amount |-> screen.amount]
  /\ screen' = Blank
  /\ op' = [Idle EXCEPT !.pc = IF r.kind = "shield" THEN "reads" ELSE "tree",
                        !.kind = r.kind, !.amount = r.amount]
  /\ UNCHANGED <<chainVars, netVars, store, abandoned, faults>>

ReadTree ==
  /\ op.pc = "tree"
  /\ op' = [op EXCEPT !.pc = "notes", !.view = ChainView]
  /\ UNCHANGED <<chainVars, netVars, store, screen, abandoned, faults>>

\* An unshield spends the note that comes first.
PickOne(notes) ==
  IF notes = << >> \/ op.amount > notes[1].value
  THEN Fail
  ELSE op' = [op EXCEPT !.pc = "frozen", !.picked = <<notes[1]>>] /\ UNCHANGED screen

\* A transfer spends two; when there are fewer it first shields the missing
\* ones, once, and scans again.
PickTwo(notes) ==
  IF Len(notes) < 2
  THEN IF op.prepared
       THEN Fail
       ELSE op' = [op EXCEPT !.pc = "reads", !.prepared = TRUE, !.view = << >>,
                             !.shields = 2 - Len(notes)]
            /\ UNCHANGED screen
  ELSE LET in == TwoHighest(notes)
       IN  IF op.amount > in[1].value + in[2].value
           THEN Fail
           ELSE op' = [op EXCEPT !.pc = "frozen", !.picked = in] /\ UNCHANGED screen

ScanNotes ==
  /\ op.pc = "notes"
  /\ IF op.kind = "unshield"
     THEN PickOne(SpendableNotes(op.view))
     ELSE PickTwo(SpendableNotes(op.view))
  /\ UNCHANGED <<chainVars, netVars, store, abandoned, faults>>

----------------------------------------------------------------------------
(* Building and proving a spend.                                            *)

\* Fault: the change goes to the recipient.
ChangeToBank(value, k) == FreshNote(value, Bank, k)

Change(value, k) == FreshNote(value, Me, k)

UnshieldOfPicked ==
  LET in == op.picked[1]
      rest == in.value - op.amount
  IN  UnshieldWitness(op.view, in, op.amount, Me,
                      IF rest = 0 THEN << >> ELSE <<Change(rest, 1)>>)

TransferOfPicked ==
  LET sum == op.picked[1].value + op.picked[2].value
  IN  TransferWitness(op.view, op.picked[1], op.picked[2],
                      FreshNote(op.amount, Bank, 1), Change(sum - op.amount, 2))

\* Fault: the change is saved under the recipient's leaf index.
KeptUnderFirstIndex(w) ==
  IF w.kind = "transfer"
  THEN <<[leafIndex |-> Len(op.view), note |-> w.outs[2]]>>
  ELSE << >>

\* What is saved when the transaction succeeds: the change of a transfer, under
\* the second of the two indices.  The change of an unshield is not saved.
KeptAfter(w) ==
  IF w.kind = "transfer"
  THEN <<[leafIndex |-> Len(op.view) + 1, note |-> w.outs[2]]>>
  ELSE << >>

\* frozenNonMembership throws for a frozen note; the prover fails on a witness
\* that does not satisfy the circuit.
BuildSpend ==
  /\ op.pc = "frozen"
  /\ LET pub == Pub(FrozenView, op.view, Len(op.view))
         w == IF op.kind = "unshield" THEN UnshieldOfPicked ELSE TransferOfPicked
     IN  IF ToSet(op.picked) \cap ToSet(FrozenView) = {} /\ Provable(w, pub)
         THEN /\ op' = [op EXCEPT !.pc = "submit", !.keep = KeptAfter(w),
                                  !.view = << >>, !.picked = << >>,
                                  !.tx = <<PublicInputs(w, pub)>>]
              /\ UNCHANGED screen
         ELSE Fail
  /\ UNCHANGED <<chainVars, netVars, store, abandoned, faults>>

----------------------------------------------------------------------------
(* Building and proving a shield (doShield).                               *)

\* readTreeState: two reads in parallel, of one ledger each.
ReadFrontier ==
  /\ op.pc = "reads"
  /\ LimitOK
  /\ op.frontier = << >>
  /\ op' = [op EXCEPT !.frontier = <<tree.frontier>>]
  /\ UNCHANGED <<chainVars, netVars, store, screen, abandoned, faults>>

ReadLeafCount ==
  /\ op.pc = "reads"
  /\ LimitOK
  /\ op.leafCount = << >>
  /\ op' = [op EXCEPT !.leafCount = <<tree.leafCount>>]
  /\ UNCHANGED <<chainVars, netVars, store, screen, abandoned, faults>>

BuildShield ==
  /\ op.pc = "reads"
  /\ ~LimitOK \/ (op.frontier # << >> /\ op.leafCount # << >>)
  /\ IF ~LimitOK
     THEN Fail
     ELSE LET w == ShieldWitness(FreshNote(op.amount, Me, 1))
              pub == Pub(<< >>, op.frontier[1], op.leafCount[1])
          IN  IF Provable(w, pub)
              THEN /\ op' = [op EXCEPT !.pc = "submit", !.frontier = << >>, !.leafCount = << >>,
                                       !.keep = <<[leafIndex |-> op.leafCount[1],
                                                   note |-> w.outs[1]]>>,
                                       !.tx = <<PublicInputs(w, pub)>>]
                   /\ UNCHANGED screen
              ELSE Fail
  /\ UNCHANGED <<chainVars, netVars, store, abandoned, faults>>

----------------------------------------------------------------------------
(* Submitting (submitInvocation).                                          *)

\* prepareTransaction simulates the call; then the user signs and it is sent.
Submit ==
  /\ op.pc = "submit"
  /\ IF Accepts(op.tx[1])
     THEN op' = [op EXCEPT !.pc = "poll", !.status = "pending"] /\ UNCHANGED screen
     ELSE Fail
  /\ UNCHANGED <<chainVars, netVars, store, abandoned, faults>>

\* The user refuses to sign, or the wallet extension fails.
Decline ==
  /\ op.pc = "submit"
  /\ MayDisturb
  /\ faults' = faults + 1
  /\ Fail
  /\ UNCHANGED <<chainVars, netVars, store, abandoned>>

\* A validator includes the transaction; a check that fails reverts it.
Include ==
  /\ op.status = "pending"
  /\ IF Accepts(op.tx[1])
     THEN Apply(op.tx[1]) /\ Record(op.tx[1]) /\ op' = [op EXCEPT !.status = "success"]
     ELSE UNCHANGED chainVars /\ op' = [op EXCEPT !.status = "failed"]
  /\ UNCHANGED <<netVars, store, screen, abandoned, faults>>

\* The sixty seconds of its time bound pass first.
Expire ==
  /\ op.status = "pending"
  /\ MayDisturb
  /\ faults' = faults + 1
  /\ op' = [op EXCEPT !.status = "expired"]
  /\ UNCHANGED <<chainVars, netVars, store, screen, abandoned>>

IncludeOrphan(pi) ==
  /\ pi \in orphans
  /\ orphans' = orphans \ {pi}
  /\ IF Accepts(pi) THEN Apply(pi) /\ Record(pi) ELSE UNCHANGED chainVars
  /\ UNCHANGED <<source, indexed, aged, others, tabVars, faults>>

ExpireOrphan(pi) ==
  /\ pi \in orphans
  /\ orphans' = orphans \ {pi}
  /\ UNCHANGED <<chainVars, source, indexed, aged, others, tabVars, faults>>

\* Fault: what is stored is not read first.
SaveStoredAlone(openings) == store' = ToSet(openings)

\* saveStoredNote: replaces what was stored under the same leaf index.
SaveStored(openings) ==
  store' = {l \in store : \A i \in DOMAIN openings : openings[i].leafIndex # l.leafIndex}
             \cup ToSet(openings)

\* The poll sees the success.  After an auto-shield the transfer goes on: with
\* the next shield, or with a new scan.
Confirmed ==
  /\ op.status = "success"
  /\ SaveStored(op.keep)
  /\ IF op.shields > 0
     THEN /\ op' = [op EXCEPT !.pc = IF op.shields > 1 THEN "reads" ELSE "tree",
                              !.shields = @ - 1, !.keep = << >>, !.tx = << >>,
                              !.status = "none"]
          /\ UNCHANGED screen
     ELSE Succeed
  /\ UNCHANGED <<chainVars, netVars, abandoned, faults>>

\* The poll sees a failure, or nothing until it has asked thirty times.
NotConfirmed ==
  /\ op.status \in {"failed", "expired"}
  /\ Fail
  /\ UNCHANGED <<chainVars, netVars, store, abandoned, faults>>

\* The wallet stops waiting for a transaction that may still be included.
LetGo ==
  /\ abandoned' = abandoned \cup (IF op.pc = "poll" THEN ToSet(op.keep) ELSE {})
  /\ orphans' = orphans \cup (IF op.status = "pending" THEN ToSet(op.tx) ELSE {})
  /\ MayDisturb
  /\ faults' = faults + 1

\* Thirty polls without an answer.
GiveUp ==
  /\ op.status = "pending"
  /\ LetGo
  /\ Fail
  /\ UNCHANGED <<chainVars, source, indexed, aged, others, store>>

\* The tab is closed or reloaded; localStorage stays.
CloseTab ==
  /\ op.pc # "idle"
  /\ LetGo
  /\ op' = Idle
  /\ screen' = Blank
  /\ UNCHANGED <<chainVars, source, indexed, aged, others, store>>

----------------------------------------------------------------------------
(* Everyone else.                                                          *)

OthersShield ==
  /\ MayDisturb
  /\ IndicesFit(tree.leafCount, 1)
  /\ LET w == ShieldWitness(FreshNote(1, Other, 1))
     IN  Apply(PublicInputs(w, Pub(<< >>, tree.frontier, tree.leafCount)))
  /\ others' = others + 1
  /\ UNCHANGED <<paidOut, pulled, returned, source, indexed, aged, orphans, tabVars, faults>>

Freeze ==
  /\ MayDisturb
  /\ \E cm \in {n \in ToSet(log) : n.owner = Me} \ ToSet(frozen) : frozen' = Append(frozen, cm)
  /\ UNCHANGED <<tree, log, nullifiers, paidOut, pulled, returned, netVars, tabVars, faults>>

IngestLeaf ==
  /\ source = "indexer"
  /\ indexed.leaves < Len(log)
  /\ indexed' = [indexed EXCEPT !.leaves = @ + 1]
  /\ UNCHANGED <<chainVars, source, aged, orphans, others, tabVars, faults>>

IngestFreeze ==
  /\ source = "indexer"
  /\ indexed.freezes < Len(frozen)
  /\ indexed' = [indexed EXCEPT !.freezes = @ + 1]
  /\ UNCHANGED <<chainVars, source, aged, orphans, others, tabVars, faults>>

\* An event leaves the RPC server's window of about 22 hours.
Age ==
  /\ source = "rpc"
  /\ MayDisturb
  /\ \/ aged.leaves < Len(log) /\ aged' = [aged EXCEPT !.leaves = @ + 1]
     \/ aged.freezes < Len(frozen) /\ aged' = [aged EXCEPT !.freezes = @ + 1]
  /\ UNCHANGED <<chainVars, source, indexed, orphans, others, tabVars, faults>>

----------------------------------------------------------------------------
\* The steps of the tab that nobody else decides.
Run ==
  \/ ReadTree
  \/ ScanNotes
  \/ BuildSpend
  \/ ReadFrontier
  \/ ReadLeafCount
  \/ BuildShield
  \/ Submit
  \/ Confirmed
  \/ NotConfirmed

Next ==
  \/ \E r \in Requests : Start(r)
  \/ Run
  \/ Decline
  \/ Include
  \/ Expire
  \/ GiveUp
  \/ CloseTab
  \/ \E pi \in orphans : IncludeOrphan(pi)
  \/ \E pi \in orphans : ExpireOrphan(pi)
  \/ OthersShield
  \/ Freeze
  \/ IngestLeaf
  \/ IngestFreeze
  \/ Age

Spec == Init /\ [][Next]_vars

\* Whatever comes next for the user, the tab or its transaction happens, and the
\* indexer keeps ingesting.  One of Start, Run and Include is always enabled, so
\* the first conjunct is their weak fairness, in the form TLC checks faster.
Fairness ==
  /\ []<><<(\E r \in Requests : Start(r)) \/ Run \/ Include>>_vars
  /\ WF_vars(IngestLeaf \/ IngestFreeze)

FairSpec == Spec /\ Fairness
=============================================================================
