----------------------------- MODULE Rehearsal ------------------------------
(***************************************************************************)
(* The scripts that ran the deployed contract through its life              *)
(* (scripts/lib/live-notes.ts, transfer-live.ts, unshield-live.ts,          *)
(* prove-*-live.ts): two shields, a transfer, an exact unshield and one      *)
(* with change, each built offline from trees put together out of the       *)
(* notes' openings; what the offline gates compare, and what the regulator  *)
(* and the indexer read back.  Amounts keep the scripts' proportions.        *)
(***************************************************************************)
EXTENDS Signals

GENESIS_NOTE           == NoteOf(SacX, 2, PartyA, 1)
SHIELD2_NOTE           == NoteOf(SacX, 2, PartyA, 2)
TRANSFER_OUT_RECIPIENT == NoteOf(SacX, 3, PartyB, 3)
TRANSFER_OUT_CHANGE    == NoteOf(SacX, 1, PartyA, 4)
UNSHIELD2_CHANGE_NOTE  == NoteOf(SacX, 1, PartyB, 5)

SeedCommitments ==
  <<GENESIS_NOTE, SHIELD2_NOTE, TRANSFER_OUT_RECIPIENT, TRANSFER_OUT_CHANGE, UNSHIELD2_CHANGE_NOTE>>

LeavesOf(notes) == [i \in DOMAIN notes |-> LeafOf(notes[i])]

\* The compliance trees of init, and the tree of the notes put together so far.
RehearsalView(notes) ==
  ViewOf(<<PartyA, PartyB>>, << >>, << [sac |-> SacX, decimals |-> 7, limit |-> MAX_VALUE] >>, << >>,
         Replay(LeavesOf(notes)).frontier, Len(notes), SCENARIO_VIEW_KEY)

ReconstructAnchorTree       == SubSeq(SeedCommitments, 1, 2)
ReconstructPostTransferTree == SubSeq(SeedCommitments, 1, 4)

----------------------------------------------------------------------------
LiveShield == SignalsOf(ShieldWitness(GENESIS_NOTE), RehearsalView(<< >>))

LiveShield2 == SignalsOf(ShieldWitness(SHIELD2_NOTE), RehearsalView(<<GENESIS_NOTE>>))

LiveTransfer ==
  SignalsOf(TransferWitness(ReconstructAnchorTree, GENESIS_NOTE, SHIELD2_NOTE,
                            TRANSFER_OUT_RECIPIENT, TRANSFER_OUT_CHANGE),
            RehearsalView(ReconstructAnchorTree))

\* Exact: the tree stays as it is, so the next step uses the same one.
LiveUnshield ==
  SignalsOf(UnshieldWitness(ReconstructPostTransferTree, TRANSFER_OUT_CHANGE, 1, PartyA, << >>),
            RehearsalView(ReconstructPostTransferTree))

LivePartialUnshield ==
  SignalsOf(UnshieldWitness(ReconstructPostTransferTree, TRANSFER_OUT_RECIPIENT, 2, PartyB,
                            <<UNSHIELD2_CHANGE_NOTE>>),
            RehearsalView(ReconstructPostTransferTree))

Steps == <<LiveShield, LiveShield2, LiveTransfer, LiveUnshield, LivePartialUnshield>>

\* The contract's tree after some steps.
ContractTree(steps) ==
  FoldLeft(LAMBDA t, s : ApplyTransition(t, s.newFrontier, s.newRoot, Len(s.w.outs)),
           [EmptyTree EXCEPT !.frontier = EmptyFrontier(TREE_DEPTH), !.root = zeros[TREE_DEPTH],
                             !.recentRoots = <<zeros[TREE_DEPTH]>>],
           steps)

\* A step proves, and the contract as the earlier steps left it takes it: neither
\* the frontier nor the index nor the anchor has drifted from the openings.
StepAccepted(steps, n) ==
  LET s == steps[n]
      earlier == SubSeq(steps, 1, n - 1)
      t == ContractTree(earlier)
  IN  /\ WitnessOk(s)
      /\ CheckOldFrontier(t, s.oldFrontier)
      /\ CheckNextIndex(t, s.nextIndex)
      /\ s.w.ins # << >> => IsRecentRoot(t, s.anchorRoot)
      /\ \A e \in ToSet(earlier) : ToSet(s.nullifiers) \cap ToSet(e.nullifiers) = {}

----------------------------------------------------------------------------
(* What is read back.                                                      *)

\* The auditor's plaintexts are the notes that were put in, in order, and the
\* outputs of the transfer add up to its inputs.
DisclosedAll(steps) ==
  LET values(s) == [i \in DOMAIN s.cAuditor |-> DecryptAuditor(s.cAuditor[i], SCENARIO_VIEW_KEY).value]
  IN  /\ values(steps[1]) = <<2>>
      /\ values(steps[3])[1] + values(steps[3])[2] = GENESIS_NOTE.value + SHIELD2_NOTE.value
      /\ values(steps[4]) = << >>
      /\ values(steps[5]) = <<UNSHIELD2_CHANGE_NOTE.value>>

\* The known notes before the first leaf still in the RPC window.
BridgeAgedOutPrefix(events) ==
  IF events = << >> THEN events
  ELSE LET p == IndexIn(SeedCommitments, events[1]) IN SubSeq(SeedCommitments, 1, p) \o events

\* Whatever number of events has aged out, short of all that insert, the indexer's
\* root is the root in the last event.
IndexerMatches(steps) ==
  \A aged \in 0 .. Len(steps) - 1 :
    LET kept == SubSeq(steps, aged + 1, Len(steps))
        leaves == FlattenSeq([i \in DOMAIN kept |-> kept[i].w.outs])
    IN  Replay(LeavesOf(BridgeAgedOutPrefix(leaves))).root = kept[Len(kept)].newRoot

RehearsalCases ==
  ({"shield live", "shield2 live", "transfer live", "unshield live", "partial unshield live",
    "disclose live", "verify indexer live"} \X {"none"})

\* The verdict of a script of the rehearsal that consists of these steps.
VerdictOn(steps, script) ==
  CASE script = "shield live"           -> StepAccepted(steps, 1)
    [] script = "shield2 live"          -> StepAccepted(steps, 2)
    [] script = "transfer live"         -> StepAccepted(steps, 3)
    [] script = "unshield live"         -> StepAccepted(steps, 4)
    [] script = "partial unshield live" -> StepAccepted(steps, 5)
    [] script = "disclose live"         -> DisclosedAll(steps)
    [] script = "verify indexer live"   -> IndexerMatches(steps)

RehearsalVerdict(script) == VerdictOn(Steps, script)
=============================================================================
