----------------------------- MODULE FinnesSafety -----------------------------
(***************************************************************************)
(* The steps of the contract, reduced to what they do to the trees and to   *)
(* the nullifiers: every later proof about either starts from TreeSteps or  *)
(* SpendSteps.  Then the shape of the storage, the trees, the nullifiers,   *)
(* the frozen set, and who may receive what; the two-phase settlement; and  *)
(* the value of the notes: safety of every reachable state and step, for    *)
(* all values of the constants.                                             *)
(***************************************************************************)
EXTENDS FinnesProperties, NoteLemmas

----------------------------------------------------------------------------
(* The steps.                                                               *)

\* A step that folds leaves into tree t.
Inserts(t, leaves) == \E pub \in Observations(t) : CheckTree(t, pub) /\ Insert(t, pub, leaves)

\* The notes a call may still consume, and those it may consume from tree t.
Spendable == {n \in Emitted : NullifierUnused(n) /\ n \notin frozenRoot}

SpendableIn(t) ==
  {n \in Spendable : \E anchor \in Anchors : IsRecentRoot(tree[t], anchor) /\ n \in ToSet(anchor)}

\* Those whose asset a settlement pays out, or a refund returns.
PaidOut(i) == {n \in SpendableIn("escrow") : \E leg \in Legs : n.asset = Terms[i].out[leg].asset}
Returned(i, leg) == {n \in SpendableIn("escrow") : n.asset = Terms[i].refund[leg].asset}

----------------------------------------------------------------------------
\* An output is a note.
LEMMA NewNotesAreNotes ==
  ASSUME TypeOK, NEW k \in Nat
  PROVE  NewNotes(k) \subseteq Note
<1>1. Len(log["main"]) + k \in Nat
  BY LenProperties DEF TypeOK, Trees
<1> QED BY <1>1, FinnesAssumption DEF NewNotes, Note

\* What a root includes was emitted.
LEMMA AnchoredNotesAreCommitted ==
  ASSUME TypeOK, NEW anchor \in Anchors, NEW n \in ToSet(anchor)
  PROVE  /\ n \in Emitted
         /\ n \in Note
<1>1. PICK t \in Trees : anchor \in Prefixes(log[t])
  BY DEF Anchors
<1>2. log[t] \in Seq(Note)
  BY DEF TypeOK
<1>3. PICK l \in 0 .. Len(log[t]) : anchor = SubSeq(log[t], 1, l)
  BY <1>1 DEF Prefixes
<1>4. /\ Len(log[t]) \in Nat
      /\ DOMAIN log[t] = 1 .. Len(log[t])
      /\ \A i \in 1 .. Len(log[t]) : log[t][i] \in Note
  BY <1>2, LenProperties, ElementOfSeq
<1>5. PICK i \in DOMAIN anchor : n = anchor[i]
  BY DEF ToSet
<1>6. i \in 1 .. l /\ n = log[t][i]
  BY <1>3, <1>4, <1>5
<1> QED BY <1>4, <1>6 DEF Emitted, Committed, ToSet, Trees

LEMMA TermsAreNotes ==
  ASSUME NEW i \in IntentIds, NEW leg \in Legs
  PROVE  /\ Terms[i].escrow[leg] \in Note
         /\ Terms[i].out[leg] \in Note
         /\ Terms[i].refund[leg] \in Note
BY FinnesAssumption DEF IntentTerms

----------------------------------------------------------------------------
\* Every step leaves both trees alone or is one checked insertion of notes into
\* one of them: apply_transition never runs without its two checks.
THEOREM TreeSteps ==
  ASSUME TypeOK, [Next]_vars
  PROVE  \/ UNCHANGED <<tree, log>>
         \/ \E t \in Trees, leaves \in Seq(Note) : Inserts(t, leaves)
<1>0. /\ {"main", "escrow"} \subseteq Trees
      /\ \A k \in Nat : NewNotes(k) \subseteq Note
      /\ \A i \in IntentIds, leg \in Legs :
            /\ Terms[i].escrow[leg] \in Note
            /\ Terms[i].out[leg] \in Note
            /\ Terms[i].refund[leg] \in Note
  BY NewNotesAreNotes, TermsAreNotes DEF Trees
<1>1. CASE Shield
  <2>1. PICK pub \in Observations("main"), out \in NewNotes(1) :
           CheckTree("main", pub) /\ Insert("main", pub, <<out>>)
    BY <1>1 DEF Shield
  <2>2. <<out>> \in Seq(Note)
    BY <1>0
  <2> QED BY <1>0, <2>1, <2>2 DEF Inserts
<1>2. CASE ConfidentialTransfer
  <2>1. PICK pub \in Observations("main"), out0 \in NewNotes(1), out1 \in NewNotes(2) :
           CheckTree("main", pub) /\ Insert("main", pub, <<out0, out1>>)
    BY <1>2 DEF ConfidentialTransfer
  <2>2. <<out0, out1>> \in Seq(Note)
    BY <1>0
  <2> QED BY <1>0, <2>1, <2>2 DEF Inserts
<1>3. CASE SettleDvp
  <2>1. PICK pub \in Observations("main"), outX \in NewNotes(1), outY \in NewNotes(2) :
           CheckTree("main", pub) /\ Insert("main", pub, <<outX, outY>>)
    BY <1>3 DEF SettleDvp
  <2>2. <<outX, outY>> \in Seq(Note)
    BY <1>0
  <2> QED BY <1>0, <2>1, <2>2 DEF Inserts
<1>4. CASE Unshield
  <2>1. PICK pub \in Observations("main"),
             change \in {<< >>} \cup {<<c>> : c \in NewNotes(1)} :
           CheckTree("main", pub) /\ Insert("main", pub, change)
    BY <1>4 DEF Unshield
  <2>2. change \in Seq(Note)
    <3>1. CASE change = << >>
      BY <3>1
    <3>2. ASSUME NEW c \in NewNotes(1), change = <<c>>
          PROVE  change \in Seq(Note)
      BY <1>0, <3>2
    <3> QED BY <2>1, <3>1, <3>2
  <2> QED BY <1>0, <2>1, <2>2 DEF Inserts
<1>5. CASE MintRecovery
  <2>1. PICK pub \in Observations("main"), out \in NewNotes(1) :
           CheckTree("main", pub) /\ Insert("main", pub, <<out>>)
    BY <1>5 DEF MintRecovery
  <2>2. <<out>> \in Seq(Note)
    BY <1>0
  <2> QED BY <1>0, <2>1, <2>2 DEF Inserts
<1>6. ASSUME NEW i \in IntentIds, NEW leg \in Legs, EscrowDeposit(i, leg)
      PROVE  \E t \in Trees, leaves \in Seq(Note) : Inserts(t, leaves)
  <2>1. PICK pub \in Observations("escrow") :
           CheckTree("escrow", pub) /\ Insert("escrow", pub, <<Terms[i].escrow[leg]>>)
    BY <1>6 DEF EscrowDeposit
  <2>2. <<Terms[i].escrow[leg]>> \in Seq(Note)
    BY <1>0
  <2> QED BY <1>0, <2>1, <2>2 DEF Inserts
<1>7. ASSUME NEW i \in IntentIds, SettleIntent(i)
      PROVE  \E t \in Trees, leaves \in Seq(Note) : Inserts(t, leaves)
  <2>1. PICK pub \in Observations("main") :
           CheckTree("main", pub) /\ Insert("main", pub, <<Terms[i].out["b"], Terms[i].out["a"]>>)
    BY <1>7 DEF SettleIntent
  <2>2. <<Terms[i].out["b"], Terms[i].out["a"]>> \in Seq(Note)
    BY <1>0 DEF Legs
  <2> QED BY <1>0, <2>1, <2>2 DEF Inserts
<1>8. ASSUME NEW i \in IntentIds, NEW leg \in Legs, EscrowRefund(i, leg)
      PROVE  \E t \in Trees, leaves \in Seq(Note) : Inserts(t, leaves)
  <2>1. PICK pub \in Observations("main") :
           CheckTree("main", pub) /\ Insert("main", pub, <<Terms[i].refund[leg]>>)
    BY <1>8 DEF EscrowRefund
  <2>2. <<Terms[i].refund[leg]>> \in Seq(Note)
    BY <1>0
  <2> QED BY <1>0, <2>1, <2>2 DEF Inserts
<1>9. CASE \/ UpdateKycRoot \/ UpdateSanctionRoot \/ UpdateAssetsRoot
           \/ RegisterAsset \/ RegisterTransparent \/ Freeze \/ CloseLedger
           \/ \E i \in IntentIds : CreateIntent(i)
           \/ UNCHANGED vars
  BY <1>9 DEF UpdateKycRoot, UpdateSanctionRoot, UpdateAssetsRoot, RegisterAsset,
              RegisterTransparent, Freeze, CloseLedger, CreateIntent, vars
<1> QED BY <1>1, <1>2, <1>3, <1>4, <1>5, <1>6, <1>7, <1>8, <1>9 DEF Next

----------------------------------------------------------------------------
\* The input side of a statement, against the checked frozen root.
LEMMA CheckedInputsAreSpendable ==
  ASSUME TypeOK, NEW pub, NEW t \in Trees, NEW anchor \in Anchors, IsRecentRoot(tree[t], anchor),
         NEW n \in ToSet(anchor),
         CheckFrozenRootStrict(pub), NullifierUnused(n), SpendOK(n, anchor, pub)
  PROVE  n \in SpendableIn(t)
BY AnchoredNotesAreCommitted DEF SpendableIn, Spendable, CheckFrozenRootStrict, SpendOK

\* A call that consumes one note of S, or names two.
ConsumesOne(call, legs, S) ==
  \E n \in S, fees \in Seq(Field) : InsertNullifiers(call, legs, <<n>>, fees)

ConsumesTwo(call, legs, S) ==
  \E n, m \in S, fees \in Seq(Field) : InsertNullifiers(call, legs, <<n, m>>, fees)

\* Every step leaves the nullifiers alone, or is one of the six calls: it consumes
\* one note, or names two that may be the same, each of them committed, without a
\* marker and outside the frozen root.  Only a settlement and a refund take notes out
\* of escrow, in the asset they pay out: they are for the legs of the intent that the
\* step settles or refunds.
THEOREM SpendSteps ==
  ASSUME TypeOK, [Next]_vars
  PROVE  \/ UNCHANGED <<nullifiers, spends>>
         \/ \E call \in {"unshield", "escrow_deposit"} : ConsumesOne(call, {}, SpendableIn("main"))
         \/ \E call \in {"confidential_transfer", "settle_dvp"} :
               ConsumesTwo(call, {}, SpendableIn("main"))
         \/ \E i \in IntentIds :
               SettleIntent(i) /\ ConsumesTwo("settle_intent", {i} \X Legs, PaidOut(i))
         \/ \E i \in IntentIds, leg \in Legs :
               EscrowRefund(i, leg) /\ ConsumesOne("escrow_refund", {<<i, leg>>}, Returned(i, leg))
<1>0. /\ {"main", "escrow"} \subseteq Trees
      /\ \A fee \in Field : <<fee>> \in Seq(Field)
      /\ \A fee, other \in Field : <<fee, other>> \in Seq(Field)
  BY DEF Trees
<1>1. CASE ConfidentialTransfer
  <2>1. PICK anchor, pub, in0, in1 :
           /\ anchor \in Anchors /\ pub \in Observations("main")
           /\ IsRecentRoot(tree["main"], anchor)
           /\ in0 \in ToSet(anchor) /\ in1 \in ToSet(anchor)
           /\ CheckSpendRoots(pub)
           /\ NullifierUnused(in0)
           /\ NullifierUnused(in1)
           /\ TransferInputs(anchor, in0, in1, pub)
           /\ \E fee \in Field :
                 InsertNullifiers("confidential_transfer", {}, <<in0, in1>>, <<fee>>)
    BY <1>1, Zenon DEF ConfidentialTransfer
  <2>2. in0 \in SpendableIn("main") /\ in1 \in SpendableIn("main")
    BY <1>0, <2>1, CheckedInputsAreSpendable DEF CheckSpendRoots, TransferInputs
  <2> QED BY <1>0, <2>1, <2>2 DEF ConsumesTwo
<1>2. CASE SettleDvp
  <2>1. PICK anchor \in Anchors, pub \in Observations("main") :
           /\ IsRecentRoot(tree["main"], anchor)
           /\ CheckSpendRoots(pub)
           /\ \E inX, inY \in ToSet(anchor) :
                 /\ NullifierUnused(inX)
                 /\ NullifierUnused(inY)
                 /\ \E outX \in NewNotes(1), feeX \in Field :
                      \E outY \in NewNotes(2), feeY \in Field :
                         /\ DvpStatement(anchor, inX, inY, outX, outY, feeX, feeY, pub)
                         /\ InsertNullifiers("settle_dvp", {}, <<inX, inY>>, <<feeX, feeY>>)
    BY <1>2 DEF SettleDvp
  <2>2. PICK inX \in ToSet(anchor), inY \in ToSet(anchor),
             outX \in NewNotes(1), feeX \in Field, outY \in NewNotes(2), feeY \in Field :
           /\ NullifierUnused(inX)
           /\ NullifierUnused(inY)
           /\ DvpStatement(anchor, inX, inY, outX, outY, feeX, feeY, pub)
           /\ InsertNullifiers("settle_dvp", {}, <<inX, inY>>, <<feeX, feeY>>)
    BY <2>1, Zenon
  <2>3. inX \in SpendableIn("main") /\ inY \in SpendableIn("main")
    BY <1>0, <2>1, <2>2, CheckedInputsAreSpendable DEF CheckSpendRoots, DvpStatement, DvpLegStatement
  <2> QED BY <1>0, <2>2, <2>3 DEF ConsumesTwo
<1>3. CASE Unshield
  <2>1. PICK anchor, pub, in :
           /\ anchor \in Anchors /\ pub \in Observations("main")
           /\ IsRecentRoot(tree["main"], anchor)
           /\ in \in ToSet(anchor)
           /\ CheckSpendRoots(pub)
           /\ NullifierUnused(in)
           /\ \E amount, recipient, change : \E fee \in Field :
                 /\ UnshieldStatement(anchor, in, amount, recipient, change, fee, pub)
                 /\ InsertNullifiers("unshield", {}, <<in>>, <<fee>>)
    BY <1>3, Zenon DEF Unshield
  <2>2. in \in SpendableIn("main")
    BY <1>0, <2>1, CheckedInputsAreSpendable DEF CheckSpendRoots, UnshieldStatement
  <2> QED BY <1>0, <2>1, <2>2 DEF ConsumesOne
<1>4. ASSUME NEW i \in IntentIds, NEW leg \in Legs, EscrowDeposit(i, leg)
      PROVE  ConsumesOne("escrow_deposit", {}, SpendableIn("main"))
  <2>1. PICK anchor, pub, in :
           /\ anchor \in Anchors /\ pub \in Observations("escrow")
           /\ IsRecentRoot(tree["main"], anchor)
           /\ in \in ToSet(anchor)
           /\ CheckFrozenRootStrict(pub)
           /\ NullifierUnused(in)
           /\ \E fee \in Field :
                 /\ EscrowLegStatement(FALSE, anchor, in, Terms[i].escrow[leg], fee, pub)
                 /\ InsertNullifiers("escrow_deposit", {}, <<in>>, <<fee>>)
    BY <1>4, Zenon DEF EscrowDeposit
  <2>2. in \in SpendableIn("main")
    BY <1>0, <2>1, CheckedInputsAreSpendable DEF EscrowLegStatement
  <2> QED BY <1>0, <2>1, <2>2 DEF ConsumesOne
<1>5. ASSUME NEW i \in IntentIds, SettleIntent(i)
      PROVE  ConsumesTwo("settle_intent", {i} \X Legs, PaidOut(i))
  <2>1. PICK anchor, pub, inX, inY :
           /\ anchor \in Anchors /\ pub \in Observations("main")
           /\ IsRecentRoot(tree["escrow"], anchor)
           /\ inX \in ToSet(anchor) /\ inY \in ToSet(anchor)
           /\ CheckSpendRoots(pub)
           /\ NullifierUnused(inX)
           /\ NullifierUnused(inY)
           /\ \E feeX, feeY \in Field :
                 /\ DvpStatement(anchor, inX, inY, Terms[i].out["b"], Terms[i].out["a"], feeX, feeY, pub)
                 /\ InsertNullifiers("settle_intent", {i} \X Legs, <<inX, inY>>, <<feeX, feeY>>)
    BY <1>5, Zenon DEF SettleIntent
  <2>2. inX \in SpendableIn("escrow") /\ inY \in SpendableIn("escrow")
    BY <1>0, <2>1, CheckedInputsAreSpendable DEF CheckSpendRoots, DvpStatement, DvpLegStatement
  <2>3. inX \in PaidOut(i) /\ inY \in PaidOut(i)
    BY <2>1, <2>2 DEF PaidOut, DvpStatement, DvpLegStatement, Legs
  <2> QED BY <1>0, <2>1, <2>3 DEF ConsumesTwo
<1>6. ASSUME NEW i \in IntentIds, NEW leg \in Legs, EscrowRefund(i, leg)
      PROVE  ConsumesOne("escrow_refund", {<<i, leg>>}, Returned(i, leg))
  <2>1. PICK anchor, pub, in :
           /\ anchor \in Anchors /\ pub \in Observations("main")
           /\ IsRecentRoot(tree["escrow"], anchor)
           /\ in \in ToSet(anchor)
           /\ CheckSpendRoots(pub)
           /\ NullifierUnused(in)
           /\ \E fee \in Field :
                 /\ EscrowLegStatement(TRUE, anchor, in, Terms[i].refund[leg], fee, pub)
                 /\ InsertNullifiers("escrow_refund", {<<i, leg>>}, <<in>>, <<fee>>)
    BY <1>6, Zenon DEF EscrowRefund
  <2>2. in \in SpendableIn("escrow")
    BY <1>0, <2>1, CheckedInputsAreSpendable DEF CheckSpendRoots, EscrowLegStatement
  <2>3. in \in Returned(i, leg)
    BY <2>1, <2>2 DEF Returned, EscrowLegStatement
  <2> QED BY <1>0, <2>1, <2>3 DEF ConsumesOne
<1>7. CASE \/ Shield \/ UpdateKycRoot \/ UpdateSanctionRoot \/ UpdateAssetsRoot
           \/ RegisterAsset \/ RegisterTransparent \/ Freeze \/ MintRecovery \/ CloseLedger
           \/ \E i \in IntentIds : CreateIntent(i)
           \/ UNCHANGED vars
  BY <1>7 DEF Shield, UpdateKycRoot, UpdateSanctionRoot, UpdateAssetsRoot, RegisterAsset,
              RegisterTransparent, Freeze, MintRecovery, CloseLedger, CreateIntent, vars
<1> QED BY <1>1, <1>2, <1>3, <1>4, <1>5, <1>6, <1>7 DEF Next

----------------------------------------------------------------------------
(* The contract's storage keeps its shape.                                  *)

LEMMA SpendableNotesAreNotes ==
  ASSUME TypeOK
  PROVE  Spendable \subseteq Note
<1>1. \A t \in Trees : Committed(t) \subseteq Note
  <2> TAKE t \in Trees
  <2>1. log[t] \in Seq(Note)
    BY DEF TypeOK
  <2> QED BY <2>1, LenProperties, ElementOfSeq DEF Committed, ToSet
<1> QED BY <1>1 DEF Spendable, Emitted, Trees

\* An insertion stores a well-formed tree.
LEMMA InsertTypes ==
  ASSUME TypeOK, NEW t \in Trees, NEW leaves \in Seq(Note), Inserts(t, leaves)
  PROVE  /\ tree' \in [Trees -> TreeState]
         /\ log' \in [Trees -> Seq(Note)]
<1>1. PICK pub : CheckTree(t, pub) /\ Insert(t, pub, leaves)
  BY DEF Inserts
<1>2. /\ tree[t] \in TreeState
      /\ log[t] \in Seq(Note)
      /\ leaves \in Leaves
  BY DEF TypeOK, Leaves
<1> DEFINE new == FrontierTransition(pub.frontier, pub.nextIndex, leaves)
           ring == PushRecentRoot(tree[t].recentRoots, new)
<1>3. pub.frontier = tree[t].frontier /\ pub.nextIndex = tree[t].leafCount
  BY <1>1 DEF CheckTree, CheckOldFrontier, CheckNextIndex
<1>4. new \in Leaves
  BY <1>2, <1>3, FrontierTransitionAppends DEF TreeState
<1>5. ring \in Seq(Leaves)
  <2> HIDE DEF new
  <2> QED BY <1>2, <1>4, PushRecentRootKeeps DEF TreeState
<1>6. tree[t].leafCount + Len(leaves) \in Nat
  BY <1>2, LenProperties DEF TreeState
<1>7. ApplyTransition(tree[t], new, new, Len(leaves)) \in TreeState
  <2> HIDE DEF new
  <2> QED BY <1>4, <1>5, <1>6 DEF ApplyTransition, TreeState
<1>8. tree' = [tree EXCEPT ![t] = ApplyTransition(tree[t], new, new, Len(leaves))]
  BY <1>1 DEF Insert
<1>9. log' = [log EXCEPT ![t] = log[t] \o leaves]
  BY <1>1 DEF Insert
<1>10. log[t] \o leaves \in Seq(Note)
  BY <1>2, ConcatProperties
<1> HIDE DEF new
<1> QED BY <1>7, <1>8, <1>9, <1>10 DEF TypeOK

\* A call that spends, whichever it is.
ConsumesNotes(s) ==
  ToSet(s.notes) \subseteq Spendable /\ InsertNullifiers(s.call, s.legs, s.notes, s.fees)

Recorded(call, legs, S) ==
  \E s \in Spending :
    ConsumesNotes(s) /\ s.call = call /\ s.legs = legs /\ ToSet(s.notes) \subseteq S

LEMMA ConsumedIsRecorded ==
  ASSUME TypeOK, NEW call \in Calls, NEW legs \in SUBSET (IntentIds \X Legs),
         NEW S \in SUBSET Spendable, ConsumesOne(call, legs, S) \/ ConsumesTwo(call, legs, S)
  PROVE  Recorded(call, legs, S)
<1>1. S \subseteq Note
  BY SpendableNotesAreNotes
<1>2. ASSUME NEW notes \in Seq(Note), ToSet(notes) \subseteq S, NEW fees \in Seq(Field),
             InsertNullifiers(call, legs, notes, fees)
      PROVE  Recorded(call, legs, S)
  <2> DEFINE s == [call |-> call, legs |-> legs, notes |-> notes, fees |-> fees]
  <2>1. s \in Spending
    BY DEF Spending
  <2>2. ConsumesNotes(s) /\ s.call = call /\ s.legs = legs /\ ToSet(s.notes) \subseteq S
    BY <1>2 DEF ConsumesNotes
  <2> HIDE DEF s
  <2> QED BY <2>1, <2>2 DEF Recorded
<1>3. CASE ConsumesOne(call, legs, S)
  <2>1. PICK n \in S, fees \in Seq(Field) : InsertNullifiers(call, legs, <<n>>, fees)
    BY <1>3 DEF ConsumesOne
  <2>2. <<n>> \in Seq(Note) /\ ToSet(<<n>>) \subseteq S
    BY <1>1 DEF ToSet
  <2> QED BY <1>2, <2>1, <2>2
<1>4. CASE ConsumesTwo(call, legs, S)
  <2>1. PICK n \in S, m \in S, fees \in Seq(Field) : InsertNullifiers(call, legs, <<n, m>>, fees)
    BY <1>4 DEF ConsumesTwo
  <2>2. <<n, m>> \in Seq(Note) /\ ToSet(<<n, m>>) \subseteq S
    BY <1>1 DEF ToSet
  <2> QED BY <1>2, <2>1, <2>2
<1> QED BY <1>3, <1>4

\* The same, by what the call is for.
LEMMA RecordedSteps ==
  ASSUME TypeOK, [Next]_vars
  PROVE  \/ UNCHANGED <<nullifiers, spends>>
         \/ \E s \in Spending :
              ConsumesNotes(s) /\ s.legs = {} /\ ToSet(s.notes) \subseteq SpendableIn("main")
         \/ \E i \in IntentIds : \E s \in Spending :
              /\ SettleIntent(i)
              /\ ConsumesNotes(s) /\ s.legs = {i} \X Legs /\ ToSet(s.notes) \subseteq PaidOut(i)
         \/ \E i \in IntentIds, leg \in Legs : \E s \in Spending :
              /\ EscrowRefund(i, leg)
              /\ ConsumesNotes(s) /\ s.legs = {<<i, leg>>} /\ ToSet(s.notes) \subseteq Returned(i, leg)
<1>1. /\ {} \in SUBSET (IntentIds \X Legs)
      /\ \A i \in IntentIds : {i} \X Legs \in SUBSET (IntentIds \X Legs)
      /\ \A i \in IntentIds, leg \in Legs : {<<i, leg>>} \in SUBSET (IntentIds \X Legs)
      /\ {"confidential_transfer", "settle_dvp", "unshield", "escrow_deposit", "settle_intent",
          "escrow_refund"} \subseteq Calls
  BY DEF Calls
<1>2. /\ SpendableIn("main") \in SUBSET Spendable
      /\ \A i \in IntentIds : PaidOut(i) \in SUBSET Spendable
      /\ \A i \in IntentIds, leg \in Legs : Returned(i, leg) \in SUBSET Spendable
  BY DEF SpendableIn, PaidOut, Returned
<1>3. ASSUME NEW call \in Calls, NEW legs \in SUBSET (IntentIds \X Legs), NEW S \in SUBSET Spendable
      PROVE  ConsumesOne(call, legs, S) \/ ConsumesTwo(call, legs, S) => Recorded(call, legs, S)
  BY <1>3, ConsumedIsRecorded
<1>4. ASSUME NEW call \in Calls,
             ConsumesOne(call, {}, SpendableIn("main")) \/ ConsumesTwo(call, {}, SpendableIn("main"))
      PROVE  Recorded(call, {}, SpendableIn("main"))
  BY <1>1, <1>2, <1>3, <1>4, Zenon
<1>5. ASSUME NEW i \in IntentIds, ConsumesTwo("settle_intent", {i} \X Legs, PaidOut(i))
      PROVE  Recorded("settle_intent", {i} \X Legs, PaidOut(i))
  <2>1. "settle_intent" \in Calls
    BY <1>1
  <2> QED BY <1>1, <1>2, <1>3, <1>5, <2>1, Zenon
<1>6. ASSUME NEW i \in IntentIds, NEW leg \in Legs,
             ConsumesOne("escrow_refund", {<<i, leg>>}, Returned(i, leg))
      PROVE  Recorded("escrow_refund", {<<i, leg>>}, Returned(i, leg))
  <2>1. "escrow_refund" \in Calls
    BY <1>1
  <2> QED BY <1>1, <1>2, <1>3, <1>6, <2>1, Zenon
<1>7. {"confidential_transfer", "settle_dvp", "unshield", "escrow_deposit"} \subseteq Calls
  BY DEF Calls
<1>8. \/ UNCHANGED <<nullifiers, spends>>
      \/ \E call \in Calls : Recorded(call, {}, SpendableIn("main"))
      \/ \E i \in IntentIds :
            SettleIntent(i) /\ Recorded("settle_intent", {i} \X Legs, PaidOut(i))
      \/ \E i \in IntentIds, leg \in Legs :
            EscrowRefund(i, leg) /\ Recorded("escrow_refund", {<<i, leg>>}, Returned(i, leg))
  BY <1>4, <1>5, <1>6, <1>7, SpendSteps
<1> QED BY <1>8 DEF Recorded

LEMMA SpendingSteps ==
  ASSUME TypeOK, [Next]_vars
  PROVE  \/ UNCHANGED <<nullifiers, spends>>
         \/ \E s \in Spending : ConsumesNotes(s)
BY RecordedSteps

\* What it does to the history: one more call.
LEMMA ConsumedIsAppended ==
  ASSUME TypeOK, NEW s \in Spending, ConsumesNotes(s)
  PROVE  /\ spends' = Append(spends, s)
         /\ spends' \in Seq(Spending)
         /\ Len(spends') = Len(spends) + 1
         /\ Last(spends') = s
         /\ Len(spends) \in Nat
         /\ DOMAIN spends = 1 .. Len(spends)
         /\ DOMAIN spends' = 1 .. Len(spends) + 1
         /\ \A k \in 1 .. Len(spends) : spends'[k] = spends[k]
         /\ spends'[Len(spends) + 1] = s
<1>1. s = [call |-> s.call, legs |-> s.legs, notes |-> s.notes, fees |-> s.fees]
  BY DEF Spending
<1>2. spends \in Seq(Spending) /\ spends' = Append(spends, s)
  BY <1>1 DEF TypeOK, ConsumesNotes, InsertNullifiers
<1>3. /\ Append(spends, s) \in Seq(Spending)
      /\ Len(Append(spends, s)) = Len(spends) + 1
      /\ \A k \in 1 .. Len(spends) : Append(spends, s)[k] = spends[k]
      /\ Append(spends, s)[Len(spends) + 1] = s
  BY <1>2, AppendProperties
<1> QED BY <1>2, <1>3, LenProperties DEF Last

LEMMA NullifiersSpend ==
  ASSUME TypeOK, NEW s \in Spending, ConsumesNotes(s)
  PROVE  Spent' = Spent \cup ToSet(s.notes)
<1>1. /\ DOMAIN spends = 1 .. Len(spends)
      /\ DOMAIN spends' = 1 .. Len(spends) + 1
      /\ Len(spends) \in Nat
      /\ \A k \in 1 .. Len(spends) : spends'[k] = spends[k]
      /\ spends'[Len(spends) + 1] = s
  BY ConsumedIsAppended
<1>2. ASSUME NEW n \in Spent'
      PROVE  n \in Spent \cup ToSet(s.notes)
  <2>1. PICK k \in 1 .. Len(spends) + 1 : n \in ToSet(spends'[k].notes)
    BY <1>1 DEF Spent
  <2>2. CASE k = Len(spends) + 1
    BY <1>1, <2>1, <2>2
  <2>3. CASE k # Len(spends) + 1
    <3>1. k \in 1 .. Len(spends)
      BY <1>1, <2>3
    <3> QED BY <1>1, <2>1, <3>1 DEF Spent
  <2> QED BY <2>2, <2>3
<1>3. ASSUME NEW n \in Spent
      PROVE  n \in Spent'
  <2>1. PICK k \in 1 .. Len(spends) : n \in ToSet(spends[k].notes)
    BY <1>1 DEF Spent
  <2>2. k \in 1 .. Len(spends) + 1
    BY <1>1
  <2> QED BY <1>1, <2>1, <2>2 DEF Spent
<1>4. ASSUME NEW n \in ToSet(s.notes)
      PROVE  n \in Spent'
  <2>1. Len(spends) + 1 \in 1 .. Len(spends) + 1
    BY <1>1
  <2> QED BY <1>1, <2>1 DEF Spent
<1> QED BY <1>2, <1>3, <1>4

\* Recording a call keeps the nullifiers and the history well-formed.
LEMMA SpendTypes ==
  ASSUME TypeOK, NEW s \in Spending, ConsumesNotes(s)
  PROVE  /\ nullifiers' \subseteq Nullifiers
         /\ spends' \in Seq(Spending)
<1>1. /\ \A n \in Note : Nullifier(n) \in Nullifiers
      /\ nullifiers \subseteq Nullifiers
  BY DEF TypeOK, Note, Nullifier, Nullifiers
<1>2. ToSet(s.notes) \subseteq Note
  BY SpendableNotesAreNotes DEF ConsumesNotes
<1>3. nullifiers' = nullifiers \cup {Nullifier(n) : n \in ToSet(s.notes)}
  BY DEF ConsumesNotes, InsertNullifiers
<1> QED BY <1>1, <1>2, <1>3, ConsumedIsAppended

----------------------------------------------------------------------------
LEMMA SeedRootTypes ==
  ASSUME NEW Values, NEW r \in Values
  PROVE  SeedRoot(r) \in WindowedRoot(Values)
BY DEF SeedRoot, WindowedRoot

LEMMA SetRootTypes ==
  ASSUME NEW Values, NEW c \in WindowedRoot(Values), NEW r \in Values
  PROVE  SetRoot(c, r) \in WindowedRoot(Values)
<1>1. c.window \in Seq(Values) /\ Len(c.window) \in Nat
  BY LenProperties DEF WindowedRoot
<1>2. Append(c.window, r) \in Seq(Values)
  BY <1>1, AppendProperties
<1>3. CASE Len(c.window) < COMPLIANCE_WINDOW_CAPACITY
  <2>1. PushWindow(c.window, r) \in {c.window, Append(c.window, r)}
    BY <1>3 DEF PushWindow
  <2> QED BY <1>1, <1>2, <2>1 DEF SetRoot, WindowedRoot
<1>4. CASE ~(Len(c.window) < COMPLIANCE_WINDOW_CAPACITY)
  <2>1. c.window # << >>
    BY <1>1, <1>4, WindowAssumption, EmptySeq
  <2>2. Append(Tail(c.window), r) \in Seq(Values)
    BY <1>1, <2>1, HeadTailProperties, AppendProperties
  <2>3. PushWindow(c.window, r) \in {c.window, Append(Tail(c.window), r)}
    BY <1>4 DEF PushWindow
  <2> QED BY <1>1, <2>2, <2>3 DEF SetRoot, WindowedRoot
<1> QED BY <1>3, <1>4

----------------------------------------------------------------------------
LEMMA InitTypes == Init => TypeOK
<1> SUFFICES ASSUME Init PROVE TypeOK
  OBVIOUS
<1>1. EmptyTree \in TreeState
  <2>1. << >> \in Leaves
    BY DEF Leaves
  <2>2. << << >> >> \in Seq(Leaves)
    BY <2>1
  <2> QED BY <2>1, <2>2 DEF EmptyTree, TreeState
<1>2. compliance \in [kyc      : WindowedRoot(KycRoots),
                      sanction : WindowedRoot(SanctionRoots),
                      assets   : WindowedRoot(AssetsRoots)]
  BY SeedRootTypes DEF Init
<1>3. NoIntent \in Intent
  BY DEF NoIntent, Intent
<1>4. << >> \in Seq(Note) /\ << >> \in Seq(Spending)
  OBVIOUS
<1> QED BY <1>1, <1>2, <1>3, <1>4 DEF Init, TypeOK

\* The issuer's variables, the intents, the balances and the ledger.
LEMMA OtherTypes ==
  ASSUME TypeOK, [Next]_vars
  PROVE  /\ ledger' \in Nat
         /\ compliance' \in [kyc      : WindowedRoot(KycRoots),
                             sanction : WindowedRoot(SanctionRoots),
                             assets   : WindowedRoot(AssetsRoots)]
         /\ frozen' \subseteq Note
         /\ frozenRoot' \subseteq Note
         /\ registered' \subseteq Assets
         /\ accounts' \subseteq Owners
         /\ balance' \in [Assets -> Nat]
         /\ intents' \in [IntentIds -> Intent]
         /\ recovered' \subseteq Note
<1> USE DEF TypeOK
<1>1. CASE Shield
  <2>1. PICK out \in NewNotes(1) : PullDeposit(out.asset, out.value)
    BY <1>1 DEF Shield
  <2>2. out.value \in Nat /\ out.asset \in Assets
    BY <2>1, NotesAssumption DEF NewNotes, Value
  <2>3. balance' \in [Assets -> Nat]
    BY <2>1, <2>2 DEF PullDeposit
  <2> QED BY <1>1, <2>3 DEF Shield, issuerVars
<1>2. CASE ConfidentialTransfer
  BY <1>2 DEF ConfidentialTransfer, issuerVars
<1>3. CASE SettleDvp
  BY <1>3 DEF SettleDvp, issuerVars
<1>4. CASE Unshield
  <2>1. PICK in, amount : amount \in Value /\ PayOut(in.asset, amount)
    BY <1>4 DEF Unshield
  <2>2. amount \in Nat
    BY <2>1, NotesAssumption DEF Value
  <2>3. balance' \in [Assets -> Nat]
    <3>1. in.asset \in Assets /\ balance[in.asset] \in Nat /\ amount <= balance[in.asset]
      BY <2>1 DEF PayOut
    <3>2. balance[in.asset] - amount \in Nat
      BY <2>2, <3>1
    <3> QED BY <2>1, <3>2 DEF PayOut
  <2> QED BY <1>4, <2>3 DEF Unshield, issuerVars
<1>5. CASE UpdateKycRoot
  <2>1. PICK r \in KycRoots : compliance' = [compliance EXCEPT !.kyc = SetRoot(compliance.kyc, r)]
    BY <1>5 DEF UpdateKycRoot
  <2>2. SetRoot(compliance.kyc, r) \in WindowedRoot(KycRoots)
    BY SetRootTypes
  <2> QED BY <1>5, <2>1, <2>2 DEF UpdateKycRoot
<1>6. CASE UpdateSanctionRoot
  <2>1. PICK r \in SanctionRoots : compliance' = [compliance EXCEPT !.sanction = SetRoot(compliance.sanction, r)]
    BY <1>6 DEF UpdateSanctionRoot
  <2>2. SetRoot(compliance.sanction, r) \in WindowedRoot(SanctionRoots)
    BY SetRootTypes
  <2> QED BY <1>6, <2>1, <2>2 DEF UpdateSanctionRoot
<1>7. CASE UpdateAssetsRoot
  <2>1. PICK r \in AssetsRoots : compliance' = [compliance EXCEPT !.assets = SetRoot(compliance.assets, r)]
    BY <1>7 DEF UpdateAssetsRoot
  <2>2. SetRoot(compliance.assets, r) \in WindowedRoot(AssetsRoots)
    BY SetRootTypes
  <2> QED BY <1>7, <2>1, <2>2 DEF UpdateAssetsRoot
<1>8. CASE RegisterAsset
  BY <1>8 DEF RegisterAsset
<1>9. CASE RegisterTransparent
  BY <1>9, FinnesAssumption DEF RegisterTransparent
<1>10. CASE Freeze
  <2>1. PICK cm \in Freezable, view \in IssuerViews :
           frozen' = frozen \cup {cm} /\ frozenRoot' = view \cup {cm}
    BY <1>10 DEF Freeze
  <2>2. cm \in Note
    <3>1. CASE cm \in EARLY
      BY <3>1, FinnesAssumption
    <3>2. ASSUME NEW t \in Trees, cm \in Committed(t)
          PROVE  cm \in Note
      <4>1. log[t] \in Seq(Note)
        OBVIOUS
      <4> QED BY <3>2, <4>1, LenProperties, ElementOfSeq DEF Committed, ToSet
    <3> QED BY <2>1, <3>1, <3>2 DEF Freezable, Emitted, Trees
  <2>3. view \subseteq frozen
    BY <2>1 DEF IssuerViews
  <2> QED BY <1>10, <2>1, <2>2, <2>3 DEF Freeze
<1>11. CASE MintRecovery
  <2>1. PICK cm \in Recoverable : recovered' = recovered \cup {cm}
    BY <1>11 DEF MintRecovery
  <2>2. cm \in Note
    BY <2>1 DEF Recoverable
  <2> QED BY <1>11, <2>1, <2>2 DEF MintRecovery
<1>12. ASSUME NEW i \in IntentIds, CreateIntent(i)
       PROVE  intents' \in [IntentIds -> Intent] /\ UNCHANGED <<ledger, balance, issuerVars>>
  <2>1. PICK deadline \in Deadlines :
          intents' = [intents EXCEPT ![i] = [NoIntent EXCEPT !.exists = TRUE, !.deadline = deadline]]
    BY <1>12 DEF CreateIntent
  <2>2. [NoIntent EXCEPT !.exists = TRUE, !.deadline = deadline] \in Intent
    BY <2>1, FinnesAssumption DEF NoIntent, Intent
  <2> QED BY <1>12, <2>1, <2>2 DEF CreateIntent
<1>13. ASSUME NEW i \in IntentIds, NEW leg \in Legs, EscrowDeposit(i, leg)
       PROVE  intents' \in [IntentIds -> Intent] /\ UNCHANGED <<ledger, balance, issuerVars>>
  <2>1. intents' = [intents EXCEPT ![i] = [intents[i] EXCEPT !.deposited = intents[i].deposited \cup {leg}]]
    BY <1>13 DEF EscrowDeposit
  <2>2. [intents[i] EXCEPT !.deposited = intents[i].deposited \cup {leg}] \in Intent
    BY DEF Intent
  <2> QED BY <1>13, <2>1, <2>2 DEF EscrowDeposit
<1>14. ASSUME NEW i \in IntentIds, SettleIntent(i)
       PROVE  intents' \in [IntentIds -> Intent] /\ UNCHANGED <<ledger, balance, issuerVars>>
  <2>1. intents' = [intents EXCEPT ![i] = [intents[i] EXCEPT !.settled = TRUE]]
    BY <1>14 DEF SettleIntent
  <2>2. [intents[i] EXCEPT !.settled = TRUE] \in Intent
    BY DEF Intent
  <2> QED BY <1>14, <2>1, <2>2 DEF SettleIntent
<1>15. ASSUME NEW i \in IntentIds, NEW leg \in Legs, EscrowRefund(i, leg)
       PROVE  intents' \in [IntentIds -> Intent] /\ UNCHANGED <<ledger, balance, issuerVars>>
  <2>1. intents' = [intents EXCEPT ![i] = [intents[i] EXCEPT !.refunded = intents[i].refunded \cup {leg}]]
    BY <1>15 DEF EscrowRefund
  <2>2. [intents[i] EXCEPT !.refunded = intents[i].refunded \cup {leg}] \in Intent
    BY DEF Intent
  <2> QED BY <1>15, <2>1, <2>2 DEF EscrowRefund
<1>16. CASE CloseLedger
  BY <1>16 DEF CloseLedger, issuerVars
<1>17. CASE UNCHANGED vars
  BY <1>17 DEF vars, issuerVars
<1> QED BY <1>1, <1>2, <1>3, <1>4, <1>5, <1>6, <1>7, <1>8, <1>9, <1>10, <1>11, <1>12, <1>13,
           <1>14, <1>15, <1>16, <1>17 DEF Next, issuerVars

LEMMA StepTypes ==
  ASSUME TypeOK, [Next]_vars
  PROVE  TypeOK'
<1>1. tree' \in [Trees -> TreeState] /\ log' \in [Trees -> Seq(Note)]
  <2>1. CASE UNCHANGED <<tree, log>>
    BY <2>1 DEF TypeOK
  <2> QED BY <2>1, TreeSteps, InsertTypes
<1>2. nullifiers' \subseteq Nullifiers /\ spends' \in Seq(Spending)
  <2>1. CASE UNCHANGED <<nullifiers, spends>>
    BY <2>1 DEF TypeOK
  <2> QED BY <2>1, SpendingSteps, SpendTypes
<1> QED BY <1>1, <1>2, OtherTypes DEF TypeOK

\* The storage has its shape in every reachable state.
THEOREM TypeCorrect == Spec => []TypeOK
BY InitTypes, StepTypes, PTL DEF Spec

----------------------------------------------------------------------------
(* The trees hold exactly what was emitted.                                 *)

LEMMA PrefixOfConcat ==
  ASSUME NEW S, NEW s \in Seq(S), NEW t \in Seq(S), NEW u \in Seq(S), IsPrefix(s, t)
  PROVE  IsPrefix(s, t \o u)
<1>1. /\ Len(s) \in Nat /\ Len(t) \in Nat /\ Len(u) \in Nat
      /\ Len(s) <= Len(t)
      /\ SubSeq(s, 1, Len(s)) = SubSeq(t, 1, Len(s))
  BY LenProperties DEF IsPrefix
<1>2. Len(t \o u) = Len(t) + Len(u)
  BY ConcatProperties
<1>3. SubSeq(t \o u, 1, Len(s)) = SubSeq(t, 1, Len(s))
  <2>1. CASE Len(s) = 0
    BY <2>1, SubSeqEmpty
  <2>2. CASE Len(s) # 0
    BY <1>1, <2>2, SubSeqOfConcat1
  <2> QED BY <2>1, <2>2
<1> QED BY <1>1, <1>2, <1>3 DEF IsPrefix

LEMMA InitMatches == Init => TreeMatchesLog
<1> SUFFICES ASSUME Init, NEW t \in Trees
             PROVE  /\ tree[t].root = log[t]
                    /\ tree[t].frontier = log[t]
                    /\ tree[t].leafCount = Len(log[t])
                    /\ Last(tree[t].recentRoots) = tree[t].root
                    /\ \A i \in DOMAIN tree[t].recentRoots : IsPrefix(tree[t].recentRoots[i], log[t])
  BY DEF TreeMatchesLog
<1>1. tree[t] = EmptyTree /\ log[t] = << >>
  BY DEF Init
<1>2. Len(<< << >> >>) = 1 /\ \A i \in DOMAIN << << >> >> : << << >> >>[i] = << >>
  OBVIOUS
<1>3. IsPrefix(<< >>, << >>)
  BY DEF IsPrefix
<1> QED BY <1>1, <1>2, <1>3 DEF EmptyTree, Last

\* An insertion appends the leaves to the log and to the tree alike.
LEMMA InsertMatches ==
  ASSUME TypeOK, TreeMatchesLog, NEW t \in Trees, NEW leaves \in Seq(Note), Inserts(t, leaves)
  PROVE  /\ TreeMatchesLog'
         /\ \A u \in Trees : IsPrefix(tree[u].root, tree'[u].root)
<1>1. PICK pub : CheckTree(t, pub) /\ Insert(t, pub, leaves)
  BY DEF Inserts
<1>2. /\ tree[t] \in TreeState
      /\ log[t] \in Seq(Note)
      /\ leaves \in Leaves
      /\ tree \in [Trees -> TreeState]
      /\ log \in [Trees -> Seq(Note)]
  BY DEF TypeOK, Leaves
<1> DEFINE new == log[t] \o leaves
           ring == PushRecentRoot(tree[t].recentRoots, new)
<1>3. FrontierTransition(pub.frontier, pub.nextIndex, leaves) = new
  <2>1. pub.frontier = log[t] /\ pub.nextIndex = Len(log[t])
    BY <1>1 DEF CheckTree, CheckOldFrontier, CheckNextIndex, TreeMatchesLog
  <2>2. Len(log[t]) \in Nat
    BY <1>2, LenProperties
  <2> QED BY <1>2, <2>1, <2>2, FrontierTransitionAppends DEF Leaves
<1>4. /\ tree' = [tree EXCEPT ![t] = ApplyTransition(tree[t], new, new, Len(leaves))]
      /\ log' = [log EXCEPT ![t] = new]
  BY <1>1, <1>3 DEF Insert
<1>5. new \in Seq(Note) /\ Len(new) = Len(log[t]) + Len(leaves)
  BY <1>2, ConcatProperties DEF Leaves
<1>6. \A s \in Seq(Note) : IsPrefix(s, s)
  BY LenProperties DEF IsPrefix
<1>7. ASSUME NEW u \in Trees, u # t
      PROVE  tree'[u] = tree[u] /\ log'[u] = log[u] /\ log[u] \in Seq(Note)
  BY <1>2, <1>4, <1>7
<1>8. /\ log'[t] = new
      /\ tree'[t].root = new
      /\ tree'[t].frontier = new
      /\ tree'[t].leafCount = tree[t].leafCount + Len(leaves)
      /\ tree'[t].recentRoots = ring
  BY <1>2, <1>4 DEF ApplyTransition
<1>9. /\ Last(ring) = new
      /\ \A i \in DOMAIN ring : IsPrefix(ring[i], new)
  <2>1. tree[t].recentRoots \in Seq(Leaves) /\ new \in Leaves
    BY <1>2, <1>5 DEF TreeState, Leaves
  <2> HIDE DEF new
  <2>2. /\ ring \in Seq(Leaves)
        /\ ring[Len(ring)] = new
        /\ \A i \in 1 .. Len(ring) : new = ring[i] \/ \E j \in 1 .. Len(tree[t].recentRoots) : ring[i] = tree[t].recentRoots[j]
    BY <2>1, PushRecentRootKeeps
  <2>3. DOMAIN ring = 1 .. Len(ring) /\ DOMAIN tree[t].recentRoots = 1 .. Len(tree[t].recentRoots)
    BY <2>1, <2>2, LenProperties
  <2>4. ASSUME NEW j \in 1 .. Len(tree[t].recentRoots)
        PROVE  IsPrefix(tree[t].recentRoots[j], new)
    <3>1. tree[t].recentRoots[j] \in Seq(Note)
      BY <2>1, ElementOfSeq DEF Leaves
    <3>2. IsPrefix(tree[t].recentRoots[j], log[t])
      BY <2>3 DEF TreeMatchesLog
    <3> QED BY <1>2, <3>1, <3>2, PrefixOfConcat DEF new, Leaves
  <2> QED BY <1>5, <1>6, <2>2, <2>3, <2>4 DEF Last
<1>10. IsPrefix(log[t], new)
  BY <1>2, <1>6, PrefixOfConcat DEF Leaves
<1> HIDE DEF new, ring
<1>11. TreeMatchesLog'
  <2> SUFFICES ASSUME NEW u \in Trees
               PROVE  /\ tree'[u].root = log'[u]
                      /\ tree'[u].frontier = log'[u]
                      /\ tree'[u].leafCount = Len(log'[u])
                      /\ Last(tree'[u].recentRoots) = tree'[u].root
                      /\ \A i \in DOMAIN tree'[u].recentRoots : IsPrefix(tree'[u].recentRoots[i], log'[u])
    BY DEF TreeMatchesLog
  <2>1. CASE u # t
    BY <1>7, <2>1 DEF TreeMatchesLog
  <2>2. CASE u = t
    BY <1>5, <1>8, <1>9, <2>2 DEF TreeMatchesLog
  <2> QED BY <2>1, <2>2
<1>12. ASSUME NEW u \in Trees
       PROVE  IsPrefix(tree[u].root, tree'[u].root)
  <2>1. CASE u # t
    BY <1>6, <1>7, <2>1 DEF TreeMatchesLog
  <2>2. CASE u = t
    BY <1>8, <1>10, <2>2 DEF TreeMatchesLog
  <2> QED BY <2>1, <2>2
<1> QED BY <1>11, <1>12

LEMMA StepMatches ==
  ASSUME TypeOK, TreeMatchesLog, [Next]_vars
  PROVE  /\ TreeMatchesLog'
         /\ \A u \in Trees : IsPrefix(tree[u].root, tree'[u].root)
<1>1. CASE UNCHANGED <<tree, log>>
  <2>1. \A s \in Seq(Note) : IsPrefix(s, s)
    BY LenProperties DEF IsPrefix
  <2> QED BY <1>1, <2>1 DEF TreeMatchesLog, TypeOK, TreeState, Leaves
<1> QED BY <1>1, TreeSteps, InsertMatches

\* A proof with an old frontier or a wrong index never gets into a tree: the
\* stored root, frontier and leaf count are those of the emitted commitments.
THEOREM TreesMatchLogs == Spec => []TreeMatchesLog
BY InitTypes, StepTypes, InitMatches, StepMatches, PTL DEF Spec

\* No commitment is ever lost from a tree.
THEOREM TreesAreAppendOnly == Spec => AppendOnly
<1>1. TypeOK /\ TreeMatchesLog /\ [Next]_vars => [\A t \in Trees : IsPrefix(tree[t].root, tree'[t].root)]_vars
  BY StepMatches
<1> QED BY <1>1, TypeCorrect, TreesMatchLogs, PTL DEF Spec, AppendOnly

----------------------------------------------------------------------------
(* The nullifiers record every spend, once.                                 *)

LEMMA ConcatRange ==
  ASSUME NEW S, NEW s \in Seq(S), NEW u \in Seq(S)
  PROVE  ToSet(s \o u) = ToSet(s) \cup ToSet(u)
<1>1. /\ ToSet(s) = Range(s)
      /\ ToSet(u) = Range(u)
      /\ ToSet(s \o u) = Range(s \o u)
  BY DEF ToSet, Range
<1>2. Range(s \o u) = Range(s) \cup Range(u)
  BY RangeConcatenation
<1> QED BY <1>1, <1>2

\* An insertion commits its leaves to one tree; a nullifier insertion spends its
\* notes.
LEMMA InsertCommits ==
  ASSUME TypeOK, NEW t \in Trees, NEW leaves \in Seq(Note), NEW pub, Insert(t, pub, leaves)
  PROVE  /\ Committed(t)' = Committed(t) \cup ToSet(leaves)
         /\ \A u \in Trees \ {t} : Committed(u)' = Committed(u)
<1>1. log' = [log EXCEPT ![t] = log[t] \o leaves]
  BY DEF Insert
<1>2. log[t] \in Seq(Note) /\ log \in [Trees -> Seq(Note)]
  BY DEF TypeOK
<1>3. ToSet(log[t] \o leaves) = ToSet(log[t]) \cup ToSet(leaves)
  BY <1>2, ConcatRange
<1> QED BY <1>1, <1>2, <1>3 DEF Committed

LEMMA CommittedGrows ==
  ASSUME TypeOK, [Next]_vars, NEW t \in Trees
  PROVE  Committed(t) \subseteq Committed(t)'
<1>1. CASE UNCHANGED <<tree, log>>
  BY <1>1 DEF Committed
<1>2. ASSUME NEW u \in Trees, NEW leaves \in Seq(Note), Inserts(u, leaves)
      PROVE  Committed(t) \subseteq Committed(t)'
  <2>1. log' = [log EXCEPT ![u] = log[u] \o leaves]
    BY <1>2 DEF Inserts, Insert
  <2>2. log[u] \in Seq(Note) /\ log \in [Trees -> Seq(Note)]
    BY DEF TypeOK
  <2>3. ToSet(log[u]) \subseteq ToSet(log[u] \o leaves)
    BY <2>2, ConcatRange
  <2> QED BY <2>1, <2>2, <2>3 DEF Committed
<1> QED BY <1>1, <1>2, TreeSteps

LEMMA InitRecords == Init => SpendsAreRecorded /\ NoDoubleSpend
BY DEF Init, SpendsAreRecorded, NoDoubleSpend, Spent

\* The notes of a call are none of the earlier calls'.
LEMMA SpendableIsUnspent ==
  ASSUME SpendsAreRecorded
  PROVE  Spent \cap Spendable = {}
BY DEF SpendsAreRecorded, Spendable, NullifierUnused

LEMMA StepRecords ==
  ASSUME TypeOK, SpendsAreRecorded, NoDoubleSpend, [Next]_vars
  PROVE  SpendsAreRecorded' /\ NoDoubleSpend'
<1>1. Emitted \subseteq Emitted'
  BY CommittedGrows DEF Trees, Emitted
<1>2. CASE UNCHANGED <<nullifiers, spends>>
  BY <1>1, <1>2 DEF SpendsAreRecorded, NoDoubleSpend, Spent
<1>3. ASSUME NEW s \in Spending, ConsumesNotes(s)
      PROVE  SpendsAreRecorded' /\ NoDoubleSpend'
  <2>1. Spent' = Spent \cup ToSet(s.notes)
    BY <1>3, NullifiersSpend
  <2>2. nullifiers' = {Nullifier(n) : n \in Spent'}
    BY <1>3, <2>1 DEF ConsumesNotes, InsertNullifiers, SpendsAreRecorded
  <2>3. Spent' \subseteq Emitted'
    BY <1>1, <1>3, <2>1 DEF SpendsAreRecorded, Spendable, ConsumesNotes
  <2>4. NoDoubleSpend'
    <3>1. /\ DOMAIN spends = 1 .. Len(spends)
          /\ DOMAIN spends' = 1 .. Len(spends) + 1
          /\ Len(spends) \in Nat
          /\ \A k \in 1 .. Len(spends) : spends'[k] = spends[k]
          /\ spends'[Len(spends) + 1] = s
      BY <1>3, ConsumedIsAppended
    <3>2. \A k \in 1 .. Len(spends) : ToSet(spends[k].notes) \cap ToSet(s.notes) = {}
      BY <1>3, <3>1, SpendableIsUnspent DEF ConsumesNotes, Spent
    <3>3. SUFFICES ASSUME NEW j \in 1 .. Len(spends) + 1, NEW k \in 1 .. Len(spends) + 1, j # k
                   PROVE  ToSet(spends'[j].notes) \cap ToSet(spends'[k].notes) = {}
      BY <3>1 DEF NoDoubleSpend
    <3>4. CASE j # Len(spends) + 1 /\ k # Len(spends) + 1
      <4>1. j \in 1 .. Len(spends) /\ k \in 1 .. Len(spends)
        BY <3>1, <3>4
      <4> QED BY <3>1, <3>3, <4>1 DEF NoDoubleSpend
    <3>5. CASE j = Len(spends) + 1
      <4>1. k \in 1 .. Len(spends)
        BY <3>1, <3>3, <3>5
      <4> QED BY <3>1, <3>2, <3>5, <4>1
    <3>6. CASE k = Len(spends) + 1
      <4>1. j \in 1 .. Len(spends)
        BY <3>1, <3>3, <3>6
      <4> QED BY <3>1, <3>2, <3>6, <4>1
    <3> QED BY <3>4, <3>5, <3>6
  <2> QED BY <2>1, <2>2, <2>3, <2>4 DEF SpendsAreRecorded
<1> QED BY <1>2, <1>3, SpendingSteps

\* The nullifier markers are those of the spent notes, all of them committed.
THEOREM SpendsRecorded == Spec => []SpendsAreRecorded
BY InitTypes, StepTypes, InitRecords, StepRecords, PTL DEF Spec

\* No note is consumed by two calls, in any mix of transfers, swaps, unshields,
\* deposits, settlements and refunds.
THEOREM NoNoteSpentTwice == Spec => []NoDoubleSpend
BY InitTypes, StepTypes, InitRecords, StepRecords, PTL DEF Spec

----------------------------------------------------------------------------
(* Frozen notes stay put, when the issuer computes each root from the set.   *)

FrozenRootCurrent == frozenRoot = frozen

LEMMA StepFrozenRoot ==
  ASSUME ~ISSUER_LAGS, FrozenRootCurrent, [Next]_vars
  PROVE  FrozenRootCurrent'
<1>1. CASE Freeze
  BY <1>1 DEF Freeze, IssuerViews, FrozenRootCurrent
<1>2. CASE UNCHANGED <<frozen, frozenRoot>>
  BY <1>2 DEF FrozenRootCurrent
<1>3. [Next]_vars => Freeze \/ UNCHANGED <<frozen, frozenRoot>>
  BY DEF Next, vars, issuerVars, Shield, ConfidentialTransfer, SettleDvp, Unshield, UpdateKycRoot,
         UpdateSanctionRoot, UpdateAssetsRoot, RegisterAsset, RegisterTransparent, MintRecovery,
         CreateIntent, EscrowDeposit, SettleIntent, EscrowRefund, CloseLedger
<1> QED BY <1>1, <1>2, <1>3

LEMMA StepSparesFrozen ==
  ASSUME TypeOK, FrozenRootCurrent, [Next]_vars
  PROVE  NewlySpent \cap frozen = {}
<1>1. CASE UNCHANGED <<nullifiers, spends>>
  BY <1>1 DEF NewlySpent, Spent
<1>2. ASSUME NEW s \in Spending, ConsumesNotes(s)
      PROVE  NewlySpent \cap frozen = {}
  <2>1. Spent' = Spent \cup ToSet(s.notes)
    BY <1>2, NullifiersSpend
  <2> QED BY <1>2, <2>1 DEF NewlySpent, ConsumesNotes, Spendable, FrozenRootCurrent
<1> QED BY <1>1, <1>2, SpendingSteps

\* With an issuer that computes each new root from the whole frozen set, a frozen
\* note is never spent, by any of the six spending entrypoints.
THEOREM FrozenNotesStayPut ==
  ASSUME ~ISSUER_LAGS
  PROVE  Spec => FrozenUnspendable
<1>1. Init => FrozenRootCurrent
  BY DEF Init, FrozenRootCurrent
<1>2. FrozenRootCurrent /\ [Next]_vars => FrozenRootCurrent'
  BY StepFrozenRoot
<1>3. TypeOK /\ FrozenRootCurrent /\ [Next]_vars => [NewlySpent \cap frozen = {}]_vars
  BY StepSparesFrozen
<1> QED BY <1>1, <1>2, <1>3, TypeCorrect, PTL DEF Spec, FrozenUnspendable

----------------------------------------------------------------------------
(* The windows of the compliance roots.                                     *)

WindowOK(c) ==
  /\ WindowContains(c.window, c.current)
  /\ IsInjective(c.window)
  /\ Len(c.window) <= COMPLIANCE_WINDOW_CAPACITY

LEMMA SeedRootOK ==
  ASSUME NEW r
  PROVE  WindowOK(SeedRoot(r))
BY WindowAssumption DEF WindowOK, SeedRoot, WindowContains, IsInjective

\* A sequence without repetitions keeps none when a new value is appended.
LEMMA AppendNewInjective ==
  ASSUME NEW S, NEW s \in Seq(S), NEW r \in S, IsInjective(s), ~WindowContains(s, r)
  PROVE  /\ IsInjective(Append(s, r))
         /\ WindowContains(Append(s, r), r)
<1>1. /\ Len(s) \in Nat
      /\ DOMAIN s = 1 .. Len(s)
      /\ Append(s, r) \in Seq(S)
      /\ Len(Append(s, r)) = Len(s) + 1
      /\ \A i \in 1 .. Len(s) : Append(s, r)[i] = s[i]
      /\ Append(s, r)[Len(s) + 1] = r
  BY LenProperties, AppendProperties
<1>2. DOMAIN Append(s, r) = 1 .. Len(s) + 1
  BY <1>1, LenProperties
<1>3. \A i \in 1 .. Len(s) : s[i] # r
  BY <1>1 DEF WindowContains
<1>4. IsInjective(Append(s, r))
  <2>1. SUFFICES ASSUME NEW i \in 1 .. Len(s) + 1, NEW j \in 1 .. Len(s) + 1,
                        Append(s, r)[i] = Append(s, r)[j]
                 PROVE  i = j
    BY <1>2 DEF IsInjective
  <2>2. CASE i \in 1 .. Len(s) /\ j \in 1 .. Len(s)
    BY <1>1, <2>1, <2>2 DEF IsInjective
  <2>3. CASE i = Len(s) + 1 \/ j = Len(s) + 1
    BY <1>1, <1>3, <2>1, <2>3
  <2> QED BY <1>1, <2>2, <2>3
<1>5. WindowContains(Append(s, r), r)
  <2>1. Len(s) + 1 \in 1 .. Len(s) + 1
    BY <1>1
  <2> QED BY <1>1, <1>2, <2>1 DEF WindowContains
<1> QED BY <1>4, <1>5

LEMMA TailInjective ==
  ASSUME NEW S, NEW s \in Seq(S), s # << >>, IsInjective(s)
  PROVE  /\ IsInjective(Tail(s))
         /\ \A r : WindowContains(Tail(s), r) => WindowContains(s, r)
<1>1. /\ Len(s) \in Nat
      /\ DOMAIN s = 1 .. Len(s)
      /\ Tail(s) \in Seq(S)
      /\ Len(Tail(s)) = Len(s) - 1
      /\ \A i \in 1 .. Len(Tail(s)) : Tail(s)[i] = s[i + 1]
  BY LenProperties, HeadTailProperties
<1>2. DOMAIN Tail(s) = 1 .. Len(s) - 1
  BY <1>1, LenProperties
<1>3. \A i \in 1 .. Len(s) - 1 : i + 1 \in 1 .. Len(s) /\ Tail(s)[i] = s[i + 1]
  BY <1>1
<1>4. IsInjective(Tail(s))
  <2>1. SUFFICES ASSUME NEW i \in 1 .. Len(s) - 1, NEW j \in 1 .. Len(s) - 1, Tail(s)[i] = Tail(s)[j]
                 PROVE  i = j
    BY <1>2 DEF IsInjective
  <2>2. i + 1 = j + 1
    BY <1>1, <1>3, <2>1 DEF IsInjective
  <2> QED BY <1>1, <2>2
<1> QED BY <1>1, <1>2, <1>3, <1>4 DEF WindowContains

\* The setter keeps the window bounded, free of repetitions and open to the root
\* it publishes, a republished root included.
LEMMA SetRootOK ==
  ASSUME NEW Values, NEW c \in WindowedRoot(Values), NEW r \in Values, WindowOK(c)
  PROVE  WindowOK(SetRoot(c, r))
<1>1. /\ c.window \in Seq(Values)
      /\ Len(c.window) \in Nat
      /\ IsInjective(c.window)
      /\ Len(c.window) <= COMPLIANCE_WINDOW_CAPACITY
  BY LenProperties DEF WindowedRoot, WindowOK
<1>2. SetRoot(c, r).current = r /\ SetRoot(c, r).window = PushWindow(c.window, r)
  BY DEF SetRoot
<1>3. CASE WindowContains(c.window, r)
  <2>1. PushWindow(c.window, r) = c.window
    BY <1>3 DEF PushWindow
  <2> QED BY <1>1, <1>2, <1>3, <2>1 DEF WindowOK
<1>4. CASE ~WindowContains(c.window, r) /\ Len(c.window) < COMPLIANCE_WINDOW_CAPACITY
  <2>1. PushWindow(c.window, r) = Append(c.window, r)
    BY <1>4 DEF PushWindow
  <2>2. Len(Append(c.window, r)) = Len(c.window) + 1
    BY <1>1, AppendProperties
  <2>3. Len(Append(c.window, r)) <= COMPLIANCE_WINDOW_CAPACITY
    BY <1>1, <1>4, <2>2, WindowAssumption
  <2>4. IsInjective(Append(c.window, r)) /\ WindowContains(Append(c.window, r), r)
    BY <1>1, <1>4, AppendNewInjective
  <2> QED BY <1>2, <2>1, <2>3, <2>4 DEF WindowOK
<1>5. CASE ~WindowContains(c.window, r) /\ ~(Len(c.window) < COMPLIANCE_WINDOW_CAPACITY)
  <2>1. PushWindow(c.window, r) = Append(Tail(c.window), r)
    BY <1>5 DEF PushWindow
  <2>2. c.window # << >>
    BY <1>1, <1>5, WindowAssumption, EmptySeq
  <2>3. /\ Tail(c.window) \in Seq(Values)
        /\ Len(Tail(c.window)) = Len(c.window) - 1
    BY <1>1, <2>2, HeadTailProperties
  <2>4. IsInjective(Tail(c.window)) /\ ~WindowContains(Tail(c.window), r)
    BY <1>1, <1>5, <2>2, TailInjective
  <2>5. Len(Append(Tail(c.window), r)) = Len(c.window)
    BY <1>1, <2>3, AppendProperties
  <2>6. IsInjective(Append(Tail(c.window), r)) /\ WindowContains(Append(Tail(c.window), r), r)
    BY <2>3, <2>4, AppendNewInjective
  <2> QED BY <1>1, <1>2, <2>1, <2>5, <2>6 DEF WindowOK
<1> QED BY <1>3, <1>4, <1>5

\* One setter call, or none.
LEMMA ComplianceSteps ==
  ASSUME [Next]_vars
  PROVE  \/ UNCHANGED compliance
         \/ \E r \in KycRoots : compliance' = [compliance EXCEPT !.kyc = SetRoot(@, r)]
         \/ \E r \in SanctionRoots : compliance' = [compliance EXCEPT !.sanction = SetRoot(@, r)]
         \/ \E r \in AssetsRoots : compliance' = [compliance EXCEPT !.assets = SetRoot(@, r)]
BY DEF Next, vars, issuerVars, Shield, ConfidentialTransfer, SettleDvp, Unshield, UpdateKycRoot,
       UpdateSanctionRoot, UpdateAssetsRoot, RegisterAsset, RegisterTransparent, Freeze,
       MintRecovery, CreateIntent, EscrowDeposit, SettleIntent, EscrowRefund, CloseLedger

LEMMA StepWindows ==
  ASSUME TypeOK, CurrentRootAccepted, [Next]_vars
  PROVE  CurrentRootAccepted'
<1>0. /\ compliance \in [kyc      : WindowedRoot(KycRoots),
                         sanction : WindowedRoot(SanctionRoots),
                         assets   : WindowedRoot(AssetsRoots)]
      /\ WindowOK(compliance.kyc) /\ WindowOK(compliance.sanction) /\ WindowOK(compliance.assets)
  BY DEF TypeOK, CurrentRootAccepted, WindowOK
<1>1. SUFFICES /\ WindowOK(compliance'.kyc)
               /\ WindowOK(compliance'.sanction)
               /\ WindowOK(compliance'.assets)
  BY DEF CurrentRootAccepted, WindowOK
<1>2. CASE UNCHANGED compliance
  BY <1>0, <1>2
<1>3. ASSUME NEW r \in KycRoots, compliance' = [compliance EXCEPT !.kyc = SetRoot(compliance.kyc, r)]
      PROVE  /\ WindowOK(compliance'.kyc)
             /\ WindowOK(compliance'.sanction)
             /\ WindowOK(compliance'.assets)
  <2>1. WindowOK(SetRoot(compliance.kyc, r))
    BY <1>0, SetRootOK
  <2> QED BY <1>0, <1>3, <2>1
<1>4. ASSUME NEW r \in SanctionRoots,
             compliance' = [compliance EXCEPT !.sanction = SetRoot(compliance.sanction, r)]
      PROVE  /\ WindowOK(compliance'.kyc)
             /\ WindowOK(compliance'.sanction)
             /\ WindowOK(compliance'.assets)
  <2>1. WindowOK(SetRoot(compliance.sanction, r))
    BY <1>0, SetRootOK
  <2> QED BY <1>0, <1>4, <2>1
<1>5. ASSUME NEW r \in AssetsRoots, compliance' = [compliance EXCEPT !.assets = SetRoot(compliance.assets, r)]
      PROVE  /\ WindowOK(compliance'.kyc)
             /\ WindowOK(compliance'.sanction)
             /\ WindowOK(compliance'.assets)
  <2>1. WindowOK(SetRoot(compliance.assets, r))
    BY <1>0, SetRootOK
  <2> QED BY <1>0, <1>5, <2>1
<1> QED BY <1>2, <1>3, <1>4, <1>5, ComplianceSteps

\* The latest compliance roots are accepted in every reachable state, whatever
\* the order and the repetitions the issuer publishes them in.
THEOREM CurrentRootsAccepted == Spec => []CurrentRootAccepted
<1>1. Init => CurrentRootAccepted
  BY SeedRootOK DEF Init, CurrentRootAccepted, WindowOK
<1> QED BY <1>1, InitTypes, StepTypes, StepWindows, PTL DEF Spec

----------------------------------------------------------------------------
(* Who receives, and what enters the trees.                                 *)

\* What may be added to the main tree, and to either tree.
Received(k) == IsChange(k) \/ Approved(log'["main"][k])
Listed(t, n) == Registered(n) \/ UnshieldChange(t, n)

\* The circuit's memberships are in roots the contract accepts.
LEMMA RecipientIsApproved ==
  ASSUME NEW pub, NEW n, CheckKycRoot(pub), CheckSanctionRoot(pub), Recipient(n.owner, pub)
  PROVE  Approved(n)
BY DEF Approved, CheckKycRoot, CheckSanctionRoot, Recipient, KycMembership, SanctionNonMembership,
       RootInWindow, WindowContains, Windowed, ToSet

LEMMA MintedIsApproved ==
  ASSUME TypeOK, NEW pub, NEW n, CheckKycRoot(pub), KycMembership(n.owner, pub), UNCHANGED spends
  PROVE  Approved(n)
<1>1. ~Spends
  <2>1. Len(spends) \in Nat
    BY LenProperties DEF TypeOK
  <2> QED BY <2>1 DEF Spends
<1> QED BY <1>1 DEF Approved, CheckKycRoot, KycMembership, RootInWindow, WindowContains, Windowed, ToSet

LEMMA MemberIsRegistered ==
  ASSUME NEW pub, NEW n, CheckAssetsRoot(pub), AssetsMembership(n.asset, n.value, pub)
  PROVE  Registered(n)
BY DEF Registered, CheckAssetsRoot, AssetsMembership, RootInWindow, WindowContains, Windowed, ToSet

\* What an insertion adds.
LEMMA InsertAdds ==
  ASSUME TypeOK, NEW t \in Trees, NEW leaves \in Seq(Note), NEW pub, Insert(t, pub, leaves)
  PROVE  \A u \in Trees : \A k \in NewLeaves(u) :
           /\ u = t
           /\ k - Len(log[t]) \in 1 .. Len(leaves)
           /\ log'[u][k] = leaves[k - Len(log[t])]
           /\ Len(log'[t]) = Len(log[t]) + Len(leaves)
<1>1. /\ log' = [log EXCEPT ![t] = log[t] \o leaves]
      /\ log \in [Trees -> Seq(Note)]
  BY DEF Insert, TypeOK
<1>2. ASSUME NEW u \in Trees, NEW k \in Len(log[u]) + 1 .. Len(log'[u])
      PROVE  /\ u = t
             /\ k - Len(log[t]) \in 1 .. Len(leaves)
             /\ log'[u][k] = leaves[k - Len(log[t])]
             /\ Len(log'[t]) = Len(log[t]) + Len(leaves)
  <2>0. Len(log[u]) \in Nat /\ Len(leaves) \in Nat
    BY <1>1, LenProperties
  <2>1. u = t
    BY <1>1, <1>2, <2>0
  <2>2. log'[t] = log[t] \o leaves
    BY <1>1
  <2>3. /\ Len(log[t] \o leaves) = Len(log[t]) + Len(leaves)
        /\ k \in 1 .. Len(log[t]) + Len(leaves)
        /\ k > Len(log[t])
    BY <1>1, <1>2, <2>0, <2>1, <2>2, ConcatProperties
  <2>4. (log[t] \o leaves)[k] = leaves[k - Len(log[t])]
    BY <1>1, <2>0, <2>1, <2>3, ConcatProperties
  <2>5. k - Len(log[t]) \in 1 .. Len(leaves)
    BY <2>0, <2>1, <2>3
  <2> QED BY <2>1, <2>2, <2>3, <2>4, <2>5
<1> QED BY <1>2 DEF NewLeaves

\* An insertion of one leaf adds that one.  Of two, the second one comes last.
AddsOne(t, n) == \A u \in Trees : \A k \in NewLeaves(u) : u = t /\ log'[u][k] = n

AddsTwo(t, n, m) ==
  \A u \in Trees : \A k \in NewLeaves(u) :
    u = t /\ (log'[u][k] = n \/ (log'[u][k] = m /\ k = Len(log'[t])))

LEMMA InsertAddsOneOrTwo ==
  ASSUME TypeOK, NEW t \in Trees, NEW pub, NEW out \in Note, NEW other \in Note
  PROVE  /\ Insert(t, pub, <<out>>) => AddsOne(t, out)
         /\ Insert(t, pub, <<out, other>>) => AddsTwo(t, out, other)
<1>1. /\ <<out>> \in Seq(Note) /\ Len(<<out>>) = 1 /\ <<out>>[1] = out
      /\ <<out, other>> \in Seq(Note) /\ Len(<<out, other>>) = 2
      /\ <<out, other>>[1] = out /\ <<out, other>>[2] = other
  OBVIOUS
<1>2. \A u \in Trees : Len(log[u]) \in Nat /\ NewLeaves(u) \subseteq Int
  BY LenProperties DEF TypeOK, NewLeaves
<1>3. ASSUME Insert(t, pub, <<out>>), NEW u \in Trees, NEW k \in NewLeaves(u)
      PROVE  u = t /\ log'[u][k] = out
  <2>1. /\ u = t
        /\ k - Len(log[t]) \in 1 .. 1
        /\ log'[u][k] = <<out>>[k - Len(log[t])]
    BY <1>1, <1>3, InsertAdds
  <2>2. k - Len(log[t]) = 1
    BY <1>2, <2>1
  <2> QED BY <1>1, <2>1, <2>2
<1>4. ASSUME Insert(t, pub, <<out, other>>), NEW u \in Trees, NEW k \in NewLeaves(u)
      PROVE  u = t /\ (log'[u][k] = out \/ (log'[u][k] = other /\ k = Len(log'[t])))
  <2>1. /\ u = t
        /\ k - Len(log[t]) \in 1 .. 2
        /\ log'[u][k] = <<out, other>>[k - Len(log[t])]
        /\ Len(log'[t]) = Len(log[t]) + 2
    BY <1>1, <1>4, InsertAdds
  <2>2. k \in Int /\ Len(log[t]) \in Nat
    BY <1>2
  <2>3. k - Len(log[t]) = 1 \/ k - Len(log[t]) = 2
    BY <2>1, <2>2
  <2>4. CASE k - Len(log[t]) = 1
    BY <1>1, <2>1, <2>4
  <2>5. CASE k - Len(log[t]) = 2
    <3>1. k = Len(log'[t])
      BY <2>1, <2>2, <2>5
    <3> QED BY <1>1, <2>1, <2>5, <3>1
  <2> QED BY <2>3, <2>4, <2>5
<1> QED BY <1>3, <1>4 DEF AddsOne, AddsTwo

\* The call a step records is the last one of the history.
LEMMA InsertedIsLast ==
  ASSUME TypeOK, NEW call \in Calls, NEW legs \in SUBSET (IntentIds \X Legs),
         NEW notes \in Seq(Note), NEW fees \in Seq(Field),
         InsertNullifiers(call, legs, notes, fees)
  PROVE  /\ Spends
         /\ Last(spends') = [call |-> call, legs |-> legs, notes |-> notes, fees |-> fees]
<1> DEFINE s == [call |-> call, legs |-> legs, notes |-> notes, fees |-> fees]
<1>1. s \in Spending
  BY DEF Spending
<1>2. spends \in Seq(Spending) /\ spends' = Append(spends, s)
  BY DEF TypeOK, InsertNullifiers
<1> HIDE DEF s
<1>3. /\ Len(Append(spends, s)) = Len(spends) + 1
      /\ Append(spends, s)[Len(spends) + 1] = s
      /\ Len(spends) \in Nat
  BY <1>1, <1>2, AppendProperties, LenProperties
<1>4. Spends /\ Last(spends') = s
  BY <1>2, <1>3 DEF Spends, Last
<1> QED BY <1>4 DEF s

LEMMA StepReceivesListed ==
  ASSUME TypeOK, [Next]_vars
  PROVE  /\ \A k \in NewLeaves("main") : Received(k)
         /\ \A t \in Trees : \A k \in NewLeaves(t) : Listed(t, log'[t][k])
<1> DEFINE Goal == /\ \A k \in NewLeaves("main") : Received(k)
                   /\ \A t \in Trees : \A k \in NewLeaves(t) : Listed(t, log'[t][k])
<1>0. /\ {"main", "escrow"} = Trees
      /\ "main" # "escrow"
      /\ \A k \in Nat : NewNotes(k) \subseteq Note
      /\ \A i \in IntentIds, leg \in Legs :
            /\ Terms[i].escrow[leg] \in Note
            /\ Terms[i].out[leg] \in Note
            /\ Terms[i].refund[leg] \in Note
  BY NewNotesAreNotes, TermsAreNotes DEF Trees
\* One note, and two, inserted into the main tree.
<1>1. ASSUME NEW pub, NEW out \in Note, Insert("main", pub, <<out>>), Approved(out), Registered(out)
      PROVE  Goal
  <2>1. AddsOne("main", out)
    BY <1>0, <1>1, InsertAddsOneOrTwo
  <2> QED BY <1>0, <1>1, <2>1, Zenon DEF AddsOne, Received, Listed
<1>2. ASSUME NEW pub, NEW out0 \in Note, NEW out1 \in Note, Insert("main", pub, <<out0, out1>>),
             Approved(out0), Registered(out0), Registered(out1),
             Approved(out1) \/ (Spends /\ Last(spends').call = "confidential_transfer")
      PROVE  Goal
  <2>1. AddsTwo("main", out0, out1)
    BY <1>0, <1>2, InsertAddsOneOrTwo
  <2>2. ASSUME NEW k \in NewLeaves("main")
        PROVE  Received(k)
    BY <1>0, <1>2, <2>1 DEF AddsTwo, Received, IsChange
  <2>3. ASSUME NEW t \in Trees, NEW k \in NewLeaves(t)
        PROVE  Listed(t, log'[t][k])
    BY <1>0, <1>2, <2>1, Zenon DEF AddsTwo, Listed
  <2> QED BY <2>2, <2>3
<1>3. CASE Shield
  <2>1. PICK pub \in Observations("main"), out \in NewNotes(1) :
           /\ CheckKycRoot(pub) /\ CheckAssetsRoot(pub)
           /\ ShieldStatement(out, pub)
           /\ Insert("main", pub, <<out>>)
    BY <1>3 DEF Shield
  <2>2. Approved(out) /\ Registered(out)
    BY <1>3, <2>1, MintedIsApproved, MemberIsRegistered DEF Shield, ShieldStatement
  <2> QED BY <1>0, <1>1, <2>1, <2>2
<1>4. CASE MintRecovery
  <2>1. PICK pub \in Observations("main"), out \in NewNotes(1) :
           /\ CheckKycRoot(pub) /\ CheckAssetsRoot(pub)
           /\ ShieldStatement(out, pub)
           /\ Insert("main", pub, <<out>>)
    BY <1>4 DEF MintRecovery
  <2>2. Approved(out) /\ Registered(out)
    BY <1>4, <2>1, MintedIsApproved, MemberIsRegistered DEF MintRecovery, ShieldStatement
  <2> QED BY <1>0, <1>1, <2>1, <2>2
<1>5. CASE ConfidentialTransfer
  <2>1. PICK anchor \in Anchors, pub \in Observations("main") :
           /\ CheckSpendRoots(pub)
           /\ \E in0, in1 \in ToSet(anchor) :
                 \E out0 \in NewNotes(1), out1 \in NewNotes(2), fee \in Field :
                     /\ TransferOutputs(in0, in1, out0, out1, fee, pub)
                     /\ InsertNullifiers("confidential_transfer", {}, <<in0, in1>>, <<fee>>)
                     /\ Insert("main", pub, <<out0, out1>>)
    BY <1>5 DEF ConfidentialTransfer
  <2>2. PICK in0 \in ToSet(anchor), in1 \in ToSet(anchor), out0 \in NewNotes(1), out1 \in NewNotes(2),
             fee \in Field :
           /\ TransferOutputs(in0, in1, out0, out1, fee, pub)
           /\ InsertNullifiers("confidential_transfer", {}, <<in0, in1>>, <<fee>>)
           /\ Insert("main", pub, <<out0, out1>>)
    BY <2>1, Zenon
  <2>3. out0 \in Note /\ out1 \in Note
    BY <1>0, <2>2
  <2>4. Spends /\ Last(spends').call = "confidential_transfer"
    <3>1. <<in0, in1>> \in Seq(Note) /\ <<fee>> \in Seq(Field) /\ "confidential_transfer" \in Calls
          /\ {} \in SUBSET (IntentIds \X Legs)
      BY AnchoredNotesAreCommitted DEF Calls
    <3>2. /\ Spends
          /\ Last(spends') = [call |-> "confidential_transfer", legs |-> {},
                              notes |-> <<in0, in1>>, fees |-> <<fee>>]
      BY <2>2, <3>1, InsertedIsLast
    <3> QED BY <3>2
  <2>5. Approved(out0) /\ Registered(out0) /\ Registered(out1)
    <3>1. CheckKycRoot(pub) /\ CheckSanctionRoot(pub) /\ CheckAssetsRoot(pub)
      BY <2>1 DEF CheckSpendRoots
    <3>2. /\ Recipient(out0.owner, pub)
          /\ AssetsMembership(out0.asset, out0.value, pub)
          /\ AssetsMembership(out1.asset, out1.value, pub)
      BY <2>2 DEF TransferOutputs
    <3> QED BY <3>1, <3>2, RecipientIsApproved, MemberIsRegistered
  <2> QED BY <1>2, <2>2, <2>3, <2>4, <2>5
<1>6. CASE SettleDvp
  <2>1. PICK anchor \in Anchors, pub \in Observations("main") :
           /\ CheckSpendRoots(pub)
           /\ \E inX, inY \in ToSet(anchor) :
                 \E outX \in NewNotes(1), feeX \in Field : \E outY \in NewNotes(2), feeY \in Field :
                     /\ DvpStatement(anchor, inX, inY, outX, outY, feeX, feeY, pub)
                     /\ Insert("main", pub, <<outX, outY>>)
    BY <1>6 DEF SettleDvp
  <2>2. PICK inX \in ToSet(anchor), inY \in ToSet(anchor),
             outX \in NewNotes(1), feeX \in Field, outY \in NewNotes(2), feeY \in Field :
           /\ DvpStatement(anchor, inX, inY, outX, outY, feeX, feeY, pub)
           /\ Insert("main", pub, <<outX, outY>>)
    BY <2>1, Zenon
  <2>3. Approved(outX) /\ Registered(outX) /\ Approved(outY) /\ Registered(outY)
    BY <2>1, <2>2, RecipientIsApproved, MemberIsRegistered DEF DvpStatement, DvpLegStatement, CheckSpendRoots
  <2> QED BY <1>0, <1>2, <2>2, <2>3
<1>7. CASE Unshield
  <2>1. PICK anchor, pub, in :
           /\ anchor \in Anchors /\ pub \in Observations("main")
           /\ in \in ToSet(anchor)
           /\ \E recipient \in accounts, amount \in Value, fee \in Field,
                 change \in {<< >>} \cup {<<c>> : c \in NewNotes(1)} :
                 /\ UnshieldStatement(anchor, in, amount, recipient, change, fee, pub)
                 /\ InsertNullifiers("unshield", {}, <<in>>, <<fee>>)
                 /\ Insert("main", pub, change)
    BY <1>7, Zenon DEF Unshield
  <2>2. PICK recipient \in accounts, amount \in Value, fee \in Field,
             change \in {<< >>} \cup {<<c>> : c \in NewNotes(1)} :
           /\ UnshieldStatement(anchor, in, amount, recipient, change, fee, pub)
           /\ InsertNullifiers("unshield", {}, <<in>>, <<fee>>)
           /\ Insert("main", pub, change)
    BY <2>1, Zenon
  <2>3. CASE change = << >>
    <3>1. << >> \in Seq(Note) /\ Len(<< >>) = 0
      OBVIOUS
    <3>2. \A u \in Trees : \A k \in NewLeaves(u) : k - Len(log["main"]) \in 1 .. 0
      BY <1>0, <2>2, <2>3, <3>1, InsertAdds
    <3>3. \A u \in Trees : NewLeaves(u) = {}
      BY <3>2
    <3> QED BY <1>0, <3>3
  <2>4. ASSUME NEW c \in NewNotes(1), change = <<c>>
        PROVE  Goal
    <3>1. c \in Note /\ in \in Note /\ AddsOne("main", c)
      BY <1>0, <2>1, <2>2, <2>4, AnchoredNotesAreCommitted, InsertAddsOneOrTwo
    <3>2. Spends /\ Last(spends') = [call |-> "unshield", legs |-> {}, notes |-> <<in>>, fees |-> <<fee>>]
      <4>1. <<in>> \in Seq(Note) /\ <<fee>> \in Seq(Field) /\ "unshield" \in Calls
            /\ {} \in SUBSET (IntentIds \X Legs)
        BY <2>2, <3>1 DEF Calls
      <4> QED BY <2>2, <4>1, InsertedIsLast
    <3>3. change # << >> /\ change[1] = c /\ 1 \in DOMAIN change
      BY <2>4
    <3>4. c.asset = in.asset /\ Balanced(in.value, amount + c.value, fee)
      BY <2>2, <3>3 DEF UnshieldStatement
    <3>5. fee \in Value => c.value <= in.value
      <4>1. in.value \in Nat /\ amount + c.value \in Nat /\ c.value \in Nat /\ amount \in Nat
            /\ in.value <= 2 * MAX_VALUE /\ amount + c.value <= 2 * MAX_VALUE
        BY <2>2, <3>1, NotesAssumption DEF Note, Value
      <4>2. fee \in Value => in.value = (amount + c.value) + fee /\ fee \in Nat
        BY <3>4, <4>1, BalancedValues, NotesAssumption DEF Value
      <4> QED BY <4>1, <4>2
    <3>6. UnshieldChange("main", c)
      BY <3>2, <3>4, <3>5 DEF UnshieldChange
    <3>7. ASSUME NEW k \in NewLeaves("main")
          PROVE  k = Len(log'["main"])
      <4>1. <<c>> \in Seq(Note) /\ Len(<<c>>) = 1 /\ Len(log["main"]) \in Nat
        BY <1>0, <3>1, LenProperties DEF TypeOK
      <4>2. Insert("main", pub, <<c>>) /\ "main" \in Trees
        BY <1>0, <2>2, <2>4
      <4>3. k - Len(log["main"]) \in 1 .. 1 /\ Len(log'["main"]) = Len(log["main"]) + 1
        BY <4>1, <4>2, InsertAdds
      <4>4. k \in Int
        BY DEF NewLeaves
      <4> QED BY <4>1, <4>3, <4>4
    <3>8. \A k \in NewLeaves("main") : Received(k)
      BY <3>2, <3>7 DEF Received, IsChange
    <3>9. \A t \in Trees : \A k \in NewLeaves(t) : t = "main" /\ log'[t][k] = c
      BY <3>1, Zenon DEF AddsOne
    <3> QED BY <3>6, <3>8, <3>9 DEF Listed
  <2> QED BY <2>2, <2>3, <2>4
<1>8. ASSUME NEW i \in IntentIds, NEW leg \in Legs, EscrowDeposit(i, leg)
      PROVE  Goal
  <2>1. PICK anchor \in Anchors, pub \in Observations("escrow") :
           /\ CheckAssetsRoot(pub)
           /\ \E in \in ToSet(anchor) : \E fee \in Field :
                 EscrowLegStatement(FALSE, anchor, in, Terms[i].escrow[leg], fee, pub)
           /\ Insert("escrow", pub, <<Terms[i].escrow[leg]>>)
    BY <1>8 DEF EscrowDeposit
  <2> DEFINE out == Terms[i].escrow[leg]
  <2>2. Registered(out)
    BY <2>1, MemberIsRegistered DEF EscrowLegStatement
  <2>3. "escrow" \in Trees /\ out \in Note /\ Insert("escrow", pub, <<out>>)
    BY <1>0, <2>1
  <2> HIDE DEF out
  <2>4. AddsOne("escrow", out)
    BY <2>3, InsertAddsOneOrTwo
  <2> QED BY <1>0, <2>2, <2>4, Zenon DEF AddsOne, Listed
<1>9. ASSUME NEW i \in IntentIds, SettleIntent(i)
      PROVE  Goal
  <2>1. PICK anchor \in Anchors, pub \in Observations("main") :
           /\ CheckSpendRoots(pub)
           /\ \E inX, inY \in ToSet(anchor) : \E feeX, feeY \in Field :
                DvpStatement(anchor, inX, inY, Terms[i].out["b"], Terms[i].out["a"], feeX, feeY, pub)
           /\ Insert("main", pub, <<Terms[i].out["b"], Terms[i].out["a"]>>)
    BY <1>9 DEF SettleIntent
  <2>2. \A leg \in Legs : Approved(Terms[i].out[leg]) /\ Registered(Terms[i].out[leg])
    BY <2>1, RecipientIsApproved, MemberIsRegistered DEF DvpStatement, DvpLegStatement, CheckSpendRoots, Legs
  <2>3. "a" \in Legs /\ "b" \in Legs
    BY DEF Legs
  <2> QED BY <1>0, <1>2, <2>1, <2>2, <2>3
<1>10. ASSUME NEW i \in IntentIds, NEW leg \in Legs, EscrowRefund(i, leg)
       PROVE  Goal
  <2>1. PICK anchor \in Anchors, pub \in Observations("main") :
           /\ CheckSpendRoots(pub)
           /\ \E in \in ToSet(anchor) : \E fee \in Field :
                 EscrowLegStatement(TRUE, anchor, in, Terms[i].refund[leg], fee, pub)
           /\ Insert("main", pub, <<Terms[i].refund[leg]>>)
    BY <1>10 DEF EscrowRefund
  <2>2. Approved(Terms[i].refund[leg]) /\ Registered(Terms[i].refund[leg])
    BY <2>1, RecipientIsApproved, MemberIsRegistered DEF EscrowLegStatement, CheckSpendRoots
  <2> QED BY <1>0, <1>1, <2>1, <2>2
<1>11. CASE \/ UpdateKycRoot \/ UpdateSanctionRoot \/ UpdateAssetsRoot
            \/ RegisterAsset \/ RegisterTransparent \/ Freeze \/ CloseLedger
            \/ (\E i \in IntentIds : CreateIntent(i)) \/ UNCHANGED vars
  <2>1. UNCHANGED log
    BY <1>11 DEF UpdateKycRoot, UpdateSanctionRoot, UpdateAssetsRoot, RegisterAsset,
                 RegisterTransparent, Freeze, CloseLedger, CreateIntent, vars
  <2>2. \A t \in Trees : Len(log[t]) \in Nat
    BY LenProperties DEF TypeOK
  <2>3. \A t \in Trees : NewLeaves(t) = {}
    BY <2>1, <2>2 DEF NewLeaves
  <2> QED BY <1>0, <2>3
<1> QED BY <1>3, <1>4, <1>5, <1>6, <1>7, <1>8, <1>9, <1>10, <1>11 DEF Next

\* Only the change of a transfer or an unshield, whose owner the circuits leave free,
\* can go to an owner the accepted kyc roots do not approve, or whom every accepted
\* sanction root lists; every other leaf, of any call, goes to an approved one.
THEOREM RevokedOwnersReceiveNothing == Spec => RevokedReceivesNothing
<1>1. TypeOK /\ [Next]_vars => [\A k \in NewLeaves("main") : Received(k)]_vars
  BY StepReceivesListed
<1> QED BY <1>1, TypeCorrect, PTL DEF Spec, RevokedReceivesNothing, Received

\* Both trees take only notes of listed assets within their limit, and the change of
\* an unshield: of the asset spent, and not worth more than the note it is the change
\* of unless the fee wraps the balance.
THEOREM OnlyListedAssetsEnter == Spec => OnlyListedAssets
<1>1. TypeOK /\ [Next]_vars =>
        [\A t \in Trees : \A k \in NewLeaves(t) : Listed(t, log'[t][k])]_vars
  BY StepReceivesListed
<1> QED BY <1>1, TypeCorrect, PTL DEF Spec, OnlyListedAssets, Listed

----------------------------------------------------------------------------
(* The two-phase settlement, for any number of intents, parties and         *)
(* deadlines: no intent both settles and refunds, every intent is an atomic *)
(* swap of its two legs, and only a settlement and a refund take notes out  *)
(* of escrow.                                                               *)

\* An identifier without an intent has the blank record.
BlankUntilCreated == \A i \in IntentIds : ~intents[i].exists => intents[i] = NoIntent

IntentsOK == EscrowExclusive /\ BlankUntilCreated

\* What an intent's record becomes, by the entrypoint that changes it.
Created(i) ==
  \E deadline \in Deadlines :
    /\ deadline > ledger
    /\ intents' = [intents EXCEPT ![i] = [NoIntent EXCEPT !.exists = TRUE, !.deadline = deadline]]

Deposited(i, leg) ==
  DepositOpen(i, leg) /\ intents' = [intents EXCEPT ![i].deposited = @ \cup {leg}]

Settled(i) ==
  SettleOpen(i) /\ intents' = [intents EXCEPT ![i].settled = TRUE]

Refunded(i, leg) ==
  RefundOpen(i, leg) /\ intents' = [intents EXCEPT ![i].refunded = @ \cup {leg}]

\* Every step leaves the intents and the ledger alone, closes a ledger, or
\* changes the record of one intent in one of four ways.
LEMMA IntentSteps ==
  ASSUME [Next]_vars
  PROVE  \/ UNCHANGED <<intents, ledger>>
         \/ ledger' = ledger + 1 /\ UNCHANGED intents
         \/ /\ UNCHANGED ledger
            /\ \E i \in IntentIds :
                 \/ ~intents[i].exists /\ Created(i)
                 \/ \E leg \in Legs : EscrowDeposit(i, leg) /\ Deposited(i, leg)
                 \/ \E leg \in Legs : Refunded(i, leg)
                 \/ Settled(i)
<1>1. CASE \/ Shield \/ ConfidentialTransfer \/ SettleDvp \/ Unshield
           \/ UpdateKycRoot \/ UpdateSanctionRoot \/ UpdateAssetsRoot \/ RegisterAsset
           \/ RegisterTransparent \/ Freeze \/ MintRecovery \/ UNCHANGED vars
  BY <1>1 DEF Shield, ConfidentialTransfer, SettleDvp, Unshield, UpdateKycRoot,
              UpdateSanctionRoot, UpdateAssetsRoot, RegisterAsset, RegisterTransparent,
              Freeze, MintRecovery, vars
<1>2. CASE CloseLedger
  BY <1>2 DEF CloseLedger
<1>3. ASSUME NEW i \in IntentIds, CreateIntent(i)
      PROVE  ~intents[i].exists /\ Created(i) /\ UNCHANGED ledger
  BY <1>3 DEF CreateIntent, Created
<1>4. ASSUME NEW i \in IntentIds, NEW leg \in Legs, EscrowDeposit(i, leg)
      PROVE  Deposited(i, leg) /\ UNCHANGED ledger
  BY <1>4 DEF EscrowDeposit, Deposited
<1>5. ASSUME NEW i \in IntentIds, SettleIntent(i)
      PROVE  Settled(i) /\ UNCHANGED ledger
  BY <1>5 DEF SettleIntent, Settled
<1>6. ASSUME NEW i \in IntentIds, NEW leg \in Legs, EscrowRefund(i, leg)
      PROVE  Refunded(i, leg) /\ UNCHANGED ledger
  BY <1>6 DEF EscrowRefund, Refunded
<1> QED BY <1>1, <1>2, <1>3, <1>4, <1>5, <1>6 DEF Next

----------------------------------------------------------------------------
(* No intent both settles and refunds.                                      *)

LEMMA InitIntents == Init => IntentsOK
BY DEF Init, IntentsOK, EscrowExclusive, BlankUntilCreated, NoIntent

LEMMA StepIntents ==
  ASSUME TypeOK, IntentsOK, [Next]_vars
  PROVE  IntentsOK'
<1>0. /\ intents \in [IntentIds -> Intent]
      /\ ledger \in Nat
  BY DEF TypeOK
<1>1. CASE UNCHANGED <<intents, ledger>>
  BY <1>1 DEF IntentsOK, EscrowExclusive, BlankUntilCreated
<1>2. CASE ledger' = ledger + 1 /\ UNCHANGED intents
  BY <1>0, <1>2 DEF IntentsOK, EscrowExclusive, BlankUntilCreated, Intent
<1> DEFINE OK(r) == /\ r.exists
                    /\ r.settled => r.deposited = Legs /\ r.refunded = {}
                    /\ r.refunded # {} => r.refunded \subseteq r.deposited /\ ledger >= r.deadline
\* One record changes, to one that is as it should be.
<1>3. ASSUME UNCHANGED ledger, NEW i \in IntentIds, NEW r, OK(r),
             intents' = [intents EXCEPT ![i] = r]
      PROVE  IntentsOK'
  <2>1. intents'[i] = r /\ \A j \in IntentIds \ {i} : intents'[j] = intents[j]
    BY <1>0, <1>3
  <2>2. ASSUME NEW j \in IntentIds
        PROVE  /\ intents'[j].settled => intents'[j].deposited = Legs /\ intents'[j].refunded = {}
               /\ intents'[j].refunded # {} =>
                    intents'[j].refunded \subseteq intents'[j].deposited /\ ledger' >= intents'[j].deadline
               /\ ~intents'[j].exists => intents'[j] = NoIntent
    <3>1. CASE j = i
      BY <1>3, <2>1, <3>1
    <3>2. CASE j # i
      BY <1>3, <2>1, <3>2 DEF IntentsOK, EscrowExclusive, BlankUntilCreated
    <3> QED BY <3>1, <3>2
  <2> QED BY <2>2 DEF IntentsOK, EscrowExclusive, BlankUntilCreated
<1>4. ASSUME UNCHANGED ledger, NEW i \in IntentIds, Created(i)
      PROVE  IntentsOK'
  <2>1. PICK deadline \in Deadlines :
           intents' = [intents EXCEPT ![i] = [NoIntent EXCEPT !.exists = TRUE, !.deadline = deadline]]
    BY <1>4 DEF Created
  <2>2. OK([NoIntent EXCEPT !.exists = TRUE, !.deadline = deadline])
    BY DEF NoIntent
  <2> QED BY <1>3, <1>4, <2>1, <2>2
<1>5. ASSUME NEW i \in IntentIds, intents[i].exists
      PROVE  /\ intents[i] \in Intent
             /\ OK(intents[i])
  BY <1>0, <1>5 DEF IntentsOK, EscrowExclusive
<1>6. ASSUME UNCHANGED ledger, NEW i \in IntentIds, NEW leg \in Legs, Deposited(i, leg)
      PROVE  IntentsOK'
  <2>1. intents' = [intents EXCEPT ![i] = [intents[i] EXCEPT !.deposited = intents[i].deposited \cup {leg}]]
    BY <1>6 DEF Deposited
  <2>2. OK([intents[i] EXCEPT !.deposited = intents[i].deposited \cup {leg}])
    BY <1>5, <1>6 DEF Deposited, DepositOpen, Matches, Intent
  <2> QED BY <1>3, <1>6, <2>1, <2>2
<1>7. ASSUME UNCHANGED ledger, NEW i \in IntentIds, Settled(i)
      PROVE  IntentsOK'
  <2>1. intents' = [intents EXCEPT ![i] = [intents[i] EXCEPT !.settled = TRUE]]
    BY <1>7 DEF Settled
  <2>2. OK([intents[i] EXCEPT !.settled = TRUE])
    BY <1>0, <1>5, <1>7 DEF Settled, SettleOpen, Intent
  <2> QED BY <1>3, <1>7, <2>1, <2>2
<1>8. ASSUME UNCHANGED ledger, NEW i \in IntentIds, NEW leg \in Legs, Refunded(i, leg)
      PROVE  IntentsOK'
  <2>1. intents' = [intents EXCEPT ![i] = [intents[i] EXCEPT !.refunded = intents[i].refunded \cup {leg}]]
    BY <1>8 DEF Refunded
  <2>2. OK([intents[i] EXCEPT !.refunded = intents[i].refunded \cup {leg}])
    BY <1>5, <1>8 DEF Refunded, RefundOpen, Matches, Intent
  <2> QED BY <1>3, <1>8, <2>1, <2>2
<1> QED BY <1>1, <1>2, <1>4, <1>6, <1>7, <1>8, IntentSteps

\* No intent is settled and refunded, nor settled without both legs, nor refunded
\* a leg it does not hold or before its deadline.
THEOREM SettleOrRefund == Spec => []EscrowExclusive
<1>1. IntentsOK => EscrowExclusive
  BY DEF IntentsOK
<1> QED BY <1>1, InitTypes, StepTypes, InitIntents, StepIntents, PTL DEF Spec

----------------------------------------------------------------------------
(* Every intent is an atomic swap.                                          *)

StatusOf(i) == [leg \in Legs |-> LegStatus(i, leg)]
Expired(i) == intents[i].exists /\ ledger >= intents[i].deadline

LEMMA InitSwaps == Init => \A i \in IntentIds : Swap(i)!Init
BY DEF Init, NoIntent, Swap!Init, LegStatus

\* A step that does not touch an intent's record, nor its deadline, is no step of
\* its swap.
LEMMA OtherIntentsStutter ==
  ASSUME NEW i \in IntentIds, intents'[i] = intents[i], UNCHANGED ledger
  PROVE  UNCHANGED Swap(i)!vars
BY DEF Swap!vars, LegStatus

\* The status of a leg, by what its intent's record says.
LEMMA LegStatusCases ==
  ASSUME NEW i \in IntentIds, NEW leg \in Legs
  PROVE  /\ intents[i].settled => LegStatus(i, leg) = "swapped"
         /\ ~intents[i].settled =>
              /\ leg \in intents[i].refunded => LegStatus(i, leg) = "returned"
              /\ leg \in intents[i].deposited \ intents[i].refunded => LegStatus(i, leg) = "held"
              /\ leg \notin intents[i].deposited \cup intents[i].refunded => LegStatus(i, leg) = "empty"
BY DEF LegStatus

LEMMA NextLegStatusCases ==
  ASSUME NEW i \in IntentIds, NEW leg \in Legs
  PROVE  /\ intents'[i].settled => LegStatus(i, leg)' = "swapped"
         /\ ~intents'[i].settled =>
              /\ leg \in intents'[i].refunded => LegStatus(i, leg)' = "returned"
              /\ leg \in intents'[i].deposited \ intents'[i].refunded => LegStatus(i, leg)' = "held"
              /\ leg \notin intents'[i].deposited \cup intents'[i].refunded => LegStatus(i, leg)' = "empty"
BY DEF LegStatus

LEMMA StepSwaps ==
  ASSUME TypeOK, IntentsOK, [Next]_vars, NEW i \in IntentIds
  PROVE  [Swap(i)!Next]_(Swap(i)!vars)
<1>0. /\ intents \in [IntentIds -> Intent]
      /\ ledger \in Nat
      /\ intents[i].deadline \in Nat
  BY DEF TypeOK, Intent
<1>1. CASE UNCHANGED <<intents, ledger>>
  BY <1>1, OtherIntentsStutter
<1>2. CASE ledger' = ledger + 1 /\ UNCHANGED intents
  <2>1. UNCHANGED StatusOf(i)
    BY <1>2 DEF StatusOf, LegStatus
  <2>2. \/ UNCHANGED Expired(i)
        \/ ~Expired(i) /\ Expired(i)' = TRUE
    BY <1>0, <1>2 DEF Expired
  <2> QED BY <2>1, <2>2 DEF StatusOf, Expired, Swap!Next, Swap!Expire, Swap!vars
<1>3. ASSUME UNCHANGED ledger, NEW j \in IntentIds, ~intents[j].exists, Created(j)
      PROVE  UNCHANGED Swap(i)!vars
  <2>1. CASE i # j
    BY <1>0, <1>3, <2>1, OtherIntentsStutter DEF Created
  <2>2. CASE i = j
    <3>1. PICK deadline \in Deadlines :
             /\ deadline > ledger
             /\ intents' = [intents EXCEPT ![i] = [NoIntent EXCEPT !.exists = TRUE, !.deadline = deadline]]
      BY <1>3, <2>2 DEF Created
    <3>2. /\ intents[i] = NoIntent
          /\ intents'[i] = [NoIntent EXCEPT !.exists = TRUE, !.deadline = deadline]
      BY <1>0, <1>3, <2>2, <3>1 DEF IntentsOK, BlankUntilCreated
    <3>3. ASSUME NEW leg \in Legs
          PROVE  LegStatus(i, leg) = "empty" /\ LegStatus(i, leg)' = "empty"
      <4>1. ~intents[i].settled /\ leg \notin intents[i].deposited \cup intents[i].refunded
        BY <3>2 DEF NoIntent
      <4>2. ~intents'[i].settled /\ leg \notin intents'[i].deposited \cup intents'[i].refunded
        BY <3>2 DEF NoIntent
      <4> QED BY <4>1, <4>2, LegStatusCases, NextLegStatusCases
    <3>4. Expired(i) = FALSE /\ Expired(i)' = FALSE
      BY <1>0, <1>3, <3>1, <3>2, FinnesAssumption DEF Expired, NoIntent
    <3> QED BY <3>3, <3>4 DEF Expired, Swap!vars
  <2> QED BY <2>1, <2>2
<1>4. ASSUME UNCHANGED ledger, NEW j \in IntentIds, NEW leg \in Legs, Deposited(j, leg)
      PROVE  [Swap(i)!Next]_(Swap(i)!vars)
  <2>1. CASE i # j
    BY <1>0, <1>4, <2>1, OtherIntentsStutter DEF Deposited
  <2>2. CASE i = j
    <3>1. intents'[i] = [intents[i] EXCEPT !.deposited = intents[i].deposited \cup {leg}]
      BY <1>0, <1>4, <2>2 DEF Deposited
    <3>2. /\ intents[i].exists /\ ~intents[i].settled
          /\ leg \notin intents[i].deposited \cup intents[i].refunded
      BY <1>4, <2>2 DEF Deposited, DepositOpen, Matches, IntentsOK, EscrowExclusive
    <3>3. LegStatus(i, leg) = "empty" /\ LegStatus(i, leg)' = "held"
      BY <1>0, <3>1, <3>2, LegStatusCases, NextLegStatusCases DEF Intent
    <3>4. \A l \in Legs \ {leg} : UNCHANGED LegStatus(i, l)
      BY <1>0, <3>1, <3>2 DEF Intent, LegStatus
    <3>5. UNCHANGED Expired(i)
      BY <1>0, <1>4, <3>1 DEF Expired, Intent
    <3>6. StatusOf(i)' = [StatusOf(i) EXCEPT ![leg] = "held"]
      BY <3>3, <3>4 DEF StatusOf
    <3>7. Swap(i)!Hold(leg)
      BY <3>3, <3>5, <3>6 DEF StatusOf, Expired, Swap!Hold
    <3> QED BY <3>7 DEF Swap!Next
  <2> QED BY <2>1, <2>2
<1>5. ASSUME UNCHANGED ledger, NEW j \in IntentIds, Settled(j)
      PROVE  [Swap(i)!Next]_(Swap(i)!vars)
  <2>1. CASE i # j
    BY <1>0, <1>5, <2>1, OtherIntentsStutter DEF Settled
  <2>2. CASE i = j
    <3>1. intents'[i] = [intents[i] EXCEPT !.settled = TRUE]
      BY <1>0, <1>5, <2>2 DEF Settled
    <3>2. /\ ~intents[i].settled /\ intents[i].deposited = Legs
          /\ ledger < intents[i].deadline
      BY <1>5, <2>2 DEF Settled, SettleOpen
    <3>3. intents[i].refunded = {}
      BY <1>0, <3>2 DEF IntentsOK, EscrowExclusive
    <3>4. \A leg \in Legs : LegStatus(i, leg) = "held" /\ LegStatus(i, leg)' = "swapped"
      BY <1>0, <3>1, <3>2, <3>3, LegStatusCases, NextLegStatusCases DEF Intent
    <3>5. Expired(i) = FALSE /\ Expired(i)' = FALSE
      BY <1>0, <1>5, <3>1, <3>2 DEF Expired, Intent
    <3>6. Swap(i)!Swap
      BY <3>4, <3>5 DEF Expired, Swap!Swap
    <3> QED BY <3>6 DEF Swap!Next
  <2> QED BY <2>1, <2>2
<1>6. ASSUME UNCHANGED ledger, NEW j \in IntentIds, NEW leg \in Legs, Refunded(j, leg)
      PROVE  [Swap(i)!Next]_(Swap(i)!vars)
  <2>1. CASE i # j
    BY <1>0, <1>6, <2>1, OtherIntentsStutter DEF Refunded
  <2>2. CASE i = j
    <3>1. intents'[i] = [intents[i] EXCEPT !.refunded = intents[i].refunded \cup {leg}]
      BY <1>0, <1>6, <2>2 DEF Refunded
    <3>2. /\ ~intents[i].settled /\ intents[i].exists
          /\ leg \in intents[i].deposited \ intents[i].refunded
          /\ ledger >= intents[i].deadline
      BY <1>6, <2>2 DEF Refunded, RefundOpen, Matches
    <3>3. LegStatus(i, leg) = "held" /\ LegStatus(i, leg)' = "returned"
      BY <1>0, <3>1, <3>2, LegStatusCases, NextLegStatusCases DEF Intent
    <3>4. \A l \in Legs \ {leg} : UNCHANGED LegStatus(i, l)
      BY <1>0, <3>1, <3>2 DEF Intent, LegStatus
    <3>5. Expired(i) = TRUE /\ Expired(i)' = TRUE
      BY <1>0, <1>6, <3>1, <3>2 DEF Expired, Intent
    <3>6. StatusOf(i)' = [StatusOf(i) EXCEPT ![leg] = "returned"]
      BY <3>3, <3>4 DEF StatusOf
    <3>7. Swap(i)!Return(leg)
      BY <3>3, <3>5, <3>6 DEF StatusOf, Expired, Swap!Return
    <3> QED BY <3>7 DEF Swap!Next
  <2> QED BY <2>1, <2>2
<1> QED BY <1>1, <1>2, <1>3, <1>4, <1>5, <1>6, IntentSteps

\* Every intent implements the atomic swap: its two legs are exchanged together
\* before the deadline, or each held leg goes back after it.
THEOREM IntentsSwapAtomically == Spec => SwapsAtomically
<1>1. TypeOK /\ IntentsOK /\ [Next]_vars =>
        [\A i \in IntentIds : [Swap(i)!Next]_(Swap(i)!vars)]_vars
  BY StepSwaps
<1> QED BY <1>1, InitTypes, StepTypes, InitIntents, StepIntents, InitSwaps, PTL
        DEF Spec, SwapsAtomically

----------------------------------------------------------------------------
(* The escrowed notes.                                                      *)

\* The deposited legs' notes are in the escrow tree; a call that is for no leg spends
\* notes of the main tree; a leg that a call was for is settled or refunded.
EscrowedLegs ==
  \A i \in IntentIds : \A leg \in intents[i].deposited : Terms[i].escrow[leg] \in Committed("escrow")

MainSpends ==
  \A k \in DOMAIN spends : spends[k].legs = {} => ToSet(spends[k].notes) \subseteq Committed("main")

LegsClosed ==
  \A k \in DOMAIN spends, i \in IntentIds, leg \in Legs :
    <<i, leg>> \in spends[k].legs => intents[i].settled \/ leg \in intents[i].refunded

EscrowOK == EscrowedLegs /\ MainSpends /\ LegsClosed

\* The anchor of a spend is checked against one tree: what it includes is in that
\* tree.
LEMMA RecentRootIncludes ==
  ASSUME TypeOK, TreeMatchesLog, NEW t \in Trees, NEW anchor, IsRecentRoot(tree[t], anchor),
         NEW n \in ToSet(anchor)
  PROVE  n \in Committed(t)
<1>1. PICK i \in DOMAIN tree[t].recentRoots : tree[t].recentRoots[i] = anchor
  BY DEF IsRecentRoot
<1>2. tree[t].recentRoots \in Seq(Seq(Note)) /\ log[t] \in Seq(Note)
  BY DEF TypeOK, TreeState, Leaves
<1>3. anchor \in Seq(Note)
  BY <1>1, <1>2, LenProperties, ElementOfSeq
<1>4. IsPrefix(anchor, log[t])
  BY <1>1 DEF TreeMatchesLog
<1>5. /\ Len(anchor) \in Nat /\ Len(log[t]) \in Nat
      /\ DOMAIN anchor = 1 .. Len(anchor) /\ DOMAIN log[t] = 1 .. Len(log[t])
  BY <1>2, <1>3, LenProperties
<1>6. /\ Len(anchor) <= Len(log[t])
      /\ SubSeq(anchor, 1, Len(anchor)) = SubSeq(log[t], 1, Len(anchor))
  BY <1>4 DEF IsPrefix
<1>7. PICK k \in 1 .. Len(anchor) : n = anchor[k]
  BY <1>5 DEF ToSet
<1>8. /\ SubSeq(anchor, 1, Len(anchor))[k] = anchor[k]
      /\ SubSeq(log[t], 1, Len(anchor))[k] = log[t][k]
  BY <1>2, <1>3, <1>5, <1>6, <1>7
<1>9. n = log[t][k] /\ k \in DOMAIN log[t]
  BY <1>5, <1>6, <1>7, <1>8
<1> QED BY <1>9 DEF Committed, ToSet

LEMMA SpendableInIsCommitted ==
  ASSUME TypeOK, TreeMatchesLog, NEW t \in Trees
  PROVE  SpendableIn(t) \subseteq Committed(t)
BY RecentRootIncludes DEF SpendableIn

\* A closed leg stays closed, and a leg is only deposited by its deposit.
LEMMA RecordsGrow ==
  ASSUME TypeOK, IntentsOK, [Next]_vars, NEW i \in IntentIds
  PROVE  /\ intents[i].settled => intents'[i].settled
         /\ intents[i].refunded \subseteq intents'[i].refunded
         /\ \A leg \in intents'[i].deposited \ intents[i].deposited :
              leg \in Legs /\ EscrowDeposit(i, leg)
<1>0. intents \in [IntentIds -> Intent]
  BY DEF TypeOK
<1>1. CASE UNCHANGED intents
  BY <1>1
<1>2. ASSUME NEW j \in IntentIds, intents'[i] = intents[i]
      PROVE  /\ intents[i].settled => intents'[i].settled
             /\ intents[i].refunded \subseteq intents'[i].refunded
             /\ intents'[i].deposited = intents[i].deposited
  BY <1>2
<1>3. ASSUME NEW j \in IntentIds, ~intents[j].exists, Created(j)
      PROVE  /\ intents[i].settled => intents'[i].settled
             /\ intents[i].refunded \subseteq intents'[i].refunded
             /\ intents'[i].deposited = intents[i].deposited
  <2>1. PICK deadline \in Deadlines :
           intents' = [intents EXCEPT ![j] = [NoIntent EXCEPT !.exists = TRUE, !.deadline = deadline]]
    BY <1>3 DEF Created
  <2>2. CASE i = j
    <3>1. /\ intents[i] = NoIntent
          /\ intents'[i] = [NoIntent EXCEPT !.exists = TRUE, !.deadline = deadline]
      BY <1>0, <1>3, <2>1, <2>2 DEF IntentsOK, BlankUntilCreated
    <3> QED BY <3>1 DEF NoIntent
  <2>3. CASE i # j
    BY <1>0, <1>2, <2>1, <2>3
  <2> QED BY <2>2, <2>3
<1>4. ASSUME NEW j \in IntentIds, NEW leg \in Legs, EscrowDeposit(j, leg), Deposited(j, leg)
      PROVE  /\ intents[i].settled => intents'[i].settled
             /\ intents[i].refunded \subseteq intents'[i].refunded
             /\ \A end \in intents'[i].deposited \ intents[i].deposited : j = i /\ end = leg
  <2>1. intents' = [intents EXCEPT ![j] = [intents[j] EXCEPT !.deposited = intents[j].deposited \cup {leg}]]
    BY <1>4 DEF Deposited
  <2>2. CASE i = j
    <3>1. intents'[i] = [intents[i] EXCEPT !.deposited = intents[i].deposited \cup {leg}]
      BY <1>0, <2>1, <2>2
    <3> QED BY <1>0, <2>2, <3>1 DEF Intent
  <2>3. CASE i # j
    BY <1>0, <1>2, <2>1, <2>3
  <2> QED BY <2>2, <2>3
<1>5. ASSUME NEW j \in IntentIds, Settled(j)
      PROVE  /\ intents[i].settled => intents'[i].settled
             /\ intents[i].refunded \subseteq intents'[i].refunded
             /\ intents'[i].deposited = intents[i].deposited
  <2>1. intents' = [intents EXCEPT ![j] = [intents[j] EXCEPT !.settled = TRUE]]
    BY <1>5 DEF Settled
  <2>2. CASE i = j
    <3>1. intents'[i] = [intents[i] EXCEPT !.settled = TRUE]
      BY <1>0, <2>1, <2>2
    <3> QED BY <1>0, <3>1 DEF Intent
  <2>3. CASE i # j
    BY <1>0, <1>2, <2>1, <2>3
  <2> QED BY <2>2, <2>3
<1>6. ASSUME NEW j \in IntentIds, NEW leg \in Legs, Refunded(j, leg)
      PROVE  /\ intents[i].settled => intents'[i].settled
             /\ intents[i].refunded \subseteq intents'[i].refunded
             /\ intents'[i].deposited = intents[i].deposited
  <2>1. intents' = [intents EXCEPT ![j] = [intents[j] EXCEPT !.refunded = intents[j].refunded \cup {leg}]]
    BY <1>6 DEF Refunded
  <2>2. CASE i = j
    <3>1. intents'[i] = [intents[i] EXCEPT !.refunded = intents[i].refunded \cup {leg}]
      BY <1>0, <2>1, <2>2
    <3> QED BY <1>0, <3>1 DEF Intent
  <2>3. CASE i # j
    BY <1>0, <1>2, <2>1, <2>3
  <2> QED BY <2>2, <2>3
<1> QED BY <1>1, <1>3, <1>4, <1>5, <1>6, IntentSteps

\* A deposit puts the leg's note into the escrow tree.
LEMMA DepositCommits ==
  ASSUME TypeOK, NEW i \in IntentIds, NEW leg \in Legs, EscrowDeposit(i, leg)
  PROVE  Terms[i].escrow[leg] \in Committed("escrow")'
<1>1. PICK pub : Insert("escrow", pub, <<Terms[i].escrow[leg]>>)
  BY Zenon DEF EscrowDeposit
<1>2. Terms[i].escrow[leg] \in Note
  BY TermsAreNotes
<1>3. "escrow" \in Trees /\ <<Terms[i].escrow[leg]>> \in Seq(Note)
  BY <1>2 DEF Trees
<1>4. Terms[i].escrow[leg] \in ToSet(<<Terms[i].escrow[leg]>>)
  BY DEF ToSet
<1> QED BY <1>1, <1>3, <1>4, InsertCommits

\* A settlement and a refund close the legs they are for.
LEMMA SettledIsSettled ==
  ASSUME TypeOK, NEW i \in IntentIds, SettleIntent(i)
  PROVE  /\ SettleOpen(i)
         /\ intents'[i].settled
<1>1. /\ SettleOpen(i)
      /\ intents' = [intents EXCEPT ![i] = [intents[i] EXCEPT !.settled = TRUE]]
  BY DEF SettleIntent
<1>2. intents'[i] = [intents[i] EXCEPT !.settled = TRUE] /\ intents[i] \in Intent
  BY <1>1 DEF TypeOK
<1> QED BY <1>1, <1>2 DEF Intent

LEMMA RefundedIsRefunded ==
  ASSUME TypeOK, NEW i \in IntentIds, NEW leg \in Legs, EscrowRefund(i, leg)
  PROVE  /\ RefundOpen(i, leg)
         /\ leg \in intents'[i].refunded
<1>1. /\ RefundOpen(i, leg)
      /\ intents' = [intents EXCEPT ![i] = [intents[i] EXCEPT !.refunded = intents[i].refunded \cup {leg}]]
  BY DEF EscrowRefund
<1>2. intents'[i] = [intents[i] EXCEPT !.refunded = intents[i].refunded \cup {leg}] /\ intents[i] \in Intent
  BY <1>1 DEF TypeOK
<1> QED BY <1>1, <1>2 DEF Intent

----------------------------------------------------------------------------
(* Escrowed notes stay put until their leg resolves.                        *)

LEMMA InitEscrow == Init => EscrowOK
BY DEF Init, EscrowOK, EscrowedLegs, MainSpends, LegsClosed, NoIntent

LEMMA StepEscrowedLegs ==
  ASSUME TypeOK, IntentsOK, EscrowedLegs, [Next]_vars
  PROVE  EscrowedLegs'
<1>1. Committed("escrow") \subseteq Committed("escrow")'
  BY CommittedGrows DEF Trees
<1>2. ASSUME NEW i \in IntentIds, NEW leg \in intents'[i].deposited
      PROVE  Terms[i].escrow[leg] \in Committed("escrow")'
  <2>1. CASE leg \in intents[i].deposited
    BY <1>1, <2>1 DEF EscrowedLegs
  <2>2. CASE leg \notin intents[i].deposited
    BY <1>2, <2>2, RecordsGrow, DepositCommits
  <2> QED BY <2>1, <2>2
<1> QED BY <1>2 DEF EscrowedLegs

\* A call is recorded: the earlier ones are as they were, and it is as it should be.
LEMMA RecordCovers ==
  ASSUME TypeOK, IntentsOK, MainSpends, LegsClosed, [Next]_vars, NEW s \in Spending, ConsumesNotes(s),
         s.legs = {} => ToSet(s.notes) \subseteq Committed("main"),
         \A i \in IntentIds, leg \in Legs :
           <<i, leg>> \in s.legs => intents'[i].settled \/ leg \in intents'[i].refunded
  PROVE  MainSpends' /\ LegsClosed'
<1>1. /\ DOMAIN spends = 1 .. Len(spends)
      /\ DOMAIN spends' = 1 .. Len(spends) + 1
      /\ Len(spends) \in Nat
      /\ \A k \in 1 .. Len(spends) : spends'[k] = spends[k]
      /\ spends'[Len(spends) + 1] = s
  BY ConsumedIsAppended
<1>2. Committed("main") \subseteq Committed("main")'
  BY CommittedGrows DEF Trees
<1>3. ASSUME NEW k \in 1 .. Len(spends) + 1
      PROVE  /\ spends'[k].legs = {} => ToSet(spends'[k].notes) \subseteq Committed("main")'
             /\ \A i \in IntentIds, leg \in Legs :
                  <<i, leg>> \in spends'[k].legs => intents'[i].settled \/ leg \in intents'[i].refunded
  <2>1. CASE k = Len(spends) + 1
    BY <1>1, <1>2, <2>1
  <2>2. CASE k # Len(spends) + 1
    <3>1. k \in DOMAIN spends /\ spends'[k] = spends[k]
      BY <1>1, <2>2
    <3>2. spends[k].legs = {} => ToSet(spends[k].notes) \subseteq Committed("main")'
      BY <1>2, <3>1 DEF MainSpends
    <3>3. \A i \in IntentIds, leg \in Legs :
             <<i, leg>> \in spends[k].legs => intents'[i].settled \/ leg \in intents'[i].refunded
      BY <3>1, RecordsGrow DEF LegsClosed
    <3> QED BY <3>1, <3>2, <3>3
  <2> QED BY <2>1, <2>2
<1> QED BY <1>1, <1>3 DEF MainSpends, LegsClosed

LEMMA StepEscrow ==
  ASSUME TypeOK, TreeMatchesLog, IntentsOK, EscrowOK, [Next]_vars
  PROVE  EscrowOK'
<1>1. EscrowedLegs'
  BY StepEscrowedLegs DEF EscrowOK
<1>2. CASE UNCHANGED <<nullifiers, spends>>
  <2>1. Committed("main") \subseteq Committed("main")'
    BY CommittedGrows DEF Trees
  <2>2. MainSpends'
    BY <1>2, <2>1 DEF EscrowOK, MainSpends
  <2>3. LegsClosed'
    BY <1>2, RecordsGrow DEF EscrowOK, LegsClosed
  <2> QED BY <1>1, <2>2, <2>3 DEF EscrowOK
<1>3. ASSUME NEW s \in Spending, ConsumesNotes(s), s.legs = {}, ToSet(s.notes) \subseteq SpendableIn("main")
      PROVE  EscrowOK'
  <2>1. ToSet(s.notes) \subseteq Committed("main")
    BY <1>3, SpendableInIsCommitted DEF Trees
  <2> QED BY <1>1, <1>3, <2>1, RecordCovers DEF EscrowOK
<1>4. ASSUME NEW i \in IntentIds, NEW s \in Spending, SettleIntent(i), ConsumesNotes(s), s.legs = {i} \X Legs
      PROVE  EscrowOK'
  <2>1. <<i, "a">> \in s.legs
    BY <1>4 DEF Legs
  <2>2. \A j \in IntentIds, leg \in Legs : <<j, leg>> \in s.legs => intents'[j].settled
    BY <1>4, SettledIsSettled
  <2> QED BY <1>1, <1>4, <2>1, <2>2, RecordCovers DEF EscrowOK
<1>5. ASSUME NEW i \in IntentIds, NEW leg \in Legs, NEW s \in Spending, EscrowRefund(i, leg),
             ConsumesNotes(s), s.legs = {<<i, leg>>}
      PROVE  EscrowOK'
  <2>1. s.legs # {}
    BY <1>5
  <2>2. \A j \in IntentIds, end \in Legs : <<j, end>> \in s.legs => end \in intents'[j].refunded
    BY <1>5, RefundedIsRefunded
  <2> QED BY <1>1, <1>5, <2>1, <2>2, RecordCovers DEF EscrowOK
<1> QED BY <1>2, <1>3, <1>4, <1>5, RecordedSteps

\* What takes a note out of escrow.
Exits(n) ==
  \E i \in IntentIds, leg \in Legs :
    \/ /\ ~intents[i].settled /\ intents'[i].settled
       /\ intents[i].deposited = Legs /\ ledger < intents[i].deadline
       /\ n.asset = Terms[i].out[leg].asset
    \/ /\ leg \in intents'[i].refunded \ intents[i].refunded
       /\ leg \in intents[i].deposited /\ ledger >= intents[i].deadline
       /\ n.asset = Terms[i].refund[leg].asset

LEMMA StepExits ==
  ASSUME TypeOK, TreeMatchesLog, [Next]_vars,
         NEW n \in (NewlySpent \cap Committed("escrow")) \ Committed("main")
  PROVE  Exits(n)
<1>1. CASE UNCHANGED <<nullifiers, spends>>
  BY <1>1 DEF NewlySpent, Spent
<1>2. ASSUME NEW s \in Spending, ConsumesNotes(s)
      PROVE  n \in ToSet(s.notes)
  BY <1>2, NullifiersSpend DEF NewlySpent
<1>3. ASSUME NEW s \in Spending, ConsumesNotes(s), ToSet(s.notes) \subseteq SpendableIn("main")
      PROVE  FALSE
  BY <1>2, <1>3, SpendableInIsCommitted DEF Trees
<1>4. ASSUME NEW i \in IntentIds, NEW s \in Spending, SettleIntent(i), ConsumesNotes(s),
             ToSet(s.notes) \subseteq PaidOut(i)
      PROVE  Exits(n)
  <2>1. n \in PaidOut(i)
    BY <1>2, <1>4
  <2>2. PICK leg \in Legs : n.asset = Terms[i].out[leg].asset
    BY <2>1 DEF PaidOut
  <2>3. /\ ~intents[i].settled /\ intents'[i].settled
        /\ intents[i].deposited = Legs /\ ledger < intents[i].deadline
    BY <1>4, SettledIsSettled DEF SettleOpen
  <2> QED BY <2>2, <2>3 DEF Exits
<1>5. ASSUME NEW i \in IntentIds, NEW leg \in Legs, NEW s \in Spending, EscrowRefund(i, leg),
             ConsumesNotes(s), ToSet(s.notes) \subseteq Returned(i, leg)
      PROVE  Exits(n)
  <2>1. n \in Returned(i, leg)
    BY <1>2, <1>5
  <2>2. n.asset = Terms[i].refund[leg].asset
    BY <2>1 DEF Returned
  <2>3. /\ leg \in intents'[i].refunded \ intents[i].refunded
        /\ leg \in intents[i].deposited /\ ledger >= intents[i].deadline
    BY <1>5, RefundedIsRefunded DEF RefundOpen, Matches
  <2> QED BY <2>2, <2>3 DEF Exits
<1> QED BY <1>1, <1>3, <1>4, <1>5, RecordedSteps

EscrowInv == TypeOK /\ TreeMatchesLog /\ IntentsOK /\ EscrowOK

LEMMA EscrowInvHolds == Spec => []EscrowInv
<1>1. Init => EscrowInv
  BY InitTypes, InitMatches, InitIntents, InitEscrow DEF EscrowInv
<1>2. EscrowInv /\ [Next]_vars => EscrowInv'
  BY StepTypes, StepMatches, StepIntents, StepEscrow DEF EscrowInv
<1> QED BY <1>1, <1>2, PTL DEF Spec

LEMMA EscrowIsHeld ==
  ASSUME EscrowInv
  PROVE  EscrowHeld
<1>1. SUFFICES ASSUME NEW i \in IntentIds, NEW leg \in intents[i].deposited,
                      ~intents[i].settled, leg \notin intents[i].refunded,
                      NEW k \in DOMAIN spends, NEW n \in ToSet(spends[k].notes)
               PROVE  \/ n \in Committed("main")
                      \/ spends[k].legs # {} /\ <<i, leg>> \notin spends[k].legs
  BY DEF EscrowHeld, EscrowInv, EscrowOK, EscrowedLegs
<1>2. leg \in Legs
  BY DEF EscrowInv, TypeOK, Intent
<1>3. <<i, leg>> \notin spends[k].legs
  BY <1>1, <1>2 DEF EscrowInv, EscrowOK, LegsClosed
<1>4. spends[k].legs = {} => n \in Committed("main")
  BY <1>1 DEF EscrowInv, EscrowOK, MainSpends
<1> QED BY <1>3, <1>4

\* The note of a leg that is deposited and neither settled nor refunded is in the
\* escrow tree, and what took its nullifier, if anything did, was a note of the main
\* tree or the settlement or refund of other legs.
THEOREM EscrowedNotesStay == Spec => []EscrowHeld
BY EscrowIsHeld, EscrowInvHolds, PTL

\* A note leaves the escrow tree only in the step that settles an intent or refunds
\* a leg that was due, in the asset which that intent pays out.
THEOREM EscrowedNotesLeaveResolved == Spec => EscrowExits
<1>1. EscrowInv /\ [Next]_vars =>
        [\A n \in (NewlySpent \cap Committed("escrow")) \ Committed("main") :
           \E i \in IntentIds, leg \in Legs :
             \/ /\ ~intents[i].settled /\ intents'[i].settled
                /\ intents[i].deposited = Legs /\ ledger < intents[i].deadline
                /\ n.asset = Terms[i].out[leg].asset
             \/ /\ leg \in intents'[i].refunded \ intents[i].refunded
                /\ leg \in intents[i].deposited /\ ledger >= intents[i].deadline
                /\ n.asset = Terms[i].refund[leg].asset]_vars
  BY StepExits DEF EscrowInv, Exits
<1> QED BY <1>1, EscrowInvHolds, PTL DEF Spec, EscrowExits

----------------------------------------------------------------------------
(* Value is conserved: while no call names a note twice and no fee is more  *)
(* than a value, the tokens the contract holds cover every note that can    *)
(* still be spent.                                                          *)

(* What a set of notes is worth in one asset.                               *)

Worth(S, a) == ValueOf({n \in S : n.asset = a})

\* What a note contributes to that.
Share(n, a) == IF n.asset = a THEN n.value ELSE 0

LEMMA ShareType ==
  ASSUME NEW n \in Note, NEW a
  PROVE  Share(n, a) \in Nat
BY DEF Share, Note, Value

LEMMA WorthType ==
  ASSUME NEW S \in SUBSET Note, IsFiniteSet(S), NEW a
  PROVE  Worth(S, a) \in Nat
<1>1. {n \in S : n.asset = a} \in SUBSET Note /\ IsFiniteSet({n \in S : n.asset = a})
  BY FS_Subset
<1> QED BY <1>1, ValueOfType DEF Worth

LEMMA WorthSplit ==
  ASSUME NEW S \in SUBSET Note, IsFiniteSet(S), NEW x \in S, NEW a
  PROVE  Worth(S, a) = Share(x, a) + Worth(S \ {x}, a)
<1> DEFINE T == {n \in S : n.asset = a}
<1>1. T \in SUBSET Note /\ IsFiniteSet(T)
  BY FS_Subset
<1>2. CASE x.asset = a
  <2>1. x \in T /\ T \ {x} = {n \in S \ {x} : n.asset = a}
    BY <1>2
  <2>2. ValueOf(T) = x.value + ValueOf(T \ {x})
    <3> HIDE DEF T
    <3> QED BY <1>1, <2>1, ValueOfSplit
  <2> QED BY <1>2, <2>1, <2>2 DEF Worth, Share
<1>3. CASE x.asset # a
  <2>1. T = {n \in S \ {x} : n.asset = a}
    BY <1>3
  <2>2. ValueOf(T) \in Nat
    BY <1>1, ValueOfType
  <2>3. PICK v \in Nat : v = ValueOf(T)
    BY <2>2
  <2>4. Worth(S, a) = v /\ Worth(S \ {x}, a) = v /\ Share(x, a) = 0
    BY <1>3, <2>1, <2>3 DEF Worth, Share
  <2> QED BY <2>3, <2>4
<1> QED BY <1>2, <1>3

\* Fewer notes are worth no more.
LEMMA WorthMonotonic ==
  ASSUME NEW S \in SUBSET Note, IsFiniteSet(S), NEW T \in SUBSET S, NEW a
  PROVE  Worth(T, a) <= Worth(S, a)
\* A smallest set between T and S that is worth less than T.
<1> DEFINE Bad == {s \in SUBSET S : T \subseteq s /\ ~(Worth(T, a) <= Worth(s, a))}
<1>1. SUFFICES ASSUME Bad # {} PROVE FALSE
  OBVIOUS
<1>2. PICK s \in Bad : \A u \in Bad : u \subseteq s => u = s
  <2>1. Bad \subseteq SUBSET S
    OBVIOUS
  <2> HIDE DEF Bad
  <2> QED BY <1>1, <2>1, SmallestSubset
<1>3. /\ s \in SUBSET S /\ T \subseteq s /\ ~(Worth(T, a) <= Worth(s, a))
      /\ IsFiniteSet(s) /\ IsFiniteSet(T)
  BY FS_Subset
<1>4. PICK w \in Nat : w = Worth(T, a)
  BY <1>3, WorthType
<1>5. PICK x \in s : x \notin T
  BY <1>3, <1>4
<1>6. s \ {x} \in SUBSET S /\ IsFiniteSet(s \ {x}) /\ T \subseteq s \ {x}
  BY <1>3, <1>5, FS_Subset
<1>7. Worth(T, a) <= Worth(s \ {x}, a)
  BY <1>2, <1>5, <1>6
<1>8. PICK v \in Nat : v = Worth(s \ {x}, a)
  BY <1>6, WorthType
<1>9. PICK d \in Nat : d = Share(x, a)
  BY <1>3, ShareType
<1>10. Worth(s, a) = d + v
  BY <1>3, <1>8, <1>9, WorthSplit
<1> QED BY <1>3, <1>4, <1>7, <1>8, <1>10

\* One more note adds its share at most.
LEMMA WorthAdded ==
  ASSUME NEW S \in SUBSET Note, IsFiniteSet(S), NEW x \in Note, NEW a
  PROVE  Worth(S \cup {x}, a) <= Worth(S, a) + Share(x, a)
<1>1. PICK v \in Nat : v = Worth(S, a)
  BY WorthType
<1>2. PICK d \in Nat : d = Share(x, a)
  BY ShareType
<1>3. CASE x \in S
  <2>1. S \cup {x} = S
    BY <1>3
  <2>2. Worth(S \cup {x}, a) = v
    BY <1>1, <2>1, Zenon
  <2> QED BY <1>1, <1>2, <2>2
<1>4. CASE x \notin S
  <2>1. IsFiniteSet(S \cup {x})
    BY FS_AddElement
  <2>2. (S \cup {x}) \ {x} = S
    BY <1>4
  <2>3. Worth(S \cup {x}, a) = Share(x, a) + Worth((S \cup {x}) \ {x}, a)
    BY <2>1, WorthSplit
  <2>4. Worth((S \cup {x}) \ {x}, a) = v
    BY <1>1, <2>2, Zenon
  <2> QED BY <1>1, <1>2, <2>3, <2>4
<1> QED BY <1>3, <1>4

----------------------------------------------------------------------------
(* What a step of the contract does to the claims.                          *)

\* The notes that stand for value: committed, not spent, not replaced by a
\* recovery.  A frozen note is one of them until it is recovered.
Claims == Emitted \ (Spent \cup recovered)

Covered == \A a \in Assets : Worth(Claims, a) <= balance[a]

\* The premise of Backed.
Conserving == \A k \in DOMAIN spends : Conserves(spends[k])

\* Frozen notes still count, since a recovery will need their backing, and recovered
\* ones are frozen, so that they cannot be spent too.
Solvent ==
  /\ FrozenRootCurrent
  /\ recovered \subseteq frozen
  /\ Covered

\* The inductive invariant.
ValueOK ==
  /\ FrozenRootCurrent
  /\ recovered \subseteq frozen
  /\ Conserving => Covered

LEMMA CommittedFinite ==
  ASSUME TypeOK, NEW t \in Trees
  PROVE  Committed(t) \subseteq Note /\ IsFiniteSet(Committed(t))
<1>1. log[t] \in Seq(Note)
  BY DEF TypeOK
<1> QED BY <1>1, ElementsFinite DEF Committed

LEMMA ClaimsFinite ==
  ASSUME TypeOK
  PROVE  Claims \in SUBSET Note /\ IsFiniteSet(Claims)
<1>1. Emitted \subseteq Note /\ IsFiniteSet(Emitted)
  BY CommittedFinite, FS_Union DEF Emitted, Trees
<1> QED BY <1>1, FS_Subset DEF Claims

LEMMA InsertEmits ==
  ASSUME TypeOK, NEW t \in Trees, NEW leaves \in Seq(Note), NEW pub, Insert(t, pub, leaves)
  PROVE  Emitted' = Emitted \cup ToSet(leaves)
BY InsertCommits DEF Emitted, Trees

\* What a call may consume counts: a recovered note is frozen, and the root says so.
LEMMA SpendableCounts ==
  ASSUME TypeOK, SpendsAreRecorded, Solvent
  PROVE  Spendable \subseteq Claims \cap Note
<1>1. ASSUME NEW n \in Spendable, n \in Spent
      PROVE  FALSE
  BY <1>1 DEF Spendable, NullifierUnused, SpendsAreRecorded
<1> QED BY <1>1, SpendableNotesAreNotes DEF Spendable, Claims, Emitted, Solvent, FrozenRootCurrent

\* One note is replaced by one, two by two.
LEMMA OneForOne ==
  ASSUME NEW S \in SUBSET Note, IsFiniteSet(S), NEW in \in S, NEW out \in Note,
         NEW T \in SUBSET ((S \ {in}) \cup {out}), NEW a
  PROVE  Worth(T, a) + Share(in, a) <= Worth(S, a) + Share(out, a)
<1> DEFINE R == S \ {in}
<1>1. R \in SUBSET Note /\ IsFiniteSet(R) /\ IsFiniteSet(R \cup {out})
  BY FS_Subset, FS_AddElement
<1>2. PICK r \in Nat : r = Worth(R, a)
  BY <1>1, WorthType
<1>3. PICK i \in Nat, o \in Nat : i = Share(in, a) /\ o = Share(out, a)
  BY ShareType
<1>4. Worth(S, a) = i + r
  BY <1>2, <1>3, WorthSplit
<1>5. PICK q \in Nat : q = Worth(R \cup {out}, a)
  <2>1. R \cup {out} \in SUBSET Note
    BY <1>1
  <2> QED BY <1>1, <2>1, WorthType
<1>6. q <= r + o
  BY <1>1, <1>2, <1>3, <1>5, WorthAdded
<1>7. PICK w \in Nat : w = Worth(T, a)
  <2>1. T \in SUBSET Note /\ IsFiniteSet(T)
    BY <1>1, FS_Subset
  <2> QED BY <2>1, WorthType
<1>8. w <= q
  <2>1. Worth(T, a) <= Worth(R \cup {out}, a)
    <3>1. R \cup {out} \in SUBSET Note
      BY <1>1
    <3> QED BY <1>1, <3>1, WorthMonotonic
  <2> QED BY <1>5, <1>7, <2>1
<1> QED BY <1>3, <1>4, <1>6, <1>7, <1>8

LEMMA TwoForTwo ==
  ASSUME NEW S \in SUBSET Note, IsFiniteSet(S),
         NEW in0 \in S, NEW in1 \in S, in0 # in1, NEW out0 \in Note, NEW out1 \in Note,
         NEW T \in SUBSET ((S \ {in0, in1}) \cup {out0, out1}), NEW a
  PROVE  Worth(T, a) + (Share(in0, a) + Share(in1, a))
           <= Worth(S, a) + (Share(out0, a) + Share(out1, a))
<1> DEFINE M == (S \ {in0}) \cup {out0}
           N == ((S \ {in0}) \ {in1}) \cup {out0}
<1>1. M \in SUBSET Note /\ IsFiniteSet(M) /\ N \in SUBSET Note /\ IsFiniteSet(N)
  <2>1. IsFiniteSet(S \ {in0}) /\ IsFiniteSet((S \ {in0}) \ {in1})
    BY FS_Subset
  <2> QED BY <2>1, FS_AddElement
<1>2. S \ {in0} \in SUBSET Note /\ IsFiniteSet(S \ {in0}) /\ in1 \in S \ {in0}
  BY FS_Subset
<1>3. PICK s \in Nat, r \in Nat, n \in Nat :
         s = Worth(S, a) /\ r = Worth(S \ {in0}, a) /\ n = Worth(N, a)
  BY <1>1, <1>2, WorthType
<1>4. PICK i0 \in Nat, i1 \in Nat, o0 \in Nat, o1 \in Nat :
         i0 = Share(in0, a) /\ i1 = Share(in1, a) /\ o0 = Share(out0, a) /\ o1 = Share(out1, a)
  BY ShareType
<1>5. s = i0 + r
  BY <1>3, <1>4, WorthSplit
<1>6. n + i1 <= r + o0
  <2>1. N \in SUBSET (((S \ {in0}) \ {in1}) \cup {out0})
    OBVIOUS
  <2> HIDE DEF N
  <2> QED BY <1>2, <1>3, <1>4, <2>1, OneForOne
<1>7. T \in SUBSET (N \cup {out1}) /\ T \in SUBSET Note /\ IsFiniteSet(N \cup {out1})
  <2>1. IsFiniteSet(N \cup {out1})
    BY <1>1, FS_AddElement
  <2> QED BY <1>1, <2>1
<1>8. PICK q \in Nat, w \in Nat : q = Worth(N \cup {out1}, a) /\ w = Worth(T, a)
  <2> HIDE DEF N
  <2>1. IsFiniteSet(T) /\ N \cup {out1} \in SUBSET Note
    BY <1>1, <1>7, FS_Subset
  <2> QED BY <1>7, <2>1, WorthType
<1>9. q <= n + o1
  <2> HIDE DEF N
  <2> QED BY <1>1, <1>3, <1>4, <1>8, WorthAdded
<1>10. w <= q
  <2> HIDE DEF N
  <2>1. N \cup {out1} \in SUBSET Note
    BY <1>1
  <2> QED BY <1>7, <1>8, <2>1, WorthMonotonic
<1> QED BY <1>3, <1>4, <1>5, <1>6, <1>8, <1>9, <1>10

----------------------------------------------------------------------------
(* What a call records.                                                     *)

SpendsNotes(call, legs, notes, fees) ==
  /\ call \in Calls
  /\ legs \in SUBSET (IntentIds \X Legs)
  /\ notes \in Seq(Note)
  /\ ToSet(notes) \subseteq Spendable
  /\ fees \in Seq(Field)
  /\ InsertNullifiers(call, legs, notes, fees)

LEMMA CallIsRecorded ==
  ASSUME TypeOK, NEW call, NEW legs, NEW notes, NEW fees, SpendsNotes(call, legs, notes, fees)
  PROVE  /\ Spent' = Spent \cup ToSet(notes)
         /\ Conserving' => IsInjective(notes) /\ \A k \in DOMAIN fees : fees[k] \in Value
<1> DEFINE s == [call |-> call, legs |-> legs, notes |-> notes, fees |-> fees]
<1>1. /\ s \in Spending
      /\ s.notes = notes /\ s.fees = fees
  BY DEF SpendsNotes, Spending
<1>2. ConsumesNotes(s)
  BY DEF SpendsNotes, ConsumesNotes
<1> HIDE DEF s
<1>3. Spent' = Spent \cup ToSet(notes)
  BY <1>1, <1>2, NullifiersSpend
<1>4. Len(spends) + 1 \in DOMAIN spends' /\ spends'[Len(spends) + 1] = s
  BY <1>1, <1>2, ConsumedIsAppended
<1>5. Conserving' => Conserves(s)
  BY <1>4 DEF Conserving
<1> QED BY <1>1, <1>3, <1>5 DEF Conserves

\* What held of all calls held of the earlier ones.
LEMMA ConservingBefore ==
  ASSUME TypeOK, [Next]_vars, Conserving'
  PROVE  Conserving
<1>1. CASE UNCHANGED <<nullifiers, spends>>
  BY <1>1 DEF Conserving
<1>2. ASSUME NEW s \in Spending, ConsumesNotes(s)
      PROVE  Conserving
  <2>1. /\ DOMAIN spends \subseteq DOMAIN spends'
        /\ \A k \in DOMAIN spends : spends'[k] = spends[k]
    BY <1>2, ConsumedIsAppended
  <2> QED BY <2>1 DEF Conserving
<1> QED BY <1>1, <1>2, SpendingSteps

----------------------------------------------------------------------------
(* Every step keeps the claims covered.                                     *)

\* A call that consumes one note for one, worth no more in any asset.
LEMMA OnePaid ==
  ASSUME TypeOK, SpendsAreRecorded, Solvent, UNCHANGED <<balance, recovered>>,
         NEW t \in Trees, NEW pub, NEW in \in Spendable, NEW out \in Note,
         NEW call, NEW legs, NEW fees, SpendsNotes(call, legs, <<in>>, fees),
         Insert(t, pub, <<out>>),
         \A a \in Assets : Share(out, a) <= Share(in, a)
  PROVE  Covered'
<1>1. /\ in \in Claims /\ in \in Note
      /\ Claims \in SUBSET Note /\ IsFiniteSet(Claims)
  BY SpendableCounts, ClaimsFinite
<1>2. Emitted' = Emitted \cup {out}
  <2>1. <<out>> \in Seq(Note) /\ ToSet(<<out>>) = {out}
    BY DEF ToSet
  <2> QED BY <2>1, InsertEmits
<1>3. Spent' = Spent \cup {in}
  <2>1. ToSet(<<in>>) = {in}
    BY DEF ToSet
  <2> QED BY <2>1, CallIsRecorded
<1>4. Claims' \in SUBSET ((Claims \ {in}) \cup {out})
  BY <1>2, <1>3 DEF Claims
<1> SUFFICES ASSUME NEW a \in Assets
             PROVE  Worth(Claims', a) <= balance'[a]
  BY DEF Covered, Worth
<1>5. Worth(Claims', a) + Share(in, a) <= Worth(Claims, a) + Share(out, a)
  BY <1>1, <1>4, OneForOne
<1>6. /\ Claims' \in SUBSET Note /\ IsFiniteSet(Claims')
  <2>1. IsFiniteSet((Claims \ {in}) \cup {out})
    BY <1>1, FS_Subset, FS_AddElement
  <2> QED BY <1>1, <1>4, <2>1, FS_Subset
<1>7. PICK w \in Nat, v \in Nat, i \in Nat, o \in Nat :
         /\ w = Worth(Claims, a) /\ v = Worth(Claims', a)
         /\ i = Share(in, a) /\ o = Share(out, a)
  BY <1>1, <1>6, WorthType, ShareType
<1>8. PICK b \in Nat : b = balance[a] /\ b = balance'[a] /\ w <= b
  BY <1>7 DEF TypeOK, Solvent, Covered
<1> QED BY <1>5, <1>7, <1>8

\* A call that consumes two different notes for two.
LEMMA TwoPaid ==
  ASSUME TypeOK, SpendsAreRecorded, Solvent, UNCHANGED <<balance, recovered>>,
         NEW t \in Trees, NEW pub, NEW in0 \in Spendable, NEW in1 \in Spendable, in0 # in1,
         NEW out0 \in Note, NEW out1 \in Note,
         NEW call, NEW legs, NEW fees, SpendsNotes(call, legs, <<in0, in1>>, fees),
         Insert(t, pub, <<out0, out1>>),
         \A a \in Assets : Share(out0, a) + Share(out1, a) <= Share(in0, a) + Share(in1, a)
  PROVE  Covered'
<1>1. /\ in0 \in Claims /\ in1 \in Claims /\ in0 \in Note /\ in1 \in Note
      /\ Claims \in SUBSET Note /\ IsFiniteSet(Claims)
  BY SpendableCounts, ClaimsFinite
<1>2. Emitted' = Emitted \cup {out0, out1}
  <2>1. <<out0, out1>> \in Seq(Note) /\ ToSet(<<out0, out1>>) = {out0, out1}
    BY DEF ToSet
  <2> QED BY <2>1, InsertEmits
<1>3. Spent' = Spent \cup {in0, in1}
  <2>1. ToSet(<<in0, in1>>) = {in0, in1}
    BY DEF ToSet
  <2> QED BY <2>1, CallIsRecorded
<1>4. Claims' \in SUBSET ((Claims \ {in0, in1}) \cup {out0, out1})
  BY <1>2, <1>3 DEF Claims
<1> SUFFICES ASSUME NEW a \in Assets
             PROVE  Worth(Claims', a) <= balance'[a]
  BY DEF Covered, Worth
<1>5. Worth(Claims', a) + (Share(in0, a) + Share(in1, a))
        <= Worth(Claims, a) + (Share(out0, a) + Share(out1, a))
  BY <1>1, <1>4, TwoForTwo
<1>6. /\ Claims' \in SUBSET Note /\ IsFiniteSet(Claims')
  <2>1. IsFiniteSet(Claims \cup {out0}) /\ IsFiniteSet((Claims \cup {out0}) \cup {out1})
    BY <1>1, FS_AddElement
  <2>2. Claims' \in SUBSET ((Claims \cup {out0}) \cup {out1})
    BY <1>4
  <2> QED BY <1>1, <2>1, <2>2, FS_Subset
<1>7. PICK w \in Nat, v \in Nat, i0 \in Nat, i1 \in Nat, o0 \in Nat, o1 \in Nat :
         /\ w = Worth(Claims, a) /\ v = Worth(Claims', a)
         /\ i0 = Share(in0, a) /\ i1 = Share(in1, a)
         /\ o0 = Share(out0, a) /\ o1 = Share(out1, a)
  BY <1>1, <1>6, WorthType, ShareType
<1>8. PICK b \in Nat : b = balance[a] /\ b = balance'[a] /\ w <= b
  BY <1>7 DEF TypeOK, Solvent, Covered
<1>9. o0 + o1 <= i0 + i1
  BY <1>7
<1> QED BY <1>5, <1>7, <1>8, <1>9

\* An output of the same asset is worth no more when the fee is a value.
LEMMA ShareShrinks ==
  ASSUME NEW in \in Note, NEW out \in Note, out.asset = in.asset, NEW fee \in Value,
         Balanced(in.value, out.value, fee), NEW a
  PROVE  Share(out, a) <= Share(in, a)
<1>1. in.value \in 0 .. MAX_VALUE /\ out.value \in 0 .. MAX_VALUE /\ fee \in 0 .. MAX_VALUE
  BY DEF Note, Value
<1>2. in.value = out.value + fee
  BY <1>1, NotesAssumption, BalancedValues
<1> QED BY <1>1, <1>2, NotesAssumption DEF Share

LEMMA ShieldCovers ==
  ASSUME TypeOK, Solvent, Shield
  PROVE  Covered'
<1>1. PICK pub \in Observations("main"), out \in NewNotes(1) :
         PullDeposit(out.asset, out.value) /\ Insert("main", pub, <<out>>)
  BY DEF Shield
<1>2. out \in Note /\ out.asset \in Assets /\ out.value \in Nat
  BY NewNotesAreNotes DEF Note, Value
<1>3. Emitted' = Emitted \cup {out}
  <2>1. <<out>> \in Seq(Note) /\ ToSet(<<out>>) = {out} /\ "main" \in Trees
    BY <1>2 DEF ToSet, Trees
  <2> QED BY <1>1, <2>1, InsertEmits
<1>4. Claims' \in SUBSET (Claims \cup {out})
  BY <1>3 DEF Shield, Claims, Spent, issuerVars
<1>5. Claims \in SUBSET Note /\ IsFiniteSet(Claims) /\ IsFiniteSet(Claims \cup {out})
  BY ClaimsFinite, FS_AddElement
<1> SUFFICES ASSUME NEW a \in Assets
             PROVE  Worth(Claims', a) <= balance'[a]
  BY DEF Covered, Worth
<1>6. PICK w \in Nat, o \in Nat, q \in Nat, v \in Nat :
         /\ w = Worth(Claims, a) /\ o = Share(out, a)
         /\ q = Worth(Claims \cup {out}, a) /\ v = Worth(Claims', a)
  <2>1. Claims \cup {out} \in SUBSET Note /\ Claims' \in SUBSET Note /\ IsFiniteSet(Claims')
    BY <1>2, <1>4, <1>5, FS_Subset
  <2> QED BY <1>2, <1>5, <2>1, WorthType, ShareType
<1>7. q <= w + o
  BY <1>2, <1>5, <1>6, WorthAdded
<1>8. v <= q
  <2>1. Claims \cup {out} \in SUBSET Note
    BY <1>2, <1>5
  <2> QED BY <1>4, <1>5, <1>6, <2>1, WorthMonotonic
<1>9. PICK b \in Nat : b = balance[a] /\ w <= b
  BY <1>6 DEF TypeOK, Solvent, Covered
<1>10. balance'[a] = b + o
  BY <1>1, <1>2, <1>6, <1>9 DEF PullDeposit, TypeOK, Share
<1> QED BY <1>6, <1>7, <1>8, <1>9, <1>10

LEMMA TransferCovers ==
  ASSUME TypeOK, SpendsAreRecorded, Solvent, ConfidentialTransfer, Conserving'
  PROVE  Covered'
<1>1. PICK anchor, pub, in0, in1, out0, out1, fee :
         /\ anchor \in Anchors /\ in0 \in ToSet(anchor) /\ in1 \in ToSet(anchor)
         /\ IsRecentRoot(tree["main"], anchor)
         /\ CheckSpendRoots(pub)
         /\ NullifierUnused(in0) /\ NullifierUnused(in1)
         /\ TransferInputs(anchor, in0, in1, pub)
         /\ out0 \in NewNotes(1) /\ out1 \in NewNotes(2) /\ fee \in Field
         /\ TransferOutputs(in0, in1, out0, out1, fee, pub)
         /\ InsertNullifiers("confidential_transfer", {}, <<in0, in1>>, <<fee>>)
         /\ Insert("main", pub, <<out0, out1>>)
  <2>1. PICK anchor, pub, in0, in1 :
           /\ anchor \in Anchors /\ in0 \in ToSet(anchor) /\ in1 \in ToSet(anchor)
           /\ IsRecentRoot(tree["main"], anchor)
           /\ CheckSpendRoots(pub)
           /\ NullifierUnused(in0) /\ NullifierUnused(in1)
           /\ TransferInputs(anchor, in0, in1, pub)
           /\ \E out0 \in NewNotes(1), out1 \in NewNotes(2), fee \in Field :
                /\ TransferOutputs(in0, in1, out0, out1, fee, pub)
                /\ InsertNullifiers("confidential_transfer", {}, <<in0, in1>>, <<fee>>)
                /\ Insert("main", pub, <<out0, out1>>)
    BY Zenon DEF ConfidentialTransfer
  <2>2. PICK out0, out1, fee :
           /\ out0 \in NewNotes(1) /\ out1 \in NewNotes(2) /\ fee \in Field
           /\ TransferOutputs(in0, in1, out0, out1, fee, pub)
           /\ InsertNullifiers("confidential_transfer", {}, <<in0, in1>>, <<fee>>)
           /\ Insert("main", pub, <<out0, out1>>)
    BY <2>1, Zenon
  <2> QED BY <2>1, <2>2, Zenon
<1>2. in0 \in Spendable /\ in1 \in Spendable
  <2>1. in0 \in SpendableIn("main") /\ in1 \in SpendableIn("main")
    BY <1>1, CheckedInputsAreSpendable DEF CheckSpendRoots, TransferInputs, Trees
  <2> QED BY <2>1 DEF SpendableIn
<1>3. in0 \in Note /\ in1 \in Note
  BY <1>2, SpendableNotesAreNotes
<1>4. out0 \in Note /\ out1 \in Note
  BY <1>1, NewNotesAreNotes
<1>5. SpendsNotes("confidential_transfer", {}, <<in0, in1>>, <<fee>>)
  <2>1. /\ "confidential_transfer" \in Calls
        /\ <<in0, in1>> \in Seq(Note) /\ ToSet(<<in0, in1>>) \subseteq Spendable
        /\ <<fee>> \in Seq(Field)
    BY <1>1, <1>2, <1>3 DEF Calls, ToSet
  <2> QED BY <1>1, <2>1 DEF SpendsNotes
<1>6. in0 # in1 /\ fee \in Value
  <2>1. IsInjective(<<in0, in1>>) /\ \A k \in DOMAIN <<fee>> : <<fee>>[k] \in Value
    BY <1>5, CallIsRecorded
  <2> QED BY <2>1 DEF IsInjective
<1>7. ASSUME NEW a \in Assets
      PROVE  Share(out0, a) + Share(out1, a) <= Share(in0, a) + Share(in1, a)
  <2>1. /\ in0.asset = in1.asset /\ out0.asset = in0.asset /\ out1.asset = in0.asset
        /\ Balanced(in0.value + in1.value, out0.value + out1.value, fee)
    BY <1>1 DEF TransferInputs, TransferOutputs
  <2>2. /\ in0.value \in 0 .. MAX_VALUE /\ in1.value \in 0 .. MAX_VALUE
        /\ out0.value \in 0 .. MAX_VALUE /\ out1.value \in 0 .. MAX_VALUE
        /\ fee \in 0 .. MAX_VALUE
    BY <1>3, <1>4, <1>6 DEF Note, Value
  <2>3. in0.value + in1.value = (out0.value + out1.value) + fee
    <3>1. /\ in0.value + in1.value \in Nat /\ in0.value + in1.value <= 2 * MAX_VALUE
          /\ out0.value + out1.value \in Nat /\ out0.value + out1.value <= 2 * MAX_VALUE
      BY <2>2, NotesAssumption
    <3> QED BY <1>6, <2>1, <3>1, BalancedValues
  <2> QED BY <2>1, <2>2, <2>3, NotesAssumption DEF Share
<1>8. "main" \in Trees /\ UNCHANGED <<balance, recovered>>
  BY DEF ConfidentialTransfer, issuerVars, Trees
<1> QED BY <1>1, <1>2, <1>4, <1>5, <1>6, <1>7, <1>8, TwoPaid

LEMMA DvpCovers ==
  ASSUME TypeOK, SpendsAreRecorded, Solvent, Conserving',
         NEW pub, NEW anchor \in Anchors, NEW t \in Trees, IsRecentRoot(tree[t], anchor),
         NEW inX \in ToSet(anchor), NEW inY \in ToSet(anchor),
         CheckSpendRoots(pub), NullifierUnused(inX), NullifierUnused(inY),
         NEW outX \in Note, NEW outY \in Note, NEW feeX \in Field, NEW feeY \in Field,
         DvpStatement(anchor, inX, inY, outX, outY, feeX, feeY, pub),
         NEW call \in Calls, NEW legs \in SUBSET (IntentIds \X Legs),
         InsertNullifiers(call, legs, <<inX, inY>>, <<feeX, feeY>>),
         Insert("main", pub, <<outX, outY>>),
         UNCHANGED <<balance, recovered>>
  PROVE  Covered'
<1>1. inX \in Spendable /\ inY \in Spendable
  <2>1. inX \in SpendableIn(t) /\ inY \in SpendableIn(t)
    BY CheckedInputsAreSpendable DEF CheckSpendRoots, DvpStatement, DvpLegStatement
  <2> QED BY <2>1 DEF SpendableIn
<1>2. inX \in Note /\ inY \in Note
  BY <1>1, SpendableNotesAreNotes
<1>3. SpendsNotes(call, legs, <<inX, inY>>, <<feeX, feeY>>)
  <2>1. /\ <<inX, inY>> \in Seq(Note) /\ ToSet(<<inX, inY>>) \subseteq Spendable
        /\ <<feeX, feeY>> \in Seq(Field)
    BY <1>1, <1>2 DEF ToSet
  <2> QED BY <2>1 DEF SpendsNotes
<1>4. inX # inY /\ feeX \in Value /\ feeY \in Value
  <2>1. /\ IsInjective(<<inX, inY>>)
        /\ \A k \in DOMAIN <<feeX, feeY>> : <<feeX, feeY>>[k] \in Value
    BY <1>3, CallIsRecorded
  <2> QED BY <2>1 DEF IsInjective
<1>5. ASSUME NEW a \in Assets
      PROVE  Share(outX, a) + Share(outY, a) <= Share(inX, a) + Share(inY, a)
  <2>1. /\ outX.asset = inX.asset /\ Balanced(inX.value, outX.value, feeX)
        /\ outY.asset = inY.asset /\ Balanced(inY.value, outY.value, feeY)
    BY DEF DvpStatement, DvpLegStatement
  <2>2. Share(outX, a) <= Share(inX, a) /\ Share(outY, a) <= Share(inY, a)
    BY <1>2, <1>4, <2>1, ShareShrinks
  <2>3. PICK i0 \in Nat, i1 \in Nat, o0 \in Nat, o1 \in Nat :
           /\ i0 = Share(inX, a) /\ i1 = Share(inY, a)
           /\ o0 = Share(outX, a) /\ o1 = Share(outY, a)
    BY <1>2, ShareType
  <2> QED BY <2>2, <2>3
<1>6. "main" \in Trees
  BY DEF Trees
<1> QED BY <1>1, <1>3, <1>4, <1>5, <1>6, TwoPaid

LEMMA EscrowLegCovers ==
  ASSUME TypeOK, SpendsAreRecorded, Solvent, Conserving',
         NEW pub, NEW anchor \in Anchors, NEW u \in Trees, IsRecentRoot(tree[u], anchor),
         NEW in \in ToSet(anchor),
         CheckFrozenRootStrict(pub), NullifierUnused(in), NEW t \in Trees, NEW checked,
         NEW out \in Note, NEW fee \in Field,
         EscrowLegStatement(checked, anchor, in, out, fee, pub),
         NEW call \in Calls, NEW legs \in SUBSET (IntentIds \X Legs),
         InsertNullifiers(call, legs, <<in>>, <<fee>>),
         Insert(t, pub, <<out>>), UNCHANGED <<balance, recovered>>
  PROVE  Covered'
<1>1. in \in Spendable
  <2>1. in \in SpendableIn(u)
    BY CheckedInputsAreSpendable DEF EscrowLegStatement
  <2> QED BY <2>1 DEF SpendableIn
<1>2. in \in Note
  BY <1>1, SpendableNotesAreNotes
<1>3. SpendsNotes(call, legs, <<in>>, <<fee>>)
  <2>1. /\ <<in>> \in Seq(Note) /\ ToSet(<<in>>) \subseteq Spendable
        /\ <<fee>> \in Seq(Field)
    BY <1>1, <1>2 DEF ToSet
  <2> QED BY <2>1 DEF SpendsNotes
<1>4. fee \in Value
  <2>1. \A k \in DOMAIN <<fee>> : <<fee>>[k] \in Value
    BY <1>3, CallIsRecorded
  <2> QED BY <2>1
<1>5. out.asset = in.asset /\ Balanced(in.value, out.value, fee)
  BY DEF EscrowLegStatement
<1>6. \A a \in Assets : Share(out, a) <= Share(in, a)
  BY <1>2, <1>4, <1>5, ShareShrinks
<1> QED BY <1>1, <1>3, <1>6, OnePaid

LEMMA UnshieldCovers ==
  ASSUME TypeOK, SpendsAreRecorded, Solvent, Unshield, Conserving'
  PROVE  Covered'
<1>1. PICK anchor, pub, in, recipient, amount, fee, change :
         /\ anchor \in Anchors /\ in \in ToSet(anchor)
         /\ IsRecentRoot(tree["main"], anchor)
         /\ CheckSpendRoots(pub) /\ NullifierUnused(in)
         /\ amount \in Value /\ fee \in Field
         /\ change \in {<< >>} \cup {<<c>> : c \in NewNotes(1)}
         /\ UnshieldStatement(anchor, in, amount, recipient, change, fee, pub)
         /\ InsertNullifiers("unshield", {}, <<in>>, <<fee>>)
         /\ Insert("main", pub, change)
         /\ PayOut(in.asset, amount)
  BY Zenon DEF Unshield
<1>2. in \in Spendable
  <2>1. in \in SpendableIn("main")
    BY <1>1, CheckedInputsAreSpendable DEF CheckSpendRoots, UnshieldStatement, Trees
  <2> QED BY <2>1 DEF SpendableIn
<1>3. in \in Claims /\ in \in Note /\ Claims \in SUBSET Note /\ IsFiniteSet(Claims)
  BY <1>2, SpendableCounts, ClaimsFinite
<1>4. SpendsNotes("unshield", {}, <<in>>, <<fee>>)
  <2>1. /\ "unshield" \in Calls
        /\ <<in>> \in Seq(Note) /\ ToSet(<<in>>) \subseteq Spendable
        /\ <<fee>> \in Seq(Field)
    BY <1>1, <1>2, <1>3 DEF Calls, ToSet
  <2> QED BY <1>1, <2>1 DEF SpendsNotes
<1>5. Spent' = Spent \cup {in} /\ fee \in Value
  <2>1. ToSet(<<in>>) = {in}
    BY DEF ToSet
  <2>2. \A k \in DOMAIN <<fee>> : <<fee>>[k] \in Value
    BY <1>4, CallIsRecorded
  <2> QED BY <1>4, <2>1, <2>2, CallIsRecorded
<1>11. /\ in.asset \in Assets /\ in.value \in 0 .. MAX_VALUE
       /\ amount \in 0 .. MAX_VALUE /\ fee \in 0 .. MAX_VALUE
  BY <1>1, <1>3, <1>5 DEF Note, Value
<1>6. UNCHANGED recovered /\ "main" \in Trees
  BY DEF Unshield, issuerVars, Trees
<1> SUFFICES ASSUME NEW a \in Assets
             PROVE  Worth(Claims', a) <= balance'[a]
  BY DEF Covered, Worth
<1>7. PICK w \in Nat, i \in Nat, b \in Nat :
         w = Worth(Claims, a) /\ i = Share(in, a) /\ b = balance[a] /\ w <= b
  BY <1>3, WorthType, ShareType DEF TypeOK, Solvent, Covered
<1>8. balance'[a] = IF in.asset = a THEN b - amount ELSE b
  BY <1>1, <1>11, <1>7 DEF PayOut, TypeOK
<1>9. CASE change = << >>
  <2>1. Emitted' = Emitted
    <3>1. << >> \in Seq(Note) /\ ToSet(<< >>) = {}
      BY DEF ToSet
    <3> QED BY <1>1, <1>6, <1>9, <3>1, InsertEmits
  <2>2. Claims' \in SUBSET (Claims \ {in})
    BY <1>5, <1>6, <2>1 DEF Claims
  <2>3. IsFiniteSet(Claims \ {in}) /\ IsFiniteSet(Claims') /\ Claims' \in SUBSET Note
    BY <1>3, <2>2, FS_Subset
  <2>4. PICK r \in Nat, v \in Nat : r = Worth(Claims \ {in}, a) /\ v = Worth(Claims', a)
    BY <1>3, <2>3, WorthType
  <2>5. w = i + r
    BY <1>3, <1>7, <2>4, WorthSplit
  <2>6. v <= r
    BY <1>3, <2>2, <2>3, <2>4, WorthMonotonic
  <2>7. in.value = amount + fee
    <3>1. Balanced(in.value, amount + 0, fee)
      BY <1>1, <1>9 DEF UnshieldStatement
    <3>2. amount + 0 = amount /\ amount \in Nat /\ amount <= 2 * MAX_VALUE
      BY <1>11, NotesAssumption
    <3>3. in.value \in Nat /\ in.value <= 2 * MAX_VALUE
      BY <1>11, NotesAssumption
    <3> QED BY <1>5, <3>1, <3>2, <3>3, BalancedValues
  <2>8. in.asset = a => i = amount + fee
    BY <1>7, <2>7 DEF Share
  <2> QED BY <1>7, <1>11, NotesAssumption, <1>8, <2>4, <2>5, <2>6, <2>8
<1>10. ASSUME NEW c \in NewNotes(1), change = <<c>>
       PROVE  Worth(Claims', a) <= balance'[a]
  <2>1. c \in Note
    BY NewNotesAreNotes
  <2>2. Emitted' = Emitted \cup {c}
    <3>1. <<c>> \in Seq(Note) /\ ToSet(<<c>>) = {c}
      BY <2>1 DEF ToSet
    <3> QED BY <1>1, <1>6, <1>10, <3>1, InsertEmits
  <2>3. Claims' \in SUBSET ((Claims \ {in}) \cup {c})
    BY <1>5, <1>6, <2>2 DEF Claims
  <2>4. Worth(Claims', a) + Share(in, a) <= Worth(Claims, a) + Share(c, a)
    BY <1>3, <2>1, <2>3, OneForOne
  <2>5. IsFiniteSet(Claims') /\ Claims' \in SUBSET Note
    <3>1. IsFiniteSet(Claims \cup {c}) /\ Claims' \in SUBSET (Claims \cup {c})
      BY <1>3, <2>3, FS_AddElement
    <3> QED BY <1>3, <2>1, <3>1, FS_Subset
  <2>6. PICK v \in Nat, o \in Nat : v = Worth(Claims', a) /\ o = Share(c, a)
    BY <2>1, <2>5, WorthType, ShareType
  <2>7. /\ c.asset = in.asset /\ in.value = (amount + c.value) + fee
        /\ c.value \in Nat
    <3>1. <<c>> # << >> /\ <<c>>[1] = c /\ 1 \in DOMAIN <<c>>
      OBVIOUS
    <3>2. c.asset = in.asset /\ Balanced(in.value, amount + c.value, fee)
      BY <1>1, <1>10, <3>1 DEF UnshieldStatement
    <3>3. c.value \in 0 .. MAX_VALUE
      BY <2>1 DEF Note, Value
    <3>4. /\ amount + c.value \in Nat /\ amount + c.value <= 2 * MAX_VALUE
          /\ in.value \in Nat /\ in.value <= 2 * MAX_VALUE
      BY <1>11, <3>3, NotesAssumption
    <3>5. in.value = (amount + c.value) + fee
      BY <1>5, <3>2, <3>4, BalancedValues
    <3> QED BY <3>2, <3>3, <3>5
  <2>8. /\ in.asset = a => i = amount + fee + o
        /\ in.asset # a => i = o
    BY <1>7, <1>11, <2>6, <2>7, NotesAssumption DEF Share
  <2> QED BY <1>7, <1>11, NotesAssumption, <1>8, <2>4, <2>6, <2>8
<1> QED BY <1>1, <1>9, <1>10

\* The note a recovery replaces has counted until now.
LEMMA RecoveryCovers ==
  ASSUME TypeOK, Solvent, MintRecovery
  PROVE  Covered'
<1>1. PICK pub, cm, out :
         /\ cm \in Recoverable /\ out \in NewNotes(1)
         /\ out.asset = cm.asset /\ out.value = cm.value
         /\ Insert("main", pub, <<out>>)
         /\ recovered' = recovered \cup {cm}
  BY DEF MintRecovery
<1>2. out \in Note
  BY <1>1, NewNotesAreNotes
<1>3. cm \in Claims
  BY <1>1 DEF Recoverable, Claims, Solvent, Spent
<1>4. Claims \in SUBSET Note /\ IsFiniteSet(Claims)
  BY ClaimsFinite
<1>5. Emitted' = Emitted \cup {out}
  <2>1. <<out>> \in Seq(Note) /\ ToSet(<<out>>) = {out} /\ "main" \in Trees
    BY <1>2 DEF ToSet, Trees
  <2> QED BY <1>1, <2>1, InsertEmits
<1>6. Claims' \in SUBSET ((Claims \ {cm}) \cup {out})
  BY <1>1, <1>5 DEF MintRecovery, Claims, Spent
<1> SUFFICES ASSUME NEW a \in Assets
             PROVE  Worth(Claims', a) <= balance'[a]
  BY DEF Covered, Worth
<1>7. Worth(Claims', a) + Share(cm, a) <= Worth(Claims, a) + Share(out, a)
  BY <1>2, <1>3, <1>4, <1>6, OneForOne
<1>8. IsFiniteSet(Claims') /\ Claims' \in SUBSET Note
  <2>1. IsFiniteSet(Claims \cup {out}) /\ Claims' \in SUBSET (Claims \cup {out})
    BY <1>4, <1>6, FS_AddElement
  <2> QED BY <1>2, <1>4, <2>1, FS_Subset
<1>9. PICK v \in Nat, w \in Nat, o \in Nat :
         /\ v = Worth(Claims', a) /\ w = Worth(Claims, a)
         /\ o = Share(out, a) /\ o = Share(cm, a)
  <2>1. Share(out, a) = Share(cm, a)
    BY <1>1 DEF Share
  <2> QED BY <1>2, <1>4, <1>8, <2>1, WorthType, ShareType
<1>10. PICK b \in Nat : b = balance[a] /\ b = balance'[a] /\ w <= b
  BY <1>9 DEF TypeOK, Solvent, Covered, MintRecovery
<1> QED BY <1>7, <1>9, <1>10

LEMMA StepCovers ==
  ASSUME TypeOK, SpendsAreRecorded, Solvent, [Next]_vars, Conserving'
  PROVE  Covered'
<1>1. CASE SettleDvp
  <2>1. PICK anchor \in Anchors, pub \in Observations("main") :
           /\ IsRecentRoot(tree["main"], anchor)
           /\ CheckSpendRoots(pub)
           /\ \E inX, inY \in ToSet(anchor) :
                 /\ NullifierUnused(inX)
                 /\ NullifierUnused(inY)
                 /\ \E outX \in NewNotes(1), feeX \in Field :
                      \E outY \in NewNotes(2), feeY \in Field :
                         /\ DvpStatement(anchor, inX, inY, outX, outY, feeX, feeY, pub)
                         /\ InsertNullifiers("settle_dvp", {}, <<inX, inY>>, <<feeX, feeY>>)
                         /\ Insert("main", pub, <<outX, outY>>)
    BY <1>1 DEF SettleDvp
  <2>2. PICK inX, inY, outX, feeX, outY, feeY :
           /\ inX \in ToSet(anchor) /\ inY \in ToSet(anchor)
           /\ NullifierUnused(inX) /\ NullifierUnused(inY)
           /\ outX \in NewNotes(1) /\ feeX \in Field
           /\ outY \in NewNotes(2) /\ feeY \in Field
           /\ DvpStatement(anchor, inX, inY, outX, outY, feeX, feeY, pub)
           /\ InsertNullifiers("settle_dvp", {}, <<inX, inY>>, <<feeX, feeY>>)
           /\ Insert("main", pub, <<outX, outY>>)
    BY <2>1, Zenon
  <2>3. /\ outX \in Note /\ outY \in Note /\ UNCHANGED <<balance, recovered>>
        /\ "main" \in Trees /\ "settle_dvp" \in Calls
    BY <1>1, <2>2, NewNotesAreNotes DEF SettleDvp, issuerVars, Trees, Calls
  <2>4. {} \in SUBSET (IntentIds \X Legs)
    OBVIOUS
  <2> QED BY <2>1, <2>2, <2>3, <2>4, DvpCovers
<1>2. ASSUME NEW i \in IntentIds, SettleIntent(i)
      PROVE  Covered'
  <2>1. PICK anchor, pub, inX, inY, feeX, feeY :
           /\ anchor \in Anchors /\ inX \in ToSet(anchor) /\ inY \in ToSet(anchor)
           /\ IsRecentRoot(tree["escrow"], anchor)
           /\ feeX \in Field /\ feeY \in Field
           /\ CheckSpendRoots(pub)
           /\ NullifierUnused(inX) /\ NullifierUnused(inY)
           /\ DvpStatement(anchor, inX, inY, Terms[i].out["b"], Terms[i].out["a"], feeX, feeY, pub)
           /\ InsertNullifiers("settle_intent", {i} \X Legs, <<inX, inY>>, <<feeX, feeY>>)
           /\ Insert("main", pub, <<Terms[i].out["b"], Terms[i].out["a"]>>)
    BY <1>2, Zenon DEF SettleIntent
  <2>2. /\ Terms[i].out["b"] \in Note /\ Terms[i].out["a"] \in Note
        /\ UNCHANGED <<balance, recovered>>
        /\ "escrow" \in Trees /\ "settle_intent" \in Calls
    BY <1>2, TermsAreNotes DEF SettleIntent, issuerVars, Legs, Trees, Calls
  <2>3. PICK legs \in SUBSET (IntentIds \X Legs) : legs = {i} \X Legs
    OBVIOUS
  <2>4. InsertNullifiers("settle_intent", legs, <<inX, inY>>, <<feeX, feeY>>)
    BY <2>1, <2>3, Zenon
  <2> QED BY <2>1, <2>2, <2>4, DvpCovers
<1>3. ASSUME NEW i \in IntentIds, NEW leg \in Legs, EscrowDeposit(i, leg)
      PROVE  Covered'
  <2>1. PICK anchor, pub, in, fee :
           /\ fee \in Field /\ anchor \in Anchors /\ in \in ToSet(anchor)
           /\ IsRecentRoot(tree["main"], anchor)
           /\ CheckFrozenRootStrict(pub) /\ NullifierUnused(in)
           /\ EscrowLegStatement(FALSE, anchor, in, Terms[i].escrow[leg], fee, pub)
           /\ InsertNullifiers("escrow_deposit", {}, <<in>>, <<fee>>)
           /\ Insert("escrow", pub, <<Terms[i].escrow[leg]>>)
    BY <1>3, Zenon DEF EscrowDeposit
  <2>2. /\ Terms[i].escrow[leg] \in Note /\ "escrow" \in Trees /\ "main" \in Trees
        /\ UNCHANGED <<balance, recovered>>
        /\ "escrow_deposit" \in Calls
    BY <1>3, TermsAreNotes DEF EscrowDeposit, issuerVars, Trees, Calls
  <2>3. {} \in SUBSET (IntentIds \X Legs)
    OBVIOUS
  <2> QED BY <2>1, <2>2, <2>3, EscrowLegCovers
<1>4. ASSUME NEW i \in IntentIds, NEW leg \in Legs, EscrowRefund(i, leg)
      PROVE  Covered'
  <2>1. PICK anchor, pub, in, fee :
           /\ fee \in Field /\ anchor \in Anchors /\ in \in ToSet(anchor)
           /\ IsRecentRoot(tree["escrow"], anchor)
           /\ CheckSpendRoots(pub) /\ NullifierUnused(in)
           /\ EscrowLegStatement(TRUE, anchor, in, Terms[i].refund[leg], fee, pub)
           /\ InsertNullifiers("escrow_refund", {<<i, leg>>}, <<in>>, <<fee>>)
           /\ Insert("main", pub, <<Terms[i].refund[leg]>>)
    BY <1>4, Zenon DEF EscrowRefund
  <2>2. /\ Terms[i].refund[leg] \in Note /\ "main" \in Trees /\ "escrow" \in Trees
        /\ UNCHANGED <<balance, recovered>>
        /\ "escrow_refund" \in Calls /\ CheckFrozenRootStrict(pub)
    BY <1>4, <2>1, TermsAreNotes DEF EscrowRefund, issuerVars, Trees, Calls, CheckSpendRoots
  <2>3. {<<i, leg>>} \in SUBSET (IntentIds \X Legs)
    OBVIOUS
  <2> QED BY <2>1, <2>2, <2>3, EscrowLegCovers
<1>5. CASE \/ UpdateKycRoot \/ UpdateSanctionRoot \/ UpdateAssetsRoot \/ RegisterAsset
           \/ RegisterTransparent \/ Freeze \/ CloseLedger
           \/ \E i \in IntentIds : CreateIntent(i)
           \/ UNCHANGED vars
  <2>1. UNCHANGED <<log, spends, recovered, balance>>
    BY <1>5 DEF UpdateKycRoot, UpdateSanctionRoot, UpdateAssetsRoot, RegisterAsset,
                RegisterTransparent, Freeze, CloseLedger, CreateIntent, vars, issuerVars
  <2>2. Claims' = Claims
    BY <2>1 DEF Claims, Emitted, Committed, Spent
  <2> QED BY <2>1, <2>2 DEF Solvent, Covered, Worth
<1> QED BY <1>1, <1>2, <1>3, <1>4, <1>5, ShieldCovers, TransferCovers, UnshieldCovers, RecoveryCovers
        DEF Next

\* Freezes are of emitted notes, and recoveries of frozen ones.
LEMMA StepFreezes ==
  ASSUME recovered \subseteq frozen, [Next]_vars
  PROVE  recovered' \subseteq frozen'
<1>1. CASE UNCHANGED <<frozen, recovered>>
  BY <1>1
<1>2. CASE Freeze
  BY <1>2 DEF Freeze
<1>3. CASE MintRecovery
  <2>1. UNCHANGED frozen /\ \E cm \in Recoverable : recovered' = recovered \cup {cm}
    BY <1>3 DEF MintRecovery
  <2> QED BY <2>1 DEF Recoverable
<1>4. [Next]_vars => Freeze \/ MintRecovery \/ UNCHANGED <<frozen, recovered>>
  BY DEF Next, vars, issuerVars, Shield, ConfidentialTransfer, SettleDvp, Unshield, UpdateKycRoot,
         UpdateSanctionRoot, UpdateAssetsRoot, RegisterAsset, RegisterTransparent,
         CreateIntent, EscrowDeposit, SettleIntent, EscrowRefund, CloseLedger
<1> QED BY <1>1, <1>2, <1>3, <1>4

LEMMA InitValue == Init => ValueOK
<1> SUFFICES ASSUME Init PROVE ValueOK
  OBVIOUS
<1>1. /\ frozen = {} /\ recovered = {} /\ frozenRoot = {}
      /\ log = [t \in Trees |-> << >>] /\ balance = [a \in Assets |-> 0]
  BY DEF Init
<1>2. Claims = {}
  BY <1>1 DEF Claims, Emitted, Committed, ToSet, Trees
<1>3. \A a : {n \in Claims : n.asset = a} = {}
  BY <1>2
<1>4. \A a \in Assets : Worth(Claims, a) = 0 /\ balance[a] = 0
  BY <1>1, <1>3, ValueOfNone, Zenon DEF Worth
<1>5. Covered
  <2> SUFFICES ASSUME NEW a \in Assets
               PROVE  Worth(Claims, a) <= balance[a]
    BY DEF Covered
  <2>1. PICK w : w = Worth(Claims, a)
    OBVIOUS
  <2>2. w = 0 /\ balance[a] = 0
    BY <1>4, <2>1
  <2> QED BY <2>1, <2>2
<1> QED BY <1>1, <1>5 DEF ValueOK, FrozenRootCurrent

LEMMA StepValue ==
  ASSUME ~ISSUER_LAGS, TypeOK, SpendsAreRecorded, ValueOK, [Next]_vars
  PROVE  ValueOK'
<1>1. FrozenRootCurrent' /\ recovered' \subseteq frozen'
  BY StepFreezes, StepFrozenRoot DEF ValueOK
<1>2. ASSUME Conserving'
      PROVE  Covered'
  <2>1. Conserving
    BY <1>2, ConservingBefore
  <2>2. Solvent
    BY <2>1 DEF ValueOK, Solvent
  <2> QED BY <1>2, <2>2, StepCovers
<1> QED BY <1>1, <1>2 DEF ValueOK

\* The notes that can still be spent are among the claims.
LEMMA CoveredIsBacked ==
  ASSUME TypeOK, ValueOK
  PROVE  Backed
<1> SUFFICES ASSUME Conserving, NEW a \in Assets
             PROVE  ValueOf({n \in Live : n.asset = a}) <= balance[a]
  BY DEF Backed, Conserving
<1>1. Claims \in SUBSET Note /\ IsFiniteSet(Claims)
  BY ClaimsFinite
<1>2. Live \in SUBSET Claims
  BY DEF Live, Claims, ValueOK
<1>3. IsFiniteSet(Live) /\ Live \in SUBSET Note
  BY <1>1, <1>2, FS_Subset
<1>4. PICK v \in Nat, w \in Nat : v = Worth(Live, a) /\ w = Worth(Claims, a)
  BY <1>1, <1>3, WorthType
<1>5. v <= w
  BY <1>1, <1>2, <1>4, WorthMonotonic
<1>6. w <= balance[a] /\ balance[a] \in Nat
  BY <1>4 DEF ValueOK, Covered, TypeOK
<1>7. Worth(Live, a) <= balance[a]
  BY <1>4, <1>5, <1>6
<1> QED BY <1>7 DEF Worth

\* With an issuer that computes each new root from the whole frozen set, and as long
\* as no call names a note twice or a fee that is no value, the contract's tokens
\* cover all that can still be unshielded, in every asset, after any sequence of
\* shields, transfers, swaps, escrows, freezes and recoveries, repeated commitments
\* included.
THEOREM ValueBacked ==
  ASSUME ~ISSUER_LAGS
  PROVE  Spec => []Backed
<1>1. Init => TypeOK /\ SpendsAreRecorded /\ NoDoubleSpend /\ ValueOK
  BY InitTypes, InitRecords, InitValue
<1>2. TypeOK /\ SpendsAreRecorded /\ NoDoubleSpend /\ ValueOK /\ [Next]_vars
        => (TypeOK /\ SpendsAreRecorded /\ NoDoubleSpend /\ ValueOK)'
  BY StepTypes, StepRecords, StepValue
<1>3. TypeOK /\ ValueOK => Backed
  BY CoveredIsBacked
<1> QED BY <1>1, <1>2, <1>3, PTL DEF Spec
=============================================================================
