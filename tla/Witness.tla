------------------------------ MODULE Witness ------------------------------
(***************************************************************************)
(* The SDK's witness builders (sdk/src/witness.ts) and the public inputs    *)
(* read off them (sdk/src/publicInputs.ts).                                 *)
(*                                                                         *)
(* A builder checks nothing: it derives commitments, nullifiers and the     *)
(* tree transition from what it is handed, and the circuit decides whether  *)
(* the result can be proved.  Keys, paths and ciphertexts follow from the   *)
(* notes and are left out.                                                  *)
(***************************************************************************)
EXTENDS Circuits, SequencesExt

Kinds == {"shield", "transfer", "unshield", "dvp", "deposit", "refund"}

\* anchor is the leaves behind the anchor root; amount and recipient are the
\* public leg of an unshield.  All fees are zero, as every caller sets them.
Witnesses ==
  [kind : Kinds, anchor : Leaves, ins : Seq(Note), outs : Seq(Note),
   amount : Nat, recipient : Owners \cup {<< >>}]

----------------------------------------------------------------------------
ShieldWitness(out) ==
  [kind |-> "shield", anchor |-> << >>, ins |-> << >>, outs |-> <<out>>,
   amount |-> out.value, recipient |-> << >>]

TransferWitness(anchor, in0, in1, out0, out1) ==
  [kind |-> "transfer", anchor |-> anchor, ins |-> <<in0, in1>>, outs |-> <<out0, out1>>,
   amount |-> 0, recipient |-> << >>]

\* change is << >> (an exact spend, the zero sentinel) or << note >>.
UnshieldWitness(anchor, in, amount, recipient, change) ==
  [kind |-> "unshield", anchor |-> anchor, ins |-> <<in>>, outs |-> change,
   amount |-> amount, recipient |-> recipient]

\* Fault: the output keeps the asset it was asked for.
LegOutputAsAsked(in, out) == out

\* Each leg's output takes the asset of the note it spends.
LegOutput(in, out) == [out EXCEPT !.asset = in.asset]

DvpWitness(anchor, inX, inY, outX, outY) ==
  [kind |-> "dvp", anchor |-> anchor, ins |-> <<inX, inY>>,
   outs |-> <<LegOutput(inX, outX), LegOutput(inY, outY)>>, amount |-> 0, recipient |-> << >>]

\* kind is "deposit" or "refund".
EscrowLegWitness(kind, anchor, in, out) ==
  [kind |-> kind, anchor |-> anchor, ins |-> <<in>>, outs |-> <<LegOutput(in, out)>>,
   amount |-> 0, recipient |-> << >>]

----------------------------------------------------------------------------
\* What the circuit of the witness's kind proves about it.
Provable(w, pub) ==
  \/ w.kind = "shield" /\ ShieldStatement(w.outs[1], pub)
  \/ /\ w.kind = "transfer"
     /\ TransferInputs(w.anchor, w.ins[1], w.ins[2], pub)
     /\ TransferOutputs(w.ins[1], w.ins[2], w.outs[1], w.outs[2], 0, pub)
  \/ /\ w.kind = "unshield"
     /\ UnshieldStatement(w.anchor, w.ins[1], w.amount, w.recipient, w.outs, 0, pub)
  \/ /\ w.kind = "dvp"
     /\ DvpStatement(w.anchor, w.ins[1], w.ins[2], w.outs[1], w.outs[2], 0, 0, pub)
  \/ /\ w.kind \in {"deposit", "refund"}
     /\ EscrowLegStatement(w.kind = "refund", w.anchor, w.ins[1], w.outs[1], 0, pub)

\* The public inputs of a proof: what the transaction carries to the contract.
PublicInputs(w, pub) ==
  [kind       |-> w.kind,
   anchor     |-> w.anchor,
   nullifiers |-> [i \in DOMAIN w.ins |-> Nullifier(w.ins[i])],
   outputs    |-> w.outs,
   newRoot    |-> FrontierTransition(pub.frontier, pub.nextIndex, w.outs),
   amount     |-> w.amount,
   recipient  |-> w.recipient,
   pub        |-> pub]
=============================================================================
