------------------------------ MODULE Circuits ------------------------------
(***************************************************************************)
(* The statements the Groth16 circuits prove (circuits/lib/ *.circom), as    *)
(* predicates over the public inputs and the private openings.  A sound     *)
(* proof exists exactly when the predicate holds for some opening.          *)
(*                                                                         *)
(* pub is the record of public inputs the contract compares with its state: *)
(*   kyc, sanction, assets, frozen   roots, as the sets they commit to      *)
(*   frontier, nextIndex             the tree the output is inserted into   *)
(* anchor is the root the spent notes are included in.                      *)
(* The ciphertexts are functions of the output openings and are left out.   *)
(*                                                                         *)
(* Values are range-checked, a fee is not: it is whatever field element     *)
(* makes the two sides of the balance equal in the field.                   *)
(***************************************************************************)
EXTENDS CommitmentTree, ScalarField

\* No sum of three values wraps: 3 * 2^64 is far below the order of the field.
ASSUME SumsFit == 3 * MAX_VALUE < FR_MODULUS

Balanced(inputs, outputs, fee) == Mod(inputs) = Mod(outputs + fee)

\* Knowledge of owner_sk, the range check, inclusion under the anchor root and
\* non-membership of the spent commitment in the frozen set.
SpendOK(n, anchor, pub) ==
  /\ n.value \in Value
  /\ \E i \in DOMAIN anchor : anchor[i] = n
  /\ n \notin pub.frozen

\* Registry membership of the asset and the per-transaction limit, which must be in
\* the range of the values itself.
AssetsMembership(asset, value, pub) ==
  \E leaf \in pub.assets : leaf.asset = asset /\ leaf.limit \in Value /\ value <= leaf.limit

KycMembership(identity, pub) == identity \in pub.kyc
SanctionNonMembership(identity, pub) == identity \notin pub.sanction

\* Fault, for testing the properties: the sanction list is not consulted.
RecipientApproved(identity, pub) == KycMembership(identity, pub)

Recipient(identity, pub) ==
  KycMembership(identity, pub) /\ SanctionNonMembership(identity, pub)

----------------------------------------------------------------------------
\* shield.circom: the note opens to the public (asset_id, amount); no input.
ShieldStatement(out, pub) ==
  /\ out.value \in Value
  /\ AssetsMembership(out.asset, out.value, pub)
  /\ KycMembership(out.owner, pub)
  /\ IndicesFit(pub.nextIndex, 1)

\* transfer.circom, the two inputs: one spender, one asset.  The inputs are not
\* compared with each other.
TransferInputs(anchor, in0, in1, pub) ==
  /\ SpendOK(in0, anchor, pub)
  /\ SpendOK(in1, anchor, pub)
  /\ in0.owner = in1.owner
  /\ in0.asset = in1.asset

\* transfer.circom, the two outputs: the recipient is the first one's owner, and
\* the owner of the second one, the change, is free.
TransferOutputs(in0, in1, out0, out1, fee, pub) ==
  /\ Balanced(in0.value + in1.value, out0.value + out1.value, fee)
  /\ \A out \in {out0, out1} :
        /\ out.value \in Value
        /\ out.asset = in0.asset
        /\ AssetsMembership(out.asset, out.value, pub)
  /\ Recipient(out0.owner, pub)
  /\ IndicesFit(pub.nextIndex, 2)

\* Fault, for testing the properties: the change is left out of the balance.
UnshieldWithoutChange(anchor, in, amount, recipient, change, fee, pub) ==
  /\ Balanced(in.value, amount, fee)
  /\ SpendOK(in, anchor, pub)
  /\ amount \in Value
  /\ \A i \in DOMAIN change :
        change[i].value \in Value /\ change[i].asset = in.asset
  /\ AssetsMembership(in.asset, amount, pub)
  /\ Recipient(recipient, pub)
  /\ IndicesFit(pub.nextIndex, 1)

\* unshield.circom: change is << >> (the zero sentinel) or << note >>, whose owner
\* is free.
UnshieldStatement(anchor, in, amount, recipient, change, fee, pub) ==
  /\ Balanced(in.value, amount + (IF change = << >> THEN 0 ELSE change[1].value), fee)
  /\ SpendOK(in, anchor, pub)
  /\ amount \in Value
  /\ \A i \in DOMAIN change :
        change[i].value \in Value /\ change[i].asset = in.asset
  /\ AssetsMembership(in.asset, amount, pub)
  /\ Recipient(recipient, pub)
  /\ IndicesFit(pub.nextIndex, 1)

\* escrow_leg.circom: one input, one output; only the refund instance checks
\* the recipient.
EscrowLegStatement(checkRecipient, anchor, in, out, fee, pub) ==
  /\ Balanced(in.value, out.value, fee)
  /\ SpendOK(in, anchor, pub)
  /\ out.value \in Value
  /\ out.asset = in.asset
  /\ AssetsMembership(out.asset, out.value, pub)
  /\ checkRecipient => Recipient(out.owner, pub)
  /\ IndicesFit(pub.nextIndex, 1)

\* dvp.circom, one leg and the pair.  Each leg has a spender of its own.
DvpLegStatement(anchor, in, out, fee, pub) ==
  /\ Balanced(in.value, out.value, fee)
  /\ SpendOK(in, anchor, pub)
  /\ out.value \in Value
  /\ out.asset = in.asset
  /\ AssetsMembership(out.asset, out.value, pub)
  /\ Recipient(out.owner, pub)

DvpStatement(anchor, inX, inY, outX, outY, feeX, feeY, pub) ==
  /\ DvpLegStatement(anchor, inX, outX, feeX, pub)
  /\ DvpLegStatement(anchor, inY, outY, feeY, pub)
  /\ IndicesFit(pub.nextIndex, 2)
=============================================================================
