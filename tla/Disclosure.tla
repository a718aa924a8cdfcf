----------------------------- MODULE Disclosure -----------------------------
(***************************************************************************)
(* Reading notes off their ciphertexts: the auditor's disclosure            *)
(* (sdk/src/encrypt.ts, disclose.ts), the console's view of it              *)
(* (frontend/lib/finnes-client.ts) and the recipient's scan (scan.ts).      *)
(*                                                                         *)
(* A ciphertext is its plaintext under a key.  Another key gives field      *)
(* elements that have nothing to do with the note, and the value is out of  *)
(* the 64-bit range (but for one key in 2^191).                             *)
(***************************************************************************)
EXTENDS Notes, SequencesExt

\* All-zero slots, published with the sentinel commitment of an exact unshield.
NoCiphertext == << >>
Sentinel == << >>

Garbage == [value |-> MAX_VALUE + 1, asset |-> << >>, owner |-> 0, rho |-> 0]

EncryptToAuditor(note, kView) ==
  [key |-> kView, plain |-> [value |-> note.value, asset |-> note.asset,
                             owner |-> note.owner, rho |-> note.rho]]

DecryptAuditor(c, kView) == IF c.key = kView THEN c.plain ELSE Garbage

\* The recipient's ciphertext does not carry the owner.
EncryptToRecipient(note, kPair) ==
  [key |-> kPair, plain |-> [value |-> note.value, asset |-> note.asset, rho |-> note.rho]]

DecryptRecipient(c, kPair) ==
  IF c.key = kPair THEN c.plain ELSE [value |-> MAX_VALUE + 1, asset |-> << >>, rho |-> 0]

----------------------------------------------------------------------------
(* The auditor.                                                            *)

IsSentinel(commitment) == commitment = Sentinel

\* Fault: recipient and change change places.
RoleForSwapped(circuit, index, total) ==
  CASE circuit = "transfer" /\ total = 2 -> IF index = 1 THEN "change" ELSE "recipient"
    [] circuit = "unshield" -> "change"
    [] circuit = "shield" -> "recipient"
    [] OTHER -> "output"

RoleFor(circuit, index, total) ==
  CASE circuit = "transfer" /\ total = 2 -> IF index = 1 THEN "recipient" ELSE "change"
    [] circuit = "dvp" /\ total = 2 -> IF index = 1 THEN "leg_x" ELSE "leg_y"
    [] circuit = "unshield" -> "change"
    [] circuit = "shield" -> "recipient"
    [] OTHER -> "output"

DiscloseNote(obs, kView, role) ==
  LET pt == DecryptAuditor(obs.cAuditor, kView)
  IN  [value |-> pt.value, asset |-> pt.asset, owner |-> pt.owner, role |-> role,
       valueInRange |-> pt.value \in Value]

\* The roles come from the positions before the sentinel is dropped.
DiscloseTransaction(tx, kView) ==
  FlattenSeq([i \in DOMAIN tx.outputs |->
                IF IsSentinel(tx.outputs[i].commitment)
                THEN << >>
                ELSE <<DiscloseNote(tx.outputs[i], kView, RoleFor(tx.circuit, i, Len(tx.outputs)))>>])

\* indexTransactions: an exact unshield is listed without an output.
ListedOutputs(tx) ==
  FlattenSeq([i \in DOMAIN tx.outputs |->
                IF IsSentinel(tx.outputs[i].commitment) THEN << >> ELSE <<tx.outputs[i]>>])

NoReveal == << >>

AuditView(status, outputs, asset, amount, recipient, sender) ==
  [status |-> status, outputs |-> outputs, asset |-> asset, amount |-> amount,
   recipient |-> recipient, sender |-> sender]

NoView == AuditView("none", << >>, << >>, 0, 0, << >>)

\* decryptAuditorView: what the panel shows, or the error it shows.
DecryptAuditorView(tx, kView) ==
  LET listed == [tx EXCEPT !.outputs = ListedOutputs(tx)]
      disclosed == DiscloseTransaction(listed, kView)
      change == {i \in DOMAIN disclosed : disclosed[i].role = "change"}
      reveal == tx.publicReveal
  IN  CASE listed.outputs = << >> /\ reveal # NoReveal ->
             AuditView("public", << >>, reveal.asset, reveal.amount, reveal.recipient, <<"hidden">>)
        [] listed.outputs = << >> /\ reveal = NoReveal -> [NoView EXCEPT !.status = "nothing"]
        [] listed.outputs # << >> /\ ~disclosed[1].valueInRange -> [NoView EXCEPT !.status = "wrong key"]
        [] OTHER ->
             AuditView("revealed", disclosed, disclosed[1].asset, disclosed[1].value, disclosed[1].owner,
                       CASE change # {} -> <<"party", disclosed[Min(change)].owner>>
                         [] change = {} /\ tx.circuit = "shield" -> <<"transparent deposit">>
                         [] OTHER -> <<"unknown">>)

----------------------------------------------------------------------------
(* The recipient.                                                          *)

\* Fault: whatever decrypts is taken.
TryDecryptUnchecked(obs, ctx) ==
  LET pt == DecryptRecipient(obs.cRecipient, ctx.key)
  IN  IF pt.value \in Value
      THEN << [asset |-> pt.asset, value |-> pt.value, owner |-> ctx.owner, rho |-> pt.rho] >>
      ELSE << >>

\* The note, or nothing when the recomputed commitment is not the observed one.
TryDecryptNote(obs, ctx) ==
  LET pt == DecryptRecipient(obs.cRecipient, ctx.key)
      note == [asset |-> pt.asset, value |-> pt.value, owner |-> ctx.owner, rho |-> pt.rho]
  IN  IF pt.value \in Value /\ note = obs.commitment THEN <<note>> ELSE << >>

ScanForOwnedNotes(observations, ctx) ==
  FlattenSeq([i \in DOMAIN observations |-> TryDecryptNote(observations[i], ctx)])

\* Per asset, never summed across assets.
AggregateByAsset(notes) ==
  [a \in {notes[i].asset : i \in DOMAIN notes} |->
     LET mine == {i \in DOMAIN notes : notes[i].asset = a}
     IN  [rawAmount |-> MapThenSumSet(LAMBDA i : notes[i].value, mine), noteCount |-> Cardinality(mine)]]
=============================================================================
