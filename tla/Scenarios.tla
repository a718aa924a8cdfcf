----------------------------- MODULE Scenarios ------------------------------
(***************************************************************************)
(* The scripts' witness gates (scripts/lib/ *-scenario.ts and               *)
(* scripts/test-*-witness.ts): for each circuit a small world of its own, a *)
(* witness that must be accepted in it, and what is done to the world or to *)
(* the witness that must get it rejected.                                   *)
(***************************************************************************)
EXTENDS Signals

\* Small amounts keep the proportions of the scripts'; the limit of a good world
\* is above all of them, that of a bad one below the first output.
Limit(flaw) == IF flaw = "limit" THEN 1 ELSE MAX_VALUE

\* A world: who is enrolled, what is registered, the tree inserted into; suspect
\* is the party or commitment that a bad world lists.
World(kyc, sacs, tree, flaw, suspect) ==
  LET t == Replay([i \in DOMAIN tree |-> LeafOf(tree[i])])
  IN  ViewOf(kyc,
             IF flaw = "sanctioned" THEN <<suspect>> ELSE << >>,
             [i \in DOMAIN sacs |-> [sac |-> sacs[i], decimals |-> 7, limit |-> Limit(flaw)]],
             IF flaw = "frozen" THEN <<suspect>> ELSE << >>,
             t.frontier, Len(tree), SCENARIO_VIEW_KEY)

----------------------------------------------------------------------------
ShieldScenario(flaw) ==
  SignalsOf(ShieldWitness(NoteOf(SacX, 2, PartyB, 5)), World(<<PartyB>>, <<SacX>>, << >>, flaw, 0))

\* Two notes of A, one to B, the change back.
TransferScenario(flaw) ==
  LET ins == <<NoteOf(SacX, 2, PartyA, 2), NoteOf(SacX, 1, PartyA, 3)>>
      change == IF flaw = "unbalanced" THEN 2 ELSE 1
  IN  SignalsOf(TransferWitness(ins, ins[1], ins[2], NoteOf(SacX, 2, PartyB, 5), NoteOf(SacX, change, PartyA, 6)),
                World(<<PartyB>>, <<SacX>>, ins, flaw, NumberOf(ins[1])))

UnshieldScenario(flaw) ==
  LET in == NoteOf(SacX, 3, PartyA, 2)
      amount == IF flaw = "exact" THEN 3 ELSE 2
      change == IF flaw = "exact" THEN << >> ELSE <<NoteOf(SacX, 1, PartyA, 6)>>
  IN  SignalsOf(UnshieldWitness(<<in>>, in, amount, PartyB, change),
                World(<<PartyB>>, <<SacX>>, <<in>>, flaw,
                      IF flaw = "frozen" THEN NumberOf(in) ELSE PartyB))

\* A's X for B's Y.
DvpScenario(flaw) ==
  LET ins == <<NoteOf(SacX, 2, PartyA, 2), NoteOf(SacY, 1, PartyB, 3)>>
  IN  SignalsOf(DvpWitness(ins, ins[1], ins[2], NoteOf(SacX, 2, PartyB, 5), NoteOf(SacY, 1, PartyA, 6)),
                World(<<PartyB, PartyA>>, <<SacX, SacY>>, ins, flaw, NumberOf(ins[1])))

\* From the main tree into an empty escrow tree; the KYC and sanction trees are
\* dummies.
EscrowDepositScenario(flaw) ==
  LET in == NoteOf(SacX, 2, PartyA, 2)
  IN  SignalsOf(EscrowLegWitness("deposit", <<in>>, in, NoteOf(SacX, 2, IntentKey, 5)),
                World(<<PartyA>>, <<SacX>>, << >>, flaw, NumberOf(in)))

\* From the escrow tree back to A, into an empty main tree.
EscrowRefundScenario(flaw) ==
  LET in == NoteOf(SacX, 2, IntentKey, 5)
  IN  SignalsOf(EscrowLegWitness("refund", <<in>>, in, NoteOf(SacX, 2, PartyA, 6)),
                World(<<PartyA>>, <<SacX>>, << >>, flaw, PartyA))

\* Both escrow notes belong to the intent's key.
SettleScenario(flaw) ==
  LET ins == <<NoteOf(SacX, 2, IntentKey, 5), NoteOf(SacY, 1, IntentKey, 6)>>
  IN  SignalsOf(DvpWitness(ins, ins[1], ins[2], NoteOf(SacX, 2, PartyB, 7), NoteOf(SacY, 1, PartyA, 8)),
                World(<<PartyB, PartyA>>, <<SacX, SacY>>, << >>, flaw, 0))

Scenario(circuit, flaw) ==
  CASE circuit = "shield"   -> ShieldScenario(flaw)
    [] circuit = "transfer" -> TransferScenario(flaw)
    [] circuit = "unshield" -> UnshieldScenario(flaw)
    [] circuit = "dvp"      -> DvpScenario(flaw)
    [] circuit = "escrow_deposit" -> EscrowDepositScenario(flaw)
    [] circuit = "escrow_refund"  -> EscrowRefundScenario(flaw)
    [] circuit = "settle"   -> SettleScenario(flaw)

----------------------------------------------------------------------------
(* What the scripts change in a finished witness.                          *)

Other(node) == HashNode(node, node)

Tampered(s, flaw) ==
  CASE flaw = "path"       -> [s EXCEPT !.inPaths[Len(s.inPaths)].siblings[1] = Other(@)]
    [] flaw = "kyc path"   -> [s EXCEPT !.kycPaths[1].siblings[1] = Other(@)]
    [] flaw = "ciphertext" -> [s EXCEPT !.cAuditor[1] = NoCiphertext]
    [] flaw = "root"       -> [s EXCEPT !.newRoot = Other(@)]
    [] flaw = "commitment" -> [s EXCEPT !.commitments[1] = Other(@)]
    [] flaw = "nullifier"  -> [s EXCEPT !.nullifiers[1] = <<@[1] + 1, @[2]>>]
    [] flaw = "key"        -> [s EXCEPT !.keys[1] = IntentKey]
    [] flaw = "registry"   -> [s EXCEPT !.meters[1].leaf[2] = SacY]
    [] flaw = "asset"      -> [s EXCEPT !.w.ins[2].asset = s.w.ins[1].asset]
    [] flaw = "value"      -> [s EXCEPT !.w.outs[1].value = @ - 1]
    [] flaw = "amount"     -> [s EXCEPT !.w.amount = @ + 1]
    [] OTHER -> s

ShieldFlaws == {"none", "commitment", "kyc path", "ciphertext", "limit", "registry", "root"}
TransferFlaws == {"none", "unbalanced", "path", "ciphertext", "frozen", "limit", "root", "key"}
UnshieldFlaws ==
  {"none", "exact", "frozen", "sanctioned", "path", "amount", "limit", "ciphertext", "key", "root"}
DvpFlaws == {"none", "value", "path", "ciphertext", "frozen", "limit", "root", "nullifier", "asset"}
EscrowFlaws ==
  ({"escrow_deposit"} \X {"none", "frozen", "path", "value", "ciphertext"})
    \cup ({"escrow_refund"} \X {"none", "sanctioned", "root"}) \cup {<<"settle", "none">>}

\* Every case of the five scripts: which circuit, and what is wrong.
ScenarioCases ==
  ({"shield"} \X ShieldFlaws) \cup ({"transfer"} \X TransferFlaws)
    \cup ({"unshield"} \X UnshieldFlaws) \cup ({"dvp"} \X DvpFlaws) \cup EscrowFlaws

\* The verdict of the witness generator on a case.
ScenarioVerdict(circuit, flaw) == WitnessOk(Tampered(Scenario(circuit, flaw), flaw))
=============================================================================
