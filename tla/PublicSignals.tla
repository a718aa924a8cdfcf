--------------------------- MODULE PublicSignals ----------------------------
(***************************************************************************)
(* The public signals of a shield, a transfer or an unshield as a vector, at *)
(* full size.  The order is written down five times: by the circuit's declarations                   *)
(* (circuits/lib/*.circom), the SDK's builders (sdk/src/publicInputs.ts),    *)
(* the wallet's slices (frontend/lib/write-flow.ts), the scripts' cursor     *)
(* (scripts/submit-*-live.ts) and the contract's to_scalars (types.rs), which *)
(* the verifier pairs with the key position by position.                    *)
(***************************************************************************)
EXTENDS Integers, SequencesExt

D   == 20
K_A == 5
K_R == 5

\* A field of n signals, one under another.
Slots(name, n) == [i \in 1 .. n |-> <<name, i>>]

Scalars(names) == FlattenSeq([i \in DOMAIN names |-> Slots(names[i], 1)])

SpendRoots == <<"anchor_root", "kyc_root", "sanction_root", "assets_root", "frozen_root", "auditor_pk">>

Heads ==
  [shield   |-> <<"asset_id", "amount", "kyc_root", "assets_root", "auditor_pk", "cm_out_0",
                  "new_root", "fee", "next_index">>,
   transfer |-> SpendRoots \o <<"nf_in_0", "nf_in_1", "cm_out_0", "cm_out_1", "new_root", "fee", "next_index">>,
   unshield |-> SpendRoots \o <<"nf_in_0", "asset_id", "amount", "recipient", "cm_change_0", "new_root",
                                "fee", "next_index">>]

\* What the circuit declares public, and so what snarkjs returns.
CircuitSignals(circuit) ==
  LET outputs == IF circuit = "transfer" THEN 2 ELSE 1
  IN  Scalars(Heads[circuit]) \o Slots("old_frontier", D) \o Slots("new_frontier", D)
        \o Slots("c_auditor", outputs * K_A) \o Slots("c_recipient", outputs * K_R)

\* slice(from, to) of the code counts from 0 and leaves out the last.
Slice(h, from, to) == SubSeq(h, from + 1, to)

\* The wallet's mappers, with their literal offsets; nth field of the head at n - 1.
MapPi(circuit, h) ==
  LET layout == CASE circuit = "shield"   -> <<9, 29, 49, 54, 59>>
                  [] circuit = "transfer" -> <<13, 33, 53, 63, 73>>
                  [] circuit = "unshield" -> <<14, 34, 54, 59, 64>>
  IN  [head |-> Slice(h, 0, layout[1]),
       old_frontier |-> Slice(h, layout[1], layout[2]), new_frontier |-> Slice(h, layout[2], layout[3]),
       c_auditor |-> Slice(h, layout[3], layout[4]), c_recipient |-> Slice(h, layout[4], layout[5])]

\* The scripts' converters: a cursor that takes the fields in turn, and must end
\* where the vector does.
Taken(h, widths) ==
  FoldLeft(LAMBDA s, n : [at |-> s.at + n, parts |-> Append(s.parts, Slice(h, s.at, s.at + n))],
           [at |-> 0, parts |-> << >>], widths)

ParsePi(circuit, h) ==
  LET n == IF circuit = "transfer" THEN 2 ELSE 1
      t == Taken(h, <<Len(Heads[circuit]), D, D, n * K_A, n * K_R>>)
  IN  [head |-> t.parts[1], old_frontier |-> t.parts[2], new_frontier |-> t.parts[3],
       c_auditor |-> t.parts[4], c_recipient |-> t.parts[5], consumed |-> t.at]

\* The builders: they check the frontiers' lengths, then lay the fields out; a
\* ciphertext of two notes is the two put together.
BuildPublicInputs(circuit, pi) ==
  IF Len(pi.old_frontier) = D /\ Len(pi.new_frontier) = D
  THEN pi.head \o pi.old_frontier \o pi.new_frontier \o pi.c_auditor \o pi.c_recipient
  ELSE << >>

\* The contract's flattening of the struct it was called with.
ToScalars(pi) == FoldLeft(LAMBDA v, src : v \o src, pi.head,
                          <<pi.old_frontier, pi.new_frontier, pi.c_auditor, pi.c_recipient>>)

\* Whatever way the struct was filled, the contract verifies the vector that was
\* proved, and every field holds the signal of its name.
SignalsInOrder(circuit) ==
  LET h == CircuitSignals(circuit)
      named(pi) == /\ [i \in DOMAIN pi.head |-> pi.head[i][1]] = Heads[circuit]
                   /\ \A f \in {"old_frontier", "new_frontier", "c_auditor", "c_recipient"} :
                         \A i \in DOMAIN pi[f] : pi[f][i] = <<f, i>>
      whole(pi) == named(pi) /\ ToScalars(pi) = h /\ BuildPublicInputs(circuit, pi) = h
  IN  whole(MapPi(circuit, h)) /\ whole(ParsePi(circuit, h)) /\ ParsePi(circuit, h).consumed = Len(h)
=============================================================================
