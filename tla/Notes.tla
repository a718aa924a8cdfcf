------------------------------- MODULE Notes -------------------------------
(***************************************************************************)
(* Confidential notes (circuits/lib/note.circom, sdk/src/note.ts).         *)
(*                                                                         *)
(* Poseidon is idealised as a collision-free hash, so the commitment of a  *)
(* note IS the note: two commitments are equal exactly when their openings *)
(* are.  rho and r_note, both sampled afresh for each note, are one field. *)
(***************************************************************************)
EXTENDS Integers, FiniteSetsExt

CONSTANTS
  Assets,     \* asset_id = Poseidon(sac_address): one identifier per token
  Owners,     \* owner_pk values: parties' keys and intents' keys
  MAX_VALUE   \* 2^64 - 1 in the code: every value passes Num2Bits(64)

ASSUME NotesAssumption == MAX_VALUE \in Nat

\* The values Num2Bits(64) accepts.
Value == 0 .. MAX_VALUE

Note == [asset : Assets, value : Value, owner : Owners, rho : Nat]

\* nf = Poseidon(rho, owner_sk), and owner_pk = Poseidon(owner_sk) is
\* injective: neither the asset nor the value enters the nullifier.
Nullifier(n) == <<n.rho, n.owner>>

Nullifiers == Nat \X Owners

\* What a finite set of notes is worth.
ValueOf(notes) == MapThenSumSet(LAMBDA n : n.value, notes)
=============================================================================
