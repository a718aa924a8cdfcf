---------------------------- MODULE ScalarField -----------------------------
(***************************************************************************)
(* The scalar field in which the circuits and the key shares compute        *)
(* (sdk/src/poseidon.ts FR_MODULUS, sdk/src/threshold.ts).                  *)
(***************************************************************************)
EXTENDS Integers

CONSTANTS
  FR_MODULUS,   \* a prime: the order of the BLS12-381 scalar field in the code
  FR_BITS       \* the bits of a field element, 255 in the code

\* pow2[n] is 2 to the n, by doubling.
pow2[n \in Nat] == IF n = 0 THEN 1 ELSE 2 * pow2[n - 1]

ASSUME FieldAssumption ==
  /\ FR_MODULUS \in Nat \ {0, 1} /\ FR_BITS \in Nat
  /\ FR_MODULUS < pow2[FR_BITS]

Field == 0 .. FR_MODULUS - 1

\* Fault: no reduction.
ModSkipped(x) == x

Mod(x) == x % FR_MODULUS
=============================================================================
