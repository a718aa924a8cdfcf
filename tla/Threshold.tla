----------------------------- MODULE Threshold ------------------------------
(***************************************************************************)
(* Custody of the auditor's view key by a quorum (sdk/src/threshold.ts):     *)
(* Shamir shares over the scalar field.                                     *)
(***************************************************************************)
EXTENDS ScalarField, SequencesExt

CONSTANTS
  QUORUM,       \* shares that give the key
  AUTHORITIES   \* shares handed out

ASSUME ThresholdAssumption ==
  /\ QUORUM \in Nat /\ AUTHORITIES \in Nat
  /\ 1 <= QUORUM
  /\ QUORUM <= AUTHORITIES
  /\ AUTHORITIES < FR_MODULUS

\* Reduced at every step, so in any order.
SumOver(terms) == FoldFunction(LAMBDA t, s : Mod(s + t), 0, terms)

ProductOver(factors) == FoldFunction(LAMBDA t, p : Mod(p * t), 1, factors)

Power(x, n) == ProductOver([i \in 1 .. n |-> x])

\* By Fermat; 0 has none.
ModInverse(a) == Power(a, FR_MODULUS - 2)

\* The value at x of kView + a_1 x + a_2 x^2 + ...
Polynomial(kView, coefficients, x) ==
  SumOver([j \in 0 .. Len(coefficients) |->
             (IF j = 0 THEN kView ELSE coefficients[j]) * Power(x, j)])

Coefficients == [1 .. QUORUM - 1 -> Field]

\* Fault: the points start at 0.
SplitFromZero(kView, coefficients) ==
  [i \in 1 .. AUTHORITIES |-> [x |-> i - 1, y |-> Polynomial(kView, coefficients, i - 1)]]

\* One share for each authority.
SplitViewKey(kView, coefficients) ==
  [i \in 1 .. AUTHORITIES |-> [x |-> i, y |-> Polynomial(kView, coefficients, i)]]

\* combineShares throws for no share, for two of one authority and for x = 0.
CanCombine(shares) ==
  /\ shares # << >>
  /\ \A i, j \in DOMAIN shares : shares[i].x = shares[j].x => i = j
  /\ \A i \in DOMAIN shares : shares[i].x # 0

\* Lagrange interpolation at 0, with every share given.
CombineShares(shares) ==
  LET others(i) == DOMAIN shares \ {i}
      num(i) == ProductOver([j \in others(i) |-> -shares[j].x])
      den(i) == ProductOver([j \in others(i) |-> shares[i].x - shares[j].x])
  IN  SumOver([i \in DOMAIN shares |-> shares[i].y * num(i) * ModInverse(den(i))])
=============================================================================
