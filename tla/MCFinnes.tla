------------------------------ MODULE MCFinnes ------------------------------
(***************************************************************************)
(* Values of the constants for the runs of the settlement contract.         *)
(***************************************************************************)
EXTENDS FinnesProperties

CONSTANTS
  alice, bob,   \* parties
  pair,         \* the key of the intent between alice and bob
  x, y,         \* assets
  swap, other   \* intent identifiers

Everyone == {{alice, bob}}
AliceThenBob == {{alice}, {alice, bob}, {bob}}
Nobody == {{}}
NobodyThenAlice == {{}, {alice}}

\* The asset registry of the run, with a per-transaction limit at MAX_VALUE.
AllAssets == {[asset |-> a, limit |-> MAX_VALUE] : a \in Assets}
OneRegistry == {AllAssets}
RegistryOrNone == {AllAssets, {}}

PlentyOf(n) == [a \in Assets |-> n]
TwoEach == PlentyOf(2)
OneEach == PlentyOf(1)

NoTerms == [i \in {} |-> {}]

\* alice gives one x for bob's y, once in each intent; the notes of an intent are
\* numbered from n on.
Pay(asset, owner, rho) == [asset |-> asset, value |-> 1, owner |-> owner, rho |-> rho]
AliceForBob(n) ==
  [escrow |-> [leg \in Legs |-> IF leg = "a" THEN Pay(x, pair, n) ELSE Pay(y, pair, n + 1)],
   out    |-> [leg \in Legs |-> IF leg = "a" THEN Pay(y, alice, n + 2) ELSE Pay(x, bob, n + 3)],
   refund |-> [leg \in Legs |-> IF leg = "a" THEN Pay(x, alice, n + 4) ELSE Pay(y, bob, n + 5)]]

\* The second note of alice, frozen before it is there.
SecondNote == {Pay(x, alice, 2)}

SwapTerms == [i \in {swap} |-> AliceForBob(101)]
TwoSwaps == [i \in {swap, other} |-> IF i = swap THEN AliceForBob(101) ELSE AliceForBob(201)]
TwoForOne == [a \in {x, y} |-> IF a = x THEN 2 ELSE 1]
=============================================================================
