------------------------------ MODULE MCWallet ------------------------------
(***************************************************************************)
(* Values of the constants for the runs of the wallet.                      *)
(***************************************************************************)
EXTENDS WalletProperties

CONSTANTS me, bank, other, bond

Seed(value, owner, rho) == [asset |-> bond, value |-> value, owner |-> owner, rho |-> rho]

\* One leaf of the bank's and one of the wallet's.
TwoSeeds == <<Seed(1, bank, 0), Seed(1, me, 1)>>
OneSeed == <<Seed(2, me, 0)>>

Ask(kind, amount) == [kind |-> kind, amount |-> amount]
OneOfEach == {Ask("shield", 1), Ask("transfer", 2), Ask("unshield", 1)}
Unshields == {Ask("shield", 2), Ask("unshield", 1)}
Spends == {Ask("transfer", 2), Ask("unshield", 1)}
=============================================================================
