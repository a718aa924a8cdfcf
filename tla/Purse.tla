------------------------------- MODULE Purse -------------------------------
(***************************************************************************)
(* What the wallet promises its user: money moves in and out of one purse,  *)
(* one requested amount at a time.                                          *)
(***************************************************************************)
EXTENDS Integers

CONSTANT Amounts   \* the amounts the user may ask for

VARIABLES
  balance,    \* the user's confidential money
  deposited,  \* what the user put in
  redeemed,   \* what was paid out to the user
  paid        \* what the recipient received

Init ==
  /\ balance \in Nat
  /\ deposited = 0
  /\ redeemed = 0
  /\ paid \in Nat

Deposit(v) ==
  /\ balance' = balance + v
  /\ deposited' = deposited + v
  /\ UNCHANGED <<redeemed, paid>>

Redeem(v) ==
  /\ v <= balance
  /\ balance' = balance - v
  /\ redeemed' = redeemed + v
  /\ UNCHANGED <<deposited, paid>>

Pay(v) ==
  /\ v <= balance
  /\ balance' = balance - v
  /\ paid' = paid + v
  /\ UNCHANGED <<deposited, redeemed>>

Next == \E v \in Amounts : Deposit(v) \/ Redeem(v) \/ Pay(v)

Spec == Init /\ [][Next]_<<balance, deposited, redeemed, paid>>
=============================================================================
