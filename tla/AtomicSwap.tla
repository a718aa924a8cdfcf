----------------------------- MODULE AtomicSwap -----------------------------
(***************************************************************************)
(* What an escrow intent promises its two parties, without trees, proofs or *)
(* roots (docs/DVP_ESCROW.md): each leg is empty, held, swapped or returned; *)
(* the two legs are swapped together, before the deadline, or each held leg *)
(* is returned after it.                                                   *)
(***************************************************************************)
CONSTANT Legs

VARIABLES
  status,    \* what became of each leg
  expired    \* the deadline has been reached

vars == <<status, expired>>

Init ==
  /\ status = [l \in Legs |-> "empty"]
  /\ expired = FALSE

\* A party may put its leg in even when it is too late to swap.
Hold(l) ==
  /\ status[l] = "empty"
  /\ status' = [status EXCEPT ![l] = "held"]
  /\ UNCHANGED expired

Swap ==
  /\ ~expired
  /\ \A l \in Legs : status[l] = "held"
  /\ status' = [l \in Legs |-> "swapped"]
  /\ UNCHANGED expired

Return(l) ==
  /\ expired
  /\ status[l] = "held"
  /\ status' = [status EXCEPT ![l] = "returned"]
  /\ UNCHANGED expired

Expire ==
  /\ ~expired
  /\ expired' = TRUE
  /\ UNCHANGED status

Next ==
  \/ \E l \in Legs : Hold(l) \/ Return(l)
  \/ Swap
  \/ Expire

Spec == Init /\ [][Next]_vars
=============================================================================
