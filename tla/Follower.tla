------------------------------ MODULE Follower ------------------------------
(***************************************************************************)
(* What an indexer of the commitment trees promises, without pages, cursors, *)
(* restarts or memory (docs/INDEXER_IMPLEMENTATION.md 1): its stored leaves   *)
(* are the contract's, in the contract's order, and only ever grow.  Once it *)
(* is misled, because an insertion was reported as failed although it was    *)
(* not, or because the contract inserted a commitment twice, it still stores *)
(* only the contract's leaves, each once, but the order is not promised.     *)
(***************************************************************************)
EXTENDS Integers, Sequences, SequencesExt

CONSTANT Trees

VARIABLES
  log,      \* the leaves the contract inserted into each tree
  stored,   \* the leaves the indexer has of each tree
  misled    \* a stored leaf was reported as not stored, or a leaf came twice

vars == <<log, stored, misled>>

Init ==
  /\ log = [t \in Trees |-> << >>]
  /\ stored = [t \in Trees |-> << >>]
  /\ misled = FALSE

\* The contract inserts leaves of its own accord, new ones or not.
Insert ==
  /\ \A t \in Trees : IsPrefix(log[t], log'[t])
  /\ misled' \in {misled, TRUE}
  /\ UNCHANGED stored

\* The indexer stores the next leaf of a tree, and may be told that it did not.
Store(t) ==
  /\ Len(stored[t]) < Len(log[t])
  /\ stored' = [stored EXCEPT ![t] = Append(@, log[t][Len(@) + 1])]
  /\ misled' \in {misled, TRUE}
  /\ UNCHANGED log

\* Once misled it may store the leaves in another order.
Stray(t) ==
  /\ misled
  /\ \E leaf \in ToSet(log[t]) \ ToSet(stored[t]) :
        stored' = [stored EXCEPT ![t] = Append(@, leaf)]
  /\ UNCHANGED <<log, misled>>

Next == Insert \/ \E t \in Trees : Store(t) \/ Stray(t)

Spec == Init /\ [][Next]_vars
=============================================================================
