-------------------------- MODULE WalletProperties --------------------------
(***************************************************************************)
(* What the wallet promises.                                               *)
(***************************************************************************)
EXTENDS Wallet

\* Every variable has its type.
TypeOK ==
  /\ tree \in TreeState
  /\ log \in Leaves
  /\ nullifiers \subseteq Nullifiers
  /\ frozen \in Leaves
  /\ {paidOut, pulled, others, faults} \subseteq Nat
  /\ source \in Sources
  /\ {indexed, aged} \subseteq [leaves : Nat, freezes : Nat]
  /\ store \cup abandoned \subseteq Opening
  /\ returned \subseteq Note
  /\ op.pc \in {"idle", "tree", "notes", "frozen", "reads", "submit", "poll"}
  /\ op.status \in {"none", "pending", "success", "failed", "expired"}
  /\ op.shields \in 0 .. 2
  /\ op.status # "none" => op.pc = "poll"
  /\ op.pc \in {"submit", "poll"} <=> op.tx # << >>
  /\ screen.result \in {"none", "ok", "error"}

\* An opening in the note store is that of the commitment the chain has at the
\* leaf index it is stored under, so no opening replaces another one's.  The
\* index is predicted from a view that was read before the proof was made
\* (write-flow.ts 183 and 331).
StoreIndexed ==
  \A l \in store : l.leafIndex < Len(log) /\ log[l.leafIndex + 1] = l.note

\* The wallet's own notes on the chain, the seeds left out.
OwnNotes == {n \in ToSet(log) \ ToSet(Seeds) : n.owner = Me}

Stored == {l.note : l \in store}

\* An own note of a shield or a transfer is in the note store, or about to be
\* saved, or the wallet stopped waiting for its transaction (write-flow.ts 195
\* and 330).  What an unshield gave back is excepted, see OpeningsKept.
OpeningsHeld ==
  \A n \in OwnNotes :
    \/ n \in Stored
    \/ op.status = "success" /\ \E i \in DOMAIN op.keep : op.keep[i].note = n
    \/ \E l \in abandoned : l.note = n
    \/ n \in returned

\* As long as no tab was closed, nothing was refused and nothing timed out, the
\* wallet holds the opening of every note it owns.  fetchLiveOwnedNotes is said
\* to give "every note it owns whose commitment is a live on-chain leaf (matched
\* by local opening, demo seeds + the notes this wallet shielded/kept-as-change)"
\* (write-flow.ts 123-125).
OpeningsKept ==
  (faults = 0 /\ op.pc = "idle") => OwnNotes \subseteq Stored

\* A transaction that waits is refused only when what it was built from has
\* moved: the frontier, the leaf count or the frozen set, or when its note was
\* spent meanwhile.  The anchor never leaves the ring of recent roots earlier,
\* although an unshield without change pushes the same root again
\* (merkle.rs 96-108).
RefusedOnlyIfStale ==
  \A pi \in orphans \cup ToSet(op.tx) :
    \/ Accepts(pi)
    \/ pi.pub.frontier # tree.frontier
    \/ pi.pub.nextIndex # tree.leafCount
    \/ pi.kind # "shield" /\ pi.pub.frozen # ToSet(frozen)
    \/ \E i \in DOMAIN pi.nullifiers : pi.nullifiers[i] \in nullifiers

\* Every transaction that takes effect moves one requested amount, from or to
\* the wallet's unspent notes, whichever attempt it belongs to and however late
\* it is included.
purse ==
  INSTANCE Purse WITH
    Amounts   <- {r.amount : r \in Requests},
    balance   <- ValueOf({n \in ToSet(log) : n.owner = Me /\ Nullifier(n) \notin nullifiers}),
    deposited <- pulled,
    redeemed  <- paidOut,
    paid      <- ValueOf({n \in ToSet(log) : n.owner = Bank})

MovesAsAsked == purse!Spec

\* A failed request that is repeated succeeds in the end, once the others stop
\* inserting and the indexer has caught up, unless it is one that cannot succeed
\* (merkle.rs 32: each insertion voids every proof made before it).
Progress ==
  (source = "indexer" /\ screen.result = "error")
     ~> (screen.result = "ok" \/ Blocked(screen) \/ (op.pc = "idle" /\ screen.result = "none"))
=============================================================================
