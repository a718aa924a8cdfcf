-------------------------- MODULE IndexerProperties --------------------------
(***************************************************************************)
(* What the indexer is meant to guarantee to the clients of its API.        *)
(***************************************************************************)
EXTENDS Indexer

Leaf == Nat \X Nat

EventRecord == [topic  : AllTopics,
                leaves : Seq(Leaf),
                before : [Trees -> Nat],
                root   : Seq(Leaf)]

\* The shape of the tables (db/schema.ts) and of the worker's memory.
TypeOK ==
  /\ chain \in Seq(EventRecord)
  /\ log \in [Trees -> Seq(Leaf)]
  /\ leaves \in [Trees -> Seq(Leaf)]
  /\ tree \in [Trees -> Seq(Leaf)]
  /\ rows \subseteq Nat \X ToSet(Tables)
  /\ cursor \in Nat
  /\ head.count \in Nat
  /\ halted \in BOOLEAN
  /\ phase \in {"down", "backfill", "tail", "stopped"}
  /\ target \in Nat
  /\ job \in [busy : BOOLEAN, at : Nat, upto : Nat, step : Nat, added : BOOLEAN]
  /\ lost \in BOOLEAN

\* No commitment was inserted twice.  The contract does not see to it; the table has
\* room for each commitment once (UNIQUE (commitment), db/schema.ts 36), and the
\* worker passes over one that it has (worker.ts 39), so the tree in memory is short
\* of a leaf from then on.
Distinct ==
  \A t, u \in Trees : \A i \in DOMAIN log[t], j \in DOMAIN log[u] :
     log[t][i] = log[u][j] => t = u /\ i = j

F == INSTANCE Follower WITH stored <- leaves, misled <- lost \/ ~Distinct

\* The leaves table follows the contract's log through crashes, replayed pages and
\* failed statements: a stored leaf has its right index, for good.  Only a lost reply
\* or a commitment inserted twice can cost the order; even then the table holds
\* nothing but the contract's commitments, each once.
FollowsLog == F!Spec


\* No "false halt" (worker.ts 65-70): the self-check stops the ingestion, and
\* /v1/health reports it, never because a page is replayed.  Either a reply was lost
\* and a tree in memory has left the contract's log, or the contract has inserted a
\* commitment twice.
NoFalseHalt ==
  ~Healthy => \/ lost /\ \E t \in Trees : ~IsPrefix(tree[t], log[t])
              \/ ~Distinct

\* Neither a lost reply nor a repeated commitment has cost the worker the order.
InOrder == ~lost /\ Distinct

\* /v1/roots: each row is a root the contract had, newest last; in order, with its
\* number of leaves, and the served latest root is one the stored leaves grow through.
RootsServed ==
  \A t \in Trees :
    /\ \A i \in DOMAIN roots[t] :
         /\ roots[t][i].root = chain[roots[t][i].event].root
         /\ InOrder => roots[t][i].count = Len(roots[t][i].root)
         /\ \A j \in 1 .. i - 1 : roots[t][j].event < roots[t][i].event
    /\ InOrder => IsPrefix(LatestRoot(t), leaves[t])

\* sync_state's head passed the self-check: it is a root the contract published with
\* the number of leaves behind it, even when a lost reply made the memory drift.
HeadIsPublished ==
  \/ head.count = 0
  \/ /\ \E i \in DOMAIN chain : TreeOf(chain[i].topic) = "main" /\ chain[i].root = head.root
     /\ head.count = Len(head.root)

Stored(i) ==
  /\ \A k \in DOMAIN chain[i].leaves : LeafExists(chain[i].leaves[k])
  /\ HasRoot(chain[i].topic) => \E k \in DOMAIN roots[TreeOf(chain[i].topic)] :
        roots[TreeOf(chain[i].topic)][k].event = i
  /\ Writes("nullifiers", chain[i].topic) => i \in NullifiersUsed
  /\ Writes("ciphertexts", chain[i].topic) => i \in Ciphertexts
  /\ Writes("transactions", chain[i].topic) => i \in Ledger
  /\ Writes("frozen", chain[i].topic) => i \in IndexedFrozen
  /\ Writes("registries", chain[i].topic) => i \in Registries

\* Everything before the cursor is in the database: a crash or an error inside a
\* page never loses an event, although no transaction spans the statements.
NothingSkipped == \A i \in 1 .. cursor : Stored(i)

\* The regulator's ledger never lists a transaction without its nullifiers and the
\* ciphertexts of all of its outputs (server.ts 178-206 joins them), nor before its
\* leaves are stored (as long as no reply was lost).
LedgerComplete ==
  \A i \in Ledger :
    /\ Writes("nullifiers", chain[i].topic) => i \in NullifiersUsed
    /\ Writes("ciphertexts", chain[i].topic) => i \in Ciphertexts
    /\ ~lost => \A k \in DOMAIN chain[i].leaves : LeafExists(chain[i].leaves[k])

\* A served path belongs to the commitment served with it, in a tree the contract
\* has or is growing into; a single path verifies against its own anchor.  (Not so
\* out of order, and not so for the anchor of a batch: a leaf ingested between two
\* lookups changes the siblings.)
PathsVerify ==
  InOrder => \A i \in DOMAIN req.got :
    /\ IsPrefix(req.got[i].tree, log[req.asked.tree])
    /\ req.got[i].cm = req.got[i].tree[req.got[i].index + 1]
    /\ IsPrefix(req.anchor, req.got[i].tree)
    /\ ~req.asked.batch => req.anchor = req.got[i].tree

StoredLeaves == UNION {ToSet(leaves[t]) : t \in Trees}
LoggedLeaves == UNION {ToSet(log[t]) : t \in Trees}

\* Whatever crashed or failed on the way, in the end every emitted commitment is
\* indexed and the cursor is past it, in its tree if no commitment was repeated; and
\* /v1/state finds the main tree equal to the contract's (in order), if neither the
\* backfill gave up nor the self-check stopped the ingestion.
Settles ==
  <>[](\/ phase = "stopped"
       \/ halted
       \/ /\ cursor = Len(chain)
          /\ StoredLeaves = LoggedLeaves
          /\ Distinct => \A t \in Trees : ToSet(leaves[t]) = ToSet(log[t])
          /\ InOrder => MatchesChain("main"))
=============================================================================
