------------------------------- MODULE Indexer -------------------------------
(***************************************************************************)
(* The event indexer (indexer/src): one worker that reads the contract's     *)
(* events page by page, writes them to a database statement by statement and *)
(* keeps the trees in memory; an API that answers from both; crashes, failed *)
(* statements, and statements that took effect although their reply was lost.*)
(*                                                                         *)
(* A root is the sequence of leaves it is the root of.  An event stands for  *)
(* one page position of the RPC; the cursor is the number of events before   *)
(* it.  START_LEDGER is the deployment's ledger, so no event is missed.      *)
(***************************************************************************)
EXTENDS Integers, Sequences, FiniteSets, SequencesExt

CONSTANTS
  Topics,            \* topics of the events that occur
  PathRequests,      \* path requests: [tree, indices, batch]
  EVENT_PAGE_LIMIT,  \* 200 in the code
  MAX_EVENTS,        \* bound on the events
  MAX_ERRORS,        \* bound on failed calls
  MAX_CRASHES        \* bound on crashes

Trees == {"main", "escrow"}

AllTopics == {"shield", "transfer", "unshield", "exact_unshield", "recovery", "dvp",
              "freeze", "rootupd", "regasset", "regtrans",
              "escrowdep", "settled", "refunded", "intent"}

Request == [tree : Trees, indices : Seq(Nat), batch : BOOLEAN]

ASSUME IndexerAssumption ==
  /\ Topics \subseteq AllTopics
  /\ PathRequests \subseteq Request
  /\ \A r \in PathRequests : r.indices # << >> /\ (r.batch \/ Len(r.indices) = 1)
  /\ EVENT_PAGE_LIMIT \in Nat \ {0}
  /\ {MAX_EVENTS, MAX_ERRORS, MAX_CRASHES} \subseteq Nat

VARIABLES
  chain,      \* the contract's events, in order
  log,        \* the leaves the contract inserted into each tree
  leaves,     \* database: the leaves table, by tree and leaf_index
  rows,       \* database: the other rows derived from each event
  roots,      \* database: the roots table of each tree, in order of seq
  head,       \* database: sync_state.head_root and head_count
  cursor,     \* database: sync_state.last_cursor
  tree,       \* memory: the incremental trees
  halted,     \* memory: the self-check failed
  phase,      \* the process: down, backfill, tail, or stopped (serving only)
  target,     \* memory: how far the backfill goes
  job,        \* memory: the event and the statement being applied
  req,        \* a path request the API is answering
  errors,     \* number of failed calls
  crashes,    \* number of crashes
  lost        \* history: a leaf was stored although the call failed

dbVars == <<leaves, rows, roots, head, cursor>>
faultVars == <<errors, crashes, lost>>
vars == <<chain, log, dbVars, tree, halted, phase, target, job, req, faultVars>>

----------------------------------------------------------------------------
(* decodeEffect: what an event says about trees and tables.                 *)

TreeOf(topic) == IF topic = "escrowdep" THEN "escrow" ELSE "main"

\* An unshield without change has the zero sentinel for a commitment.
LeafCount(topic) ==
  CASE topic \in {"transfer", "dvp", "settled"} -> 2
    [] topic \in {"shield", "unshield", "recovery", "escrowdep", "refunded"} -> 1
    [] OTHER -> 0

HasRoot(topic) == LeafCount(topic) > 0 \/ topic = "exact_unshield"

\* The tables an event is written to, besides leaves.  dvp, settled and recovery
\* events carry no ciphertexts.
Writes(table, topic) ==
  CASE table = "roots" -> HasRoot(topic)
    [] table = "nullifiers" -> HasRoot(topic) /\ topic \notin {"shield", "recovery"}
    [] table = "ciphertexts" -> topic \in {"shield", "transfer", "unshield", "escrowdep", "refunded"}
    [] table = "transactions" ->
         topic \in {"shield", "transfer", "unshield", "exact_unshield", "dvp", "settled"}
    [] table = "frozen" -> topic = "freeze"
    [] table = "registries" -> topic \in {"rootupd", "regasset", "regtrans"}

\* Fault, for testing the properties: the ledger row is written first.
TablesLedgerFirst == <<"transactions", "roots", "nullifiers", "ciphertexts", "frozen", "registries">>

\* In the order of processEffect's statements.
Tables == <<"roots", "nullifiers", "ciphertexts", "transactions", "frozen", "registries">>

----------------------------------------------------------------------------
Idle == [busy |-> FALSE, at |-> 0, upto |-> 0, step |-> 0, added |-> FALSE]
NoRequest == [state |-> "none", asked |-> {}, anchor |-> << >>, count |-> 0, got |-> << >>]
EmptyTrees == [t \in Trees |-> << >>]

Init ==
  /\ chain = << >>
  /\ log = EmptyTrees
  /\ leaves = EmptyTrees
  /\ rows = {}
  /\ roots = EmptyTrees
  /\ head = [root |-> << >>, count |-> 0]
  /\ cursor = 0
  /\ tree = EmptyTrees
  /\ halted = FALSE
  /\ phase = "down"
  /\ target = 0
  /\ job = Idle
  /\ req = NoRequest
  /\ errors = 0
  /\ crashes = 0
  /\ lost = FALSE

\* The commitments an event inserts.  The contract compares a commitment with
\* nothing: it is a new one, named by its event and place, or any earlier one again.
NewLeaves(topic) ==
  LET logged == UNION {ToSet(log[t]) : t \in Trees}
      fresh == {<<Len(chain) + 1, k>> : k \in 1 .. LeafCount(topic)}
  IN  {new \in [1 .. LeafCount(topic) -> fresh \cup logged] :
         \A k \in DOMAIN new : new[k] \in logged \cup {<<Len(chain) + 1, k>>} \cup {new[j] : j \in 1 .. k - 1}}

\* The contract emits an event.
Emit(topic) ==
  LET t == TreeOf(topic)
  IN  /\ Len(chain) < MAX_EVENTS
      /\ \E new \in NewLeaves(topic) :
            /\ log' = [log EXCEPT ![t] = @ \o new]
            /\ chain' = Append(chain, [topic  |-> topic,
                                       leaves |-> new,
                                       before |-> [u \in Trees |-> Len(log[u])],
                                       root   |-> log[t] \o new])
      /\ UNCHANGED <<dbVars, tree, halted, phase, target, job, req, faultVars>>

----------------------------------------------------------------------------
(* The worker.                                                              *)

\* Rebuild the trees from the database; the backfill's target is the tip.  What
\* sync_state says about an earlier halt is not read.
Boot ==
  /\ phase = "down"
  /\ phase' = "backfill"
  /\ tree' = leaves
  /\ target' = Len(chain)
  /\ UNCHANGED <<chain, log, dbVars, halted, job, req, faultVars>>

\* Fault: the cursor is stored when the page is fetched.
FetchPageStoringCursor ==
  /\ phase \in {"backfill", "tail"}
  /\ ~halted
  /\ ~job.busy
  /\ \E k \in 1 .. EVENT_PAGE_LIMIT :
       /\ cursor + k <= Len(chain)
       /\ job' = [busy |-> TRUE, at |-> cursor + 1, upto |-> cursor + k, step |-> 1, added |-> FALSE]
       /\ cursor' = cursor + k
  /\ UNCHANGED <<chain, log, leaves, rows, roots, head, tree, halted, phase, target, req, faultVars>>

\* A tick, or one round of the backfill, fetches the events after the cursor.
FetchPage ==
  /\ phase \in {"backfill", "tail"}
  /\ ~halted
  /\ ~job.busy
  /\ \E k \in 1 .. EVENT_PAGE_LIMIT :
       /\ cursor + k <= Len(chain)
       /\ job' = [busy |-> TRUE, at |-> cursor + 1, upto |-> cursor + k, step |-> 1, added |-> FALSE]
  /\ UNCHANGED <<chain, log, dbVars, tree, halted, phase, target, req, faultVars>>

\* The cursor does not advance any more: hand over to the tail.
CaughtUp ==
  /\ phase = "backfill"
  /\ ~job.busy
  /\ cursor = Len(chain)
  /\ phase' = "tail"
  /\ UNCHANGED <<chain, log, dbVars, tree, halted, target, job, req, faultVars>>

Event == chain[job.at]
EventTree == TreeOf(Event.topic)

\* The page holds events still to be applied.
Applying == job.busy /\ job.at <= job.upto

\* A step is a leaf of the event or, after the leaves, a position in Tables.
AtLeaf == Applying /\ job.step <= Len(Event.leaves)
AfterLeaves == Applying /\ job.step > Len(Event.leaves)

\* The statements still to come, by their position.
Pending == {p \in DOMAIN Tables : p >= job.step - Len(Event.leaves) /\ Writes(Tables[p], Event.topic)}

AtGate == AfterLeaves /\ Pending = {}

\* Fault, for testing the properties: every leaf counts as new.
LeafExistsIgnored(cm) == FALSE

LeafExists(cm) == \E t \in Trees : \E i \in DOMAIN leaves[t] : leaves[t][i] = cm

\* Fault: a leaf is stored with the position before its index.
InsertLeafShifted(t, index, cm) == leaves' = [leaves EXCEPT ![t] = Append(@, <<cm[1], index - 1>>)]

\* ON CONFLICT DO NOTHING: the index is taken, or it is the next one.
InsertLeaf(t, index, cm) ==
  leaves' = IF index < Len(leaves[t]) THEN leaves ELSE [leaves EXCEPT ![t] = Append(@, cm)]

\* The next index is the size of the tree in memory.
ApplyLeaf ==
  LET cm == Event.leaves[job.step]
      t == EventTree
  IN  /\ AtLeaf
      /\ \/ /\ LeafExists(cm)
            /\ job' = [job EXCEPT !.step = @ + 1]
            /\ UNCHANGED <<leaves, tree>>
         \/ /\ ~LeafExists(cm)
            /\ InsertLeaf(t, Len(tree[t]), cm)
            /\ tree' = [tree EXCEPT ![t] = Append(@, cm)]
            /\ job' = [job EXCEPT !.step = @ + 1, !.added = TRUE]
      /\ UNCHANGED <<chain, log, rows, roots, head, cursor, halted, phase, target, req, faultVars>>

\* Fault: the roots table has no natural key.
InsertRootAgain(t, root, count) ==
  roots' = [roots EXCEPT ![t] = Append(@, [event |-> job.at, root |-> root, count |-> count])]

\* The roots table is UNIQUE (tree, tx_hash).
InsertRoot(t, root, count) ==
  roots' = IF \E i \in DOMAIN roots[t] : roots[t][i].event = job.at
           THEN roots
           ELSE [roots EXCEPT ![t] = Append(@, [event |-> job.at, root |-> root, count |-> count])]

ApplyTable ==
  /\ AfterLeaves
  /\ \E p \in Pending :
        /\ \A q \in Pending : p <= q
        /\ rows' = rows \cup {<<job.at, Tables[p]>>}
        /\ IF Tables[p] = "roots"
           THEN InsertRoot(EventTree, Event.root, Len(tree[EventTree]))
           ELSE UNCHANGED roots
        /\ job' = [job EXCEPT !.step = Len(Event.leaves) + p + 1]
  /\ UNCHANGED <<chain, log, leaves, head, cursor, tree, halted, phase, target, req, faultVars>>

\* Fault: the self-check also runs when a replayed event added nothing.
MustCheckReplays == HasRoot(Event.topic)

\* The self-check compares only what this event appended.
MustCheck == HasRoot(Event.topic) /\ job.added

\* Fault: the self-check always passes.
RootMatchesAnyway == TRUE

RootMatches == tree[EventTree] = Event.root

\* The event is done.
Gate ==
  /\ AtGate
  /\ MustCheck => RootMatches
  /\ head' = IF MustCheck /\ EventTree = "main"
             THEN [root |-> Event.root, count |-> Len(tree["main"])]
             ELSE head
  /\ job' = [job EXCEPT !.at = @ + 1, !.step = 1, !.added = FALSE]
  /\ UNCHANGED <<chain, log, leaves, rows, roots, cursor, tree, halted, phase, target, req, faultVars>>

\* The backfill gives up at the first error, and the tail is then never started;
\* a tick gives up its page and leaves the next one to try again.
GiveUp ==
  /\ job' = Idle
  /\ phase' = IF phase = "backfill" THEN "stopped" ELSE phase

\* The self-check fails: the trees have drifted.
Halt ==
  /\ AtGate
  /\ MustCheck
  /\ ~RootMatches
  /\ halted' = TRUE
  /\ GiveUp
  /\ UNCHANGED <<chain, log, dbVars, tree, target, req, faultVars>>

\* Fault: the cursor stays.
NextCursorKept == cursor

NextCursor == job.upto

EndPage ==
  /\ job.busy
  /\ job.at > job.upto
  /\ cursor' = NextCursor
  /\ job' = Idle
  /\ phase' = IF phase = "backfill" /\ job.upto >= target THEN "tail" ELSE phase
  /\ UNCHANGED <<chain, log, leaves, rows, roots, head, tree, halted, target, req, faultVars>>

----------------------------------------------------------------------------
(* Faults.                                                                  *)

\* A call to the RPC or to the database throws and had no effect.
CallFails ==
  /\ phase \in {"backfill", "tail"}
  /\ ~halted
  /\ phase = "backfill" \/ job.busy
  /\ errors < MAX_ERRORS
  /\ errors' = errors + 1
  /\ GiveUp
  /\ UNCHANGED <<chain, log, dbVars, tree, halted, target, req, crashes, lost>>

\* The insertion of a leaf is committed, but its reply is lost: the tree in
\* memory does not get the leaf.
LeafReplyLost ==
  LET cm == Event.leaves[job.step]
      t == EventTree
  IN  /\ AtLeaf
      /\ ~LeafExists(cm)
      /\ errors < MAX_ERRORS
      /\ errors' = errors + 1
      /\ InsertLeaf(t, Len(tree[t]), cm)
      /\ lost' = TRUE
      /\ GiveUp
      /\ UNCHANGED <<chain, log, rows, roots, head, cursor, tree, halted, target, req, crashes>>

Crash ==
  /\ phase # "down"
  /\ crashes < MAX_CRASHES
  /\ crashes' = crashes + 1
  /\ phase' = "down"
  /\ tree' = EmptyTrees
  /\ halted' = FALSE
  /\ job' = Idle
  /\ req' = NoRequest
  /\ UNCHANGED <<chain, log, dbVars, target, errors, lost>>

----------------------------------------------------------------------------
(* The API.  A lookup awaits the database and then reads the tree in memory; *)
(* the batch takes its anchor and its leaf count before the first lookup.    *)

AskPaths(r) ==
  /\ phase # "down"
  /\ req.state = "none"
  /\ \A i \in DOMAIN r.indices : r.indices[i] < Len(tree[r.tree])
  /\ req' = [state |-> "open", asked |-> r, anchor |-> tree[r.tree],
             count |-> Len(tree[r.tree]), got |-> << >>]
  /\ UNCHANGED <<chain, log, dbVars, tree, halted, phase, target, job, faultVars>>

\* Fault: a single path, too, has an anchor of before its lookup.
AnchorTakenBefore(t) == req.anchor

\* A single path takes its anchor together with its siblings.
AnchorFor(t) == IF req.asked.batch THEN req.anchor ELSE tree[t]

LookUpPath ==
  LET t == req.asked.tree
      index == req.asked.indices[Len(req.got) + 1]
      got == Append(req.got, [index |-> index, cm |-> leaves[t][index + 1], tree |-> tree[t]])
  IN  /\ req.state = "open"
      /\ req' = [req EXCEPT !.got = got,
                            !.anchor = AnchorFor(t),
                            !.state = IF Len(got) = Len(req.asked.indices) THEN "answered" ELSE @]
      /\ UNCHANGED <<chain, log, dbVars, tree, halted, phase, target, job, faultVars>>

\* GET /v1/health, /v1/roots and /v1/transactions answer in one read of the state
\* (the ledger's second query only finds more outputs than the first one's rows).
Healthy == ~halted

LatestRoot(t) == IF roots[t] = << >> THEN tree[t] ELSE Last(roots[t]).root

\* GET /v1/state compares either tree with current_root, the main tree's root.
MatchesChain(t) == tree[t] = log["main"]

Ledger == {i \in DOMAIN chain : <<i, "transactions">> \in rows}

NullifiersUsed == {i \in DOMAIN chain : <<i, "nullifiers">> \in rows}

Ciphertexts == {i \in DOMAIN chain : <<i, "ciphertexts">> \in rows}

IndexedFrozen == {i \in DOMAIN chain : <<i, "frozen">> \in rows}

Registries == {i \in DOMAIN chain : <<i, "registries">> \in rows}

----------------------------------------------------------------------------
Work == FetchPage \/ CaughtUp \/ ApplyLeaf \/ ApplyTable \/ Gate \/ Halt \/ EndPage

Next ==
  \/ \E topic \in Topics : Emit(topic)
  \/ Boot
  \/ FetchPage
  \/ CaughtUp
  \/ ApplyLeaf
  \/ ApplyTable
  \/ Gate
  \/ Halt
  \/ EndPage
  \/ CallFails
  \/ LeafReplyLost
  \/ Crash
  \/ \E r \in PathRequests : AskPaths(r)
  \/ LookUpPath

Spec == Init /\ [][Next]_vars

\* The process manager restarts the process, and the poll interval and the pending
\* calls keep the worker going.  Nothing is assumed of the API's clients.
Fairness == WF_vars(Boot) /\ WF_vars(Work)

FairSpec == Spec /\ Fairness
=============================================================================
