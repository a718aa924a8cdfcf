---------------------------- MODULE IndexerSafety ----------------------------
(***************************************************************************)
(* The indexer's tables and memory keep their shape, and the page being      *)
(* applied stays between the cursor and the tip; the contract's events and    *)
(* logs hang together; then the indexer implements the follower of these      *)
(* logs, and its self-check halts it only after a lost reply or a commitment *)
(* inserted twice.                                                           *)
(*                                                                           *)
(* Then, that nothing the cursor has passed is missing from the database,     *)
(* whatever crashed, failed or was lost; that the API serves only what is     *)
(* complete; and that the self-check halts only a memory that has drifted.    *)
(***************************************************************************)
EXTENDS IndexerProperties, SequenceTheorems, TLAPS

JobInRange ==
  /\ cursor <= Len(chain)
  /\ job.busy => /\ phase \in {"backfill", "tail"}
                 /\ cursor < job.at
                 /\ cursor < job.upto
                 /\ job.at <= job.upto + 1
                 /\ job.upto <= Len(chain)
                 /\ job.step >= 1

Shape == TypeOK /\ JobInRange

\* What an event of some topic can be.
LEMMA LeafCountIsSmall ==
  ASSUME NEW topic \in AllTopics
  PROVE  LeafCount(topic) \in {0, 1, 2}
BY DEF LeafCount, AllTopics

LEMMA NewEventTypes ==
  ASSUME TypeOK, NEW topic \in Topics, NEW new \in NewLeaves(topic)
  PROVE  LET t == TreeOf(topic)
         IN  /\ t \in Trees
             /\ new \in Seq(Leaf)
             /\ Len(new) = LeafCount(topic)
             /\ log[t] \o new \in Seq(Leaf)
             /\ [topic  |-> topic, leaves |-> new,
                 before |-> [u \in Trees |-> Len(log[u])],
                 root   |-> log[t] \o new] \in EventRecord
<1> DEFINE t == TreeOf(topic)
           fresh == {<<Len(chain) + 1, k>> : k \in 1 .. LeafCount(topic)}
           logged == UNION {ToSet(log[u]) : u \in Trees}
<1>1. topic \in AllTopics /\ LeafCount(topic) \in Nat
  BY IndexerAssumption, LeafCountIsSmall
<1>2. t \in Trees
  BY DEF TreeOf, Trees
<1>3. Len(chain) \in Nat
  BY LenProperties DEF TypeOK
<1>4. \A u \in Trees : log[u] \in Seq(Leaf) /\ Len(log[u]) \in Nat /\ DOMAIN log[u] = 1 .. Len(log[u])
  BY LenProperties DEF TypeOK
<1>5. new \in Seq(Leaf) /\ Len(new) = LeafCount(topic)
  <2>1. new \in [1 .. LeafCount(topic) -> fresh \cup logged]
    BY DEF NewLeaves
  <2>2. fresh \subseteq Leaf
    BY <1>1, <1>3 DEF Leaf
  <2>3. logged \subseteq Leaf
    <3>1. \A u \in Trees : ToSet(log[u]) \subseteq Leaf
      BY <1>4, ElementOfSeq DEF ToSet
    <3> QED BY <3>1
  <2> HIDE DEF fresh, logged
  <2>4. new \in [1 .. LeafCount(topic) -> Leaf]
    BY <2>1, <2>2, <2>3
  <2> QED BY <1>1, <2>4
<1>6. log[t] \o new \in Seq(Leaf)
  BY <1>2, <1>4, <1>5, ConcatProperties
<1> HIDE DEF t
<1>7. [topic  |-> topic, leaves |-> new, before |-> [u \in Trees |-> Len(log[u])],
       root   |-> log[t] \o new] \in EventRecord
  BY <1>1, <1>4, <1>5, <1>6 DEF EventRecord
<1> QED BY <1>2, <1>5, <1>6, <1>7 DEF t

\* The event being applied is one of the contract's.
LEMMA EventInChain ==
  ASSUME Shape, Applying
  PROVE  /\ job.at \in 1 .. Len(chain)
         /\ Event \in EventRecord
         /\ EventTree \in Trees
         /\ Len(Event.leaves) \in Nat
<1>1. Len(chain) \in Nat
  BY LenProperties DEF Shape, TypeOK
<1>2. job.at \in 1 .. Len(chain)
  BY <1>1 DEF Shape, TypeOK, JobInRange, Applying
<1>3. Event \in EventRecord
  BY <1>2, ElementOfSeq DEF Event, Shape, TypeOK
<1>4. Len(Event.leaves) \in Nat
  BY <1>3, LenProperties DEF EventRecord
<1> QED BY <1>2, <1>3, <1>4 DEF EventTree, TreeOf, Trees

LEMMA LeafAtHand ==
  ASSUME Shape, AtLeaf
  PROVE  /\ job.at \in 1 .. Len(chain)
         /\ EventTree \in Trees
         /\ job.step \in 1 .. Len(Event.leaves)
         /\ Event.leaves[job.step] \in Leaf
<1>1. /\ job.at \in 1 .. Len(chain)
      /\ Event \in EventRecord
      /\ EventTree \in Trees
      /\ Len(Event.leaves) \in Nat
  BY EventInChain DEF AtLeaf
<1>2. job.step \in 1 .. Len(Event.leaves)
  BY <1>1 DEF AtLeaf, Applying, Shape, TypeOK, JobInRange
<1>3. Event.leaves \in Seq(Leaf)
  BY <1>1 DEF EventRecord
<1> QED BY <1>1, <1>2, <1>3, ElementOfSeq

\* Storing a leaf at any index keeps the leaves table a table of leaves.
LEMMA InsertLeafTypes ==
  ASSUME TypeOK, NEW t \in Trees, NEW index, NEW cm \in Leaf, InsertLeaf(t, index, cm)
  PROVE  /\ leaves' \in [Trees -> Seq(Leaf)]
         /\ leaves' = leaves \/ leaves' = [leaves EXCEPT ![t] = Append(@, cm)]
<1>1. Append(leaves[t], cm) \in Seq(Leaf)
  BY AppendProperties DEF TypeOK
<1> QED BY <1>1 DEF InsertLeaf, TypeOK

----------------------------------------------------------------------------
JobRecord == [busy : BOOLEAN, at : Nat, upto : Nat, step : Nat, added : BOOLEAN]

\* Each way a handler changes the job.
LEMMA ToStep ==
  ASSUME NEW j \in JobRecord, NEW n \in Nat, NEW k, k = [j EXCEPT !.step = n]
  PROVE  /\ k \in JobRecord
         /\ k.busy = j.busy /\ k.at = j.at /\ k.upto = j.upto
         /\ k.step = n /\ k.added = j.added
<1>1. k \in JobRecord
  BY DEF JobRecord
<1> QED BY <1>1 DEF JobRecord

LEMMA JobType == Shape => job \in JobRecord
BY DEF Shape, TypeOK, JobRecord

LEMMA NextStep ==
  ASSUME NEW j \in JobRecord, NEW k, k = [j EXCEPT !.step = @ + 1]
  PROVE  /\ k \in JobRecord
         /\ k.busy = j.busy /\ k.at = j.at /\ k.upto = j.upto
         /\ k.step = j.step + 1 /\ k.added = j.added
<1>1. k \in JobRecord
  BY DEF JobRecord
<1> QED BY <1>1 DEF JobRecord

LEMMA NextStepAdded ==
  ASSUME NEW j \in JobRecord, NEW k, k = [j EXCEPT !.step = @ + 1, !.added = TRUE]
  PROVE  /\ k \in JobRecord
         /\ k.busy = j.busy /\ k.at = j.at /\ k.upto = j.upto
         /\ k.step = j.step + 1 /\ k.added = TRUE
<1> DEFINE i == [j EXCEPT !.step = @ + 1]
<1>1. /\ i \in JobRecord
      /\ i.busy = j.busy /\ i.at = j.at /\ i.upto = j.upto
      /\ i.step = j.step + 1
  BY NextStep
<1>2. k = [i EXCEPT !.added = TRUE]
  OBVIOUS
<1> HIDE DEF i
<1>3. k \in JobRecord
  BY <1>1, <1>2 DEF JobRecord
<1> QED BY <1>1, <1>2, <1>3 DEF JobRecord

LEMMA NextEvent ==
  ASSUME NEW j \in JobRecord, NEW k, k = [j EXCEPT !.at = @ + 1, !.step = 1, !.added = FALSE]
  PROVE  /\ k \in JobRecord
         /\ k.busy = j.busy /\ k.at = j.at + 1 /\ k.upto = j.upto
         /\ k.step = 1 /\ k.added = FALSE
<1> DEFINE i == [j EXCEPT !.at = @ + 1]
           h == [i EXCEPT !.step = 1]
<1>1. i \in JobRecord
  BY DEF JobRecord
<1>2. i.busy = j.busy /\ i.at = j.at + 1 /\ i.upto = j.upto
  BY DEF JobRecord
<1>3. k = [h EXCEPT !.added = FALSE]
  OBVIOUS
<1> HIDE DEF i
<1>4. h \in JobRecord
  BY <1>1 DEF JobRecord
<1>5. h.busy = i.busy /\ h.at = i.at /\ h.upto = i.upto /\ h.step = 1
  BY <1>1 DEF JobRecord
<1> HIDE DEF h
<1>6. k \in JobRecord
  BY <1>3, <1>4 DEF JobRecord
<1>7. k.busy = h.busy /\ k.at = h.at /\ k.upto = h.upto /\ k.step = h.step /\ k.added = FALSE
  BY <1>3, <1>4 DEF JobRecord
<1> QED BY <1>2, <1>5, <1>6, <1>7

LEMMA InitShape == Init => Shape
<1> SUFFICES ASSUME Init PROVE Shape
  OBVIOUS
<1>1. EmptyTrees \in [Trees -> Seq(Leaf)]
  BY DEF EmptyTrees
<1>2. chain \in Seq(EventRecord) /\ Len(chain) = 0
  BY DEF Init
<1>3. job \in JobRecord /\ ~job.busy
  BY DEF Init, Idle, JobRecord
<1>4. head.count = 0 /\ cursor = 0 /\ rows = {}
  BY DEF Init
<1>5. log = EmptyTrees /\ leaves = EmptyTrees /\ tree = EmptyTrees
  BY DEF Init
<1>6. halted \in BOOLEAN /\ lost \in BOOLEAN
  BY DEF Init
<1>7. phase = "down" /\ target = 0
  BY DEF Init
<1>8. rows \subseteq Nat \X ToSet(Tables)
  BY <1>4
<1>9. TypeOK
  BY <1>1, <1>2, <1>3, <1>4, <1>5, <1>6, <1>7, <1>8 DEF TypeOK, JobRecord
<1> QED BY <1>2, <1>3, <1>4, <1>9 DEF Shape, JobInRange

LEMMA EmitShape ==
  ASSUME Shape, NEW topic \in Topics, Emit(topic)
  PROVE  Shape'
<1> PICK new \in NewLeaves(topic) :
      /\ log' = [log EXCEPT ![TreeOf(topic)] = @ \o new]
      /\ chain' = Append(chain, [topic  |-> topic, leaves |-> new,
                                 before |-> [u \in Trees |-> Len(log[u])],
                                 root   |-> log[TreeOf(topic)] \o new])
  BY DEF Emit
<1> DEFINE t == TreeOf(topic)
           event == [topic  |-> topic, leaves |-> new,
                     before |-> [u \in Trees |-> Len(log[u])],
                     root   |-> log[t] \o new]
<1>1. /\ t \in Trees
      /\ log[t] \o new \in Seq(Leaf)
      /\ event \in EventRecord
  BY NewEventTypes DEF Shape
<1>2. chain' = Append(chain, event) /\ log' = [log EXCEPT ![t] = @ \o new]
  OBVIOUS
<1> HIDE DEF t, event
<1>3. chain' \in Seq(EventRecord) /\ Len(chain') = Len(chain) + 1 /\ Len(chain) \in Nat
  BY <1>1, <1>2, AppendProperties, LenProperties DEF Shape, TypeOK
<1>4. log' \in [Trees -> Seq(Leaf)]
  BY <1>1, <1>2 DEF Shape, TypeOK
<1>5. /\ UNCHANGED <<leaves, rows, roots, head, cursor, tree, halted, phase, target, job, req>>
      /\ UNCHANGED <<errors, crashes, lost>>
  BY DEF Emit, dbVars, faultVars
<1>6. TypeOK'
  BY <1>3, <1>4, <1>5 DEF Shape, TypeOK
<1>7. JobInRange'
  <2>1. cursor \in Nat /\ job \in JobRecord /\ JobInRange
    BY JobType DEF Shape, TypeOK
  <2>2. cursor' = cursor /\ job' = job /\ phase' = phase
    BY <1>5
  <2> QED BY <1>3, <2>1, <2>2 DEF JobInRange, JobRecord
<1> QED BY <1>6, <1>7 DEF Shape

LEMMA NextShape == Shape /\ [Next]_vars => Shape'
<1> SUFFICES ASSUME Shape, [Next]_vars PROVE Shape'
  OBVIOUS
<1>0. Len(chain) \in Nat
  BY LenProperties DEF Shape, TypeOK
<1> USE DEF Shape, TypeOK, JobInRange, dbVars, faultVars
<1>j. job \in JobRecord
  BY DEF JobRecord
<1>1. ASSUME NEW topic \in Topics, Emit(topic) PROVE Shape'
  BY <1>1, EmitShape
<1>2. CASE Boot
  BY <1>2 DEF Boot
<1>3. CASE FetchPage
  BY <1>0, <1>3, IndexerAssumption DEF FetchPage
<1>4. CASE CaughtUp
  BY <1>4 DEF CaughtUp
<1>5. CASE ApplyLeaf
  <2>1. AtLeaf /\ Applying
    BY <1>5 DEF ApplyLeaf, AtLeaf
  <2>2. EventTree \in Trees /\ Event.leaves[job.step] \in Leaf
    BY <2>1, LeafAtHand
  <2>3. Append(tree[EventTree], Event.leaves[job.step]) \in Seq(Leaf)
    BY <2>2, AppendProperties
  <2>4. /\ tree' = tree \/ tree' = [tree EXCEPT ![EventTree] = Append(@, Event.leaves[job.step])]
        /\ leaves' = leaves \/ InsertLeaf(EventTree, Len(tree[EventTree]), Event.leaves[job.step])
        /\ job' = [job EXCEPT !.step = @ + 1] \/ job' = [job EXCEPT !.step = @ + 1, !.added = TRUE]
    BY <1>5 DEF ApplyLeaf
  <2>5. job' \in JobRecord /\ job'.busy = job.busy /\ job'.at = job.at /\ job'.upto = job.upto
        /\ job'.step >= 1
    <3>1. job.step + 1 >= 1
      BY <1>j DEF JobRecord
    <3>2. CASE job' = [job EXCEPT !.step = @ + 1]
      BY <1>j, <3>1, <3>2, NextStep
    <3>3. CASE job' = [job EXCEPT !.step = @ + 1, !.added = TRUE]
      BY <1>j, <3>1, <3>3, NextStepAdded
    <3> QED BY <2>4, <3>2, <3>3
  <2>6. tree' \in [Trees -> Seq(Leaf)]
    BY <2>2, <2>3, <2>4
  <2>7. leaves' \in [Trees -> Seq(Leaf)]
    BY <2>2, <2>4, InsertLeafTypes
  <2> QED BY <1>5, <2>5, <2>6, <2>7 DEF ApplyLeaf, JobRecord
<1>6. CASE ApplyTable
  <2>1. PICK p \in Pending : /\ rows' = rows \cup {<<job.at, Tables[p]>>}
                            /\ job' = [job EXCEPT !.step = Len(Event.leaves) + p + 1]
    BY <1>6 DEF ApplyTable
  <2>2. p \in 1 .. 6 /\ Tables[p] \in ToSet(Tables)
    BY DEF Pending, Tables, ToSet
  <2>3. rows' \subseteq Nat \X ToSet(Tables)
    BY <2>1, <2>2
  <2>4. Len(Event.leaves) + p + 1 \in Nat /\ Len(Event.leaves) + p + 1 >= 1
    <3>1. Applying
      BY <1>6 DEF ApplyTable, AfterLeaves
    <3>2. Len(Event.leaves) \in Nat
      BY <3>1, EventInChain
    <3> QED BY <2>2, <3>2
  <2>5. job' \in JobRecord /\ job'.busy = job.busy /\ job'.at = job.at /\ job'.upto = job.upto
        /\ job'.step >= 1
    BY <1>j, <2>1, <2>4, ToStep
  <2>6. UNCHANGED <<chain, log, leaves, head, cursor, tree, halted, phase, target, req, faultVars>>
    BY <1>6 DEF ApplyTable
  <2>7. TypeOK'
    BY <2>3, <2>5, <2>6 DEF JobRecord
  <2>8. JobInRange'
    BY <2>5, <2>6
  <2> QED BY <2>7, <2>8
<1>7. CASE Gate
  <2>1. Len(tree["main"]) \in Nat
    BY LenProperties DEF Trees
  <2>2. head'.count \in Nat
    BY <1>7, <2>1 DEF Gate
  <2>3. job.at <= job.upto
    BY <1>7 DEF Gate, AtGate, AfterLeaves, Applying
  <2>4. job' \in JobRecord /\ job'.busy = job.busy /\ job'.at = job.at + 1 /\ job'.upto = job.upto
        /\ job'.step = 1
    BY <1>j, <1>7, NextEvent DEF Gate
  <2> QED BY <1>7, <2>2, <2>3, <2>4 DEF Gate, JobRecord
<1>8. CASE Halt
  BY <1>8 DEF Halt, GiveUp, Idle
<1>9. CASE EndPage
  BY <1>0, <1>9 DEF EndPage, NextCursor, Idle
<1>10. CASE CallFails
  BY <1>10 DEF CallFails, GiveUp, Idle
<1>11. CASE LeafReplyLost
  <2>1. AtLeaf /\ Applying
    BY <1>11 DEF LeafReplyLost, AtLeaf
  <2>2. EventTree \in Trees /\ Event.leaves[job.step] \in Leaf
    BY <2>1, LeafAtHand
  <2>3. leaves' \in [Trees -> Seq(Leaf)]
    BY <1>11, <2>2, InsertLeafTypes DEF LeafReplyLost
  <2> QED BY <1>11, <2>3 DEF LeafReplyLost, GiveUp, Idle
<1>12. CASE Crash
  <2>1. EmptyTrees \in [Trees -> Seq(Leaf)]
    BY DEF EmptyTrees
  <2> QED BY <1>12, <2>1 DEF Crash, Idle
<1>13. ASSUME NEW r \in PathRequests, AskPaths(r) PROVE Shape'
  BY <1>13 DEF AskPaths
<1>14. CASE LookUpPath
  BY <1>14 DEF LookUpPath
<1>15. CASE UNCHANGED vars
  BY <1>15 DEF vars
<1> QED BY <1>1, <1>2, <1>3, <1>4, <1>5, <1>6, <1>7, <1>8, <1>9, <1>10, <1>11, <1>12, <1>13,
           <1>14, <1>15 DEF Next

LEMMA ShapeHolds == Spec => []Shape
BY InitShape, NextShape, PTL DEF Spec

\* The database and the worker's memory keep their shape through crashes, failed
\* calls and lost replies.
THEOREM IndexerTypeCorrect == Spec => []TypeOK
<1>1. Shape => TypeOK
  BY DEF Shape
<1> QED BY <1>1, ShapeHolds, PTL

----------------------------------------------------------------------------
\* How many leaves of a tree precede an event.
Offset(i, u) == IF i <= Len(chain) THEN chain[i].before[u] ELSE Len(log[u])

\* Where the contract puts the leaves of an event, and the root it publishes.
EventPlaced(i) ==
  LET e == chain[i]
      t == TreeOf(e.topic)
  IN  /\ Len(e.leaves) = LeafCount(e.topic)
      /\ \A u \in Trees : Offset(i + 1, u) = Offset(i, u) + (IF u = t THEN Len(e.leaves) ELSE 0)
      /\ \A k \in 1 .. Len(e.leaves) : log[t][Offset(i, t) + k] = e.leaves[k]
      /\ Len(e.root) = Offset(i + 1, t)
      /\ \A p \in 1 .. Len(e.root) : e.root[p] = log[t][p]

LeafPlaced(u, p) ==
  \E i \in 1 .. Len(chain) : \E k \in 1 .. Len(chain[i].leaves) :
     /\ u = TreeOf(chain[i].topic)
     /\ p = Offset(i, u) + k
     /\ log[u][p] = chain[i].leaves[k]

LogIsChain ==
  /\ \A i \in 1 .. Len(chain) : EventPlaced(i)
  /\ \A u \in Trees : \A p \in 1 .. Len(log[u]) : LeafPlaced(u, p)
  /\ \A u \in Trees : \A j \in 1 .. Len(chain) + 1 : \A i \in 1 .. j :
        Offset(i, u) <= Offset(j, u) /\ Offset(j, u) <= Len(log[u])

----------------------------------------------------------------------------
\* What an event changes: its leaves come after those of the tree so far.
LEMMA EmitEffect ==
  ASSUME Shape, NEW topic \in Topics, Emit(topic)
  PROVE  LET n == Len(chain)
             t == TreeOf(topic)
         IN  /\ n \in Nat /\ t \in Trees /\ LeafCount(topic) \in Nat
             /\ Len(chain') = n + 1
             /\ \A i \in 1 .. n : chain'[i] = chain[i]
             /\ chain'[n + 1].topic = topic
             /\ Len(chain'[n + 1].leaves) = LeafCount(topic)
             /\ \A k \in 1 .. LeafCount(topic) : log'[t][Len(log[t]) + k] = chain'[n + 1].leaves[k]
             /\ \A u \in Trees : chain'[n + 1].before[u] = Len(log[u])
             /\ chain'[n + 1].root = log'[t]
             /\ \A u \in Trees : /\ Len(log[u]) \in Nat
                                  /\ Len(log'[u]) = Len(log[u]) + (IF u = t THEN LeafCount(topic) ELSE 0)
                                  /\ \A p \in 1 .. Len(log[u]) : log'[u][p] = log[u][p]
<1> PICK new \in NewLeaves(topic) :
      /\ log' = [log EXCEPT ![TreeOf(topic)] = @ \o new]
      /\ chain' = Append(chain, [topic  |-> topic, leaves |-> new,
                                 before |-> [u \in Trees |-> Len(log[u])],
                                 root   |-> log[TreeOf(topic)] \o new])
  BY DEF Emit
<1> DEFINE n == Len(chain)
           t == TreeOf(topic)
           event == [topic  |-> topic, leaves |-> new,
                     before |-> [u \in Trees |-> Len(log[u])],
                     root   |-> log[t] \o new]
<1>1. /\ t \in Trees
      /\ new \in Seq(Leaf)
      /\ Len(new) = LeafCount(topic)
      /\ event \in EventRecord
  BY NewEventTypes DEF Shape
<1>2. chain' = Append(chain, event) /\ log' = [log EXCEPT ![t] = @ \o new]
  OBVIOUS
<1>4. /\ event.topic = topic
      /\ event.leaves = new
      /\ \A u \in Trees : event.before[u] = Len(log[u])
      /\ event.root = log[t] \o new
  OBVIOUS
<1>5. LeafCount(topic) \in Nat
  BY IndexerAssumption, LeafCountIsSmall
<1> HIDE DEF t, event
<1>6. /\ n \in Nat
      /\ Len(chain') = n + 1
      /\ \A i \in 1 .. n : chain'[i] = chain[i]
      /\ chain'[n + 1] = event
  <2>1. chain \in Seq(EventRecord) /\ event \in EventRecord /\ chain' = Append(chain, event)
    BY <1>1, <1>2 DEF Shape, TypeOK
  <2> QED BY <2>1, AppendProperties, LenProperties
<1>7. \A u \in Trees : log[u] \in Seq(Leaf) /\ Len(log[u]) \in Nat
  BY LenProperties DEF Shape, TypeOK
<1>8. log'[t] = log[t] \o new /\ \A u \in Trees : u # t => log'[u] = log[u]
  BY <1>1, <1>2 DEF Shape, TypeOK
<1>9. /\ Len(log'[t]) = Len(log[t]) + LeafCount(topic)
      /\ \A p \in 1 .. Len(log[t]) : log'[t][p] = log[t][p]
      /\ \A k \in 1 .. LeafCount(topic) : log'[t][Len(log[t]) + k] = new[k]
  <2> DEFINE old == log[t]
  <2>1. old \in Seq(Leaf) /\ Len(old) \in Nat
    BY <1>1, <1>7
  <2> HIDE DEF old
  <2>2. /\ Len(old \o new) = Len(old) + LeafCount(topic)
        /\ \A i \in 1 .. Len(old) + LeafCount(topic) :
              (old \o new)[i] = IF i <= Len(old) THEN old[i] ELSE new[i - Len(old)]
    BY <1>1, <2>1, ConcatProperties
  <2>3. \A k \in 1 .. LeafCount(topic) : /\ Len(old) + k \in 1 .. Len(old) + LeafCount(topic)
                                         /\ ~(Len(old) + k <= Len(old))
                                         /\ (Len(old) + k) - Len(old) = k
    BY <1>5, <2>1
  <2>4. \A k \in 1 .. LeafCount(topic) : (old \o new)[Len(old) + k] = new[k]
    BY <2>2, <2>3
  <2>5. \A p \in 1 .. Len(old) : (old \o new)[p] = old[p]
    BY <1>5, <2>1, <2>2
  <2> QED BY <1>8, <2>2, <2>4, <2>5 DEF old
<1>10. \A u \in Trees : /\ Len(log'[u]) = Len(log[u]) + (IF u = t THEN LeafCount(topic) ELSE 0)
                        /\ \A p \in 1 .. Len(log[u]) : log'[u][p] = log[u][p]
  <2> TAKE u \in Trees
  <2>1. CASE u = t
    BY <1>9, <2>1
  <2>2. CASE u # t
    BY <1>7, <1>8, <2>2
  <2> QED BY <2>1, <2>2
<1>11. /\ chain'[n + 1].topic = topic
       /\ Len(chain'[n + 1].leaves) = LeafCount(topic)
       /\ \A u \in Trees : chain'[n + 1].before[u] = Len(log[u])
       /\ chain'[n + 1].root = log'[t]
  BY <1>1, <1>4, <1>6, <1>8
<1>12. \A k \in 1 .. LeafCount(topic) : log'[t][Len(log[t]) + k] = chain'[n + 1].leaves[k]
  BY <1>4, <1>6, <1>9
<1>13. /\ n \in Nat /\ t \in Trees /\ LeafCount(topic) \in Nat
       /\ Len(chain') = n + 1
       /\ \A i \in 1 .. n : chain'[i] = chain[i]
  BY <1>1, <1>5, <1>6
<1> QED BY <1>7, <1>10, <1>11, <1>12, <1>13 DEF t

LEMMA OffsetType ==
  ASSUME Shape, NEW u \in Trees, NEW i \in Nat \ {0}
  PROVE  Offset(i, u) \in Nat
<1>1. CASE i <= Len(chain)
  <2>1. i \in 1 .. Len(chain) /\ chain \in Seq(EventRecord)
    BY <1>1, LenProperties DEF Shape, TypeOK
  <2>2. chain[i] \in EventRecord
    BY <2>1, ElementOfSeq
  <2> QED BY <1>1, <2>2 DEF Offset, EventRecord
<1>2. CASE ~(i <= Len(chain))
  BY <1>2, LenProperties DEF Offset, Shape, TypeOK
<1> QED BY <1>1, <1>2

\* Offsets of the events so far do not move.
LEMMA EmitOffsets ==
  ASSUME Shape, NEW topic \in Topics, Emit(topic), NEW u \in Trees,
         NEW n \in Nat, n = Len(chain)
  PROVE  /\ \A i \in 1 .. n + 1 : Offset(i, u)' = Offset(i, u)
         /\ Offset(n + 1, u) = Len(log[u])
         /\ Offset(n + 2, u)' = Len(log'[u])
<1>1. /\ Len(chain') = n + 1
      /\ \A i \in 1 .. n : chain'[i] = chain[i]
      /\ chain'[n + 1].before[u] = Len(log[u])
  BY EmitEffect
<1>2. \A i \in 1 .. n + 1 : Offset(i, u)' = Offset(i, u)
  <2> TAKE i \in 1 .. n + 1
  <2>1. CASE i = n + 1
    BY <1>1, <2>1 DEF Offset
  <2>2. CASE i # n + 1
    BY <1>1, <2>2 DEF Offset
  <2> QED BY <2>1, <2>2
<1> QED BY <1>1, <1>2 DEF Offset

LEMMA InitLog == Init => LogIsChain
BY DEF Init, EmptyTrees, LogIsChain, Offset

LEMMA EmitLog ==
  ASSUME Shape, LogIsChain, NEW topic \in Topics, Emit(topic)
  PROVE  LogIsChain'
<1> DEFINE t == TreeOf(topic)
<1>0. PICK n \in Nat : n = Len(chain)
  BY LenProperties DEF Shape, TypeOK
<1>1. /\ n \in Nat /\ t \in Trees /\ LeafCount(topic) \in Nat
      /\ Len(chain') = n + 1
      /\ \A i \in 1 .. n : chain'[i] = chain[i]
      /\ chain'[n + 1].topic = topic
      /\ Len(chain'[n + 1].leaves) = LeafCount(topic)
      /\ \A k \in 1 .. LeafCount(topic) : log'[t][Len(log[t]) + k] = chain'[n + 1].leaves[k]
      /\ chain'[n + 1].root = log'[t]
  BY <1>0, EmitEffect
<1>2. \A u \in Trees : /\ Len(log[u]) \in Nat
                       /\ Len(log'[u]) = Len(log[u]) + (IF u = t THEN LeafCount(topic) ELSE 0)
                       /\ \A p \in 1 .. Len(log[u]) : log'[u][p] = log[u][p]
  BY <1>0, EmitEffect
<1>3. \A u \in Trees : /\ \A i \in 1 .. n + 1 : Offset(i, u)' = Offset(i, u)
                       /\ Offset(n + 1, u) = Len(log[u])
                       /\ Offset(n + 2, u)' = Len(log'[u])
  BY <1>0, EmitOffsets
<1>4. ASSUME NEW i \in 1 .. n PROVE EventPlaced(i)'
  <2> DEFINE e == chain[i]
             s == TreeOf(e.topic)
  <2>1. /\ Len(e.leaves) = LeafCount(e.topic)
        /\ \A u \in Trees : Offset(i + 1, u) = Offset(i, u) + (IF u = s THEN Len(e.leaves) ELSE 0)
        /\ \A k \in 1 .. Len(e.leaves) : log[s][Offset(i, s) + k] = e.leaves[k]
        /\ Len(e.root) = Offset(i + 1, s)
        /\ \A p \in 1 .. Len(e.root) : e.root[p] = log[s][p]
    BY <1>0 DEF LogIsChain, EventPlaced
  <2>2. s \in Trees /\ Len(e.leaves) \in Nat /\ e.leaves \in Seq(Leaf)
    <3>1. e \in EventRecord
      BY <1>0, ElementOfSeq DEF Shape, TypeOK
    <3> QED BY <3>1, LenProperties DEF EventRecord, TreeOf, Trees
  <2>3. chain'[i] = e
    BY <1>1
  <2> HIDE DEF e, s
  <2>4. /\ i \in 1 .. n + 1 /\ i + 1 \in 1 .. n + 1
        /\ \A u \in Trees : /\ Offset(i, u)' = Offset(i, u)
                             /\ Offset(i + 1, u)' = Offset(i + 1, u)
                             /\ Offset(i, u) \in Nat
                             /\ Offset(i + 1, u) <= Len(log[u])
    <3>1. i \in 1 .. n + 1 /\ i + 1 \in 1 .. n + 1
      BY <1>1
    <3>2. \A u \in Trees : Offset(i, u) \in Nat
      BY OffsetType
    <3> QED BY <1>1, <1>3, <3>1, <3>2, <1>0 DEF LogIsChain
  <2>5. \A k \in 1 .. Len(e.leaves) : log'[s][Offset(i, s) + k] = e.leaves[k]
    <3> TAKE k \in 1 .. Len(e.leaves)
    <3>1. Offset(i, s) + k \in 1 .. Len(log[s])
      BY <1>2, <2>1, <2>2, <2>4
    <3> QED BY <1>2, <2>1, <2>2, <3>1
  <2>6. \A p \in 1 .. Len(e.root) : e.root[p] = log'[s][p]
    <3> TAKE p \in 1 .. Len(e.root)
    <3>1. p \in 1 .. Len(log[s])
      BY <1>2, <2>1, <2>2, <2>4
    <3> QED BY <1>2, <2>1, <2>2, <3>1
  <2> QED BY <2>1, <2>2, <2>3, <2>4, <2>5, <2>6 DEF EventPlaced, s
<1>5. EventPlaced(n + 1)'
  <2>1. /\ Offset(n + 1, t)' = Len(log[t])
        /\ \A u \in Trees : Offset(n + 2, u)' = Offset(n + 1, u)' + (IF u = t THEN LeafCount(topic) ELSE 0)
        /\ Offset(n + 2, t)' = Len(log'[t])
    BY <1>1, <1>2, <1>3
  <2>2. (n + 1) + 1 = n + 2
    BY <1>1
  <2> HIDE DEF t
  <2>3. t = TreeOf(topic)
    BY DEF t
  <2> QED BY <1>1, <2>1, <2>2, <2>3 DEF EventPlaced
<1>6. ASSUME NEW u \in Trees, NEW p \in 1 .. Len(log'[u]) PROVE LeafPlaced(u, p)'
  <2>1. CASE p \in 1 .. Len(log[u])
    <3>1. PICK i \in 1 .. n : \E k \in 1 .. Len(chain[i].leaves) :
             /\ u = TreeOf(chain[i].topic)
             /\ p = Offset(i, u) + k
             /\ log[u][p] = chain[i].leaves[k]
      BY <1>0, <2>1 DEF LogIsChain, LeafPlaced
    <3>2. /\ i \in 1 .. Len(chain')
          /\ chain'[i] = chain[i]
          /\ Offset(i, u)' = Offset(i, u)
          /\ log'[u][p] = log[u][p]
      BY <1>1, <1>2, <1>3, <2>1
    <3> QED BY <3>1, <3>2 DEF LeafPlaced
  <2>2. CASE ~(p \in 1 .. Len(log[u]))
    <3>1. u = t
      BY <1>1, <1>2, <2>2
    <3> DEFINE k == p - Len(log[t])
    <3>2. k \in 1 .. LeafCount(topic) /\ p = Len(log[t]) + k
      BY <1>1, <1>2, <2>2, <3>1
    <3>3. n + 1 \in 1 .. Len(chain') /\ Offset(n + 1, t)' = Len(log[t])
      BY <1>1, <1>3
    <3> HIDE DEF k
    <3>4. log'[t][p] = chain'[n + 1].leaves[k]
      BY <1>1, <3>2
    <3>5. k \in 1 .. Len(chain'[n + 1].leaves) /\ t = TreeOf(chain'[n + 1].topic)
      BY <1>1, <3>2
    <3> QED BY <3>1, <3>2, <3>3, <3>4, <3>5 DEF LeafPlaced
  <2> QED BY <2>1, <2>2
<1>7. ASSUME NEW u \in Trees, NEW j \in 1 .. n + 2, NEW i \in 1 .. j
      PROVE  Offset(i, u)' <= Offset(j, u)' /\ Offset(j, u)' <= Len(log'[u])
  <2>1. \A m \in 1 .. n + 1 : Offset(m, u) \in Nat /\ Offset(m, u) <= Len(log[u])
    <3>1. \A m \in 1 .. n + 1 : Offset(m, u) \in Nat
      BY OffsetType
    <3> QED BY <1>1, <3>1, <1>0 DEF LogIsChain
  <2>2. Len(log[u]) \in Nat /\ Len(log'[u]) \in Nat /\ Len(log[u]) <= Len(log'[u])
    <3>1. CASE u = t
      BY <1>1, <1>2, <3>1
    <3>2. CASE u # t
      BY <1>1, <1>2, <3>2
    <3> QED BY <3>1, <3>2
  <2>3. CASE j = n + 2
    <3>1. i = n + 2 \/ i \in 1 .. n + 1
      BY <1>1, <2>3
    <3>2. CASE i = n + 2
      BY <1>3, <2>2, <2>3, <3>2
    <3>3. CASE i \in 1 .. n + 1
      <4>1. Offset(i, u)' <= Len(log[u])
        BY <1>3, <2>1, <3>3
      <4>2. Offset(i, u)' \in Nat
        BY <1>3, <2>1, <3>3
      <4> QED BY <1>3, <2>2, <2>3, <4>1, <4>2
    <3> QED BY <3>1, <3>2, <3>3
  <2>4. CASE j # n + 2
    <3>1. j \in 1 .. n + 1 /\ i \in 1 .. n + 1
      BY <1>1, <2>4
    <3>2. Offset(i, u) <= Offset(j, u)
      BY <1>1, <3>1, <1>0 DEF LogIsChain
    <3> QED BY <1>3, <2>1, <2>2, <3>1, <3>2
  <2> QED BY <2>3, <2>4
<1> HIDE DEF t
<1>8. \A i \in 1 .. Len(chain') : EventPlaced(i)'
  BY <1>1, <1>4, <1>5
<1>9. \A u \in Trees : \A j \in 1 .. Len(chain') + 1 : \A i \in 1 .. j :
         Offset(i, u)' <= Offset(j, u)' /\ Offset(j, u)' <= Len(log'[u])
  <2>1. Len(chain') + 1 = n + 2
    BY <1>1
  <2> QED BY <1>7, <2>1
<1> QED BY <1>6, <1>8, <1>9 DEF LogIsChain
\* The other actions leave the contract alone.
LEMMA OnlyEmitEmits ==
  ASSUME [Next]_vars
  PROVE  \/ \E topic \in Topics : Emit(topic)
         \/ UNCHANGED <<chain, log>>
BY DEF Next, vars, Boot, FetchPage, CaughtUp, ApplyLeaf, ApplyTable, Gate, Halt, EndPage,
       CallFails, LeafReplyLost, Crash, AskPaths, LookUpPath

LEMMA NextLog == Shape /\ LogIsChain /\ [Next]_vars => LogIsChain'
<1> SUFFICES ASSUME Shape, LogIsChain, [Next]_vars PROVE LogIsChain'
  OBVIOUS
<1>1. CASE UNCHANGED <<chain, log>>
  <2>1. chain' = chain /\ log' = log
    BY <1>1
  <2>2. \A i, u : Offset(i, u)' = Offset(i, u)
    BY <2>1 DEF Offset
  <2>3. \A i : EventPlaced(i) => EventPlaced(i)'
    BY <2>1, <2>2, Zenon DEF EventPlaced
  <2>4. \A u, p : LeafPlaced(u, p) => LeafPlaced(u, p)'
    BY <2>1, <2>2, Zenon DEF LeafPlaced
  <2> QED BY <2>1, <2>2, <2>3, <2>4, Zenon DEF LogIsChain
<1> QED BY <1>1, EmitLog, OnlyEmitEmits

\* Events and offsets of the past stay what they are.
LEMMA PastStays ==
  ASSUME Shape, [Next]_vars, NEW n \in Nat, n = Len(chain)
  PROVE  /\ n <= Len(chain')
         /\ \A i \in 1 .. n : chain'[i] = chain[i]
         /\ \A u \in Trees : \A i \in 1 .. n + 1 : Offset(i, u)' = Offset(i, u)
         /\ \A u \in Trees : /\ Len(log[u]) <= Len(log'[u])
                              /\ \A p \in 1 .. Len(log[u]) : log'[u][p] = log[u][p]
<1>1. CASE UNCHANGED <<chain, log>>
  <2>1. chain' = chain /\ log' = log
    BY <1>1
  <2>2. \A i, u : Offset(i, u)' = Offset(i, u)
    BY <2>1 DEF Offset
  <2>3. \A u \in Trees : Len(log[u]) \in Nat
    BY LenProperties DEF Shape, TypeOK
  <2> QED BY <2>1, <2>2, <2>3
<1>2. ASSUME NEW topic \in Topics, Emit(topic)
      PROVE  /\ n <= Len(chain')
             /\ \A i \in 1 .. n : chain'[i] = chain[i]
             /\ \A u \in Trees : \A i \in 1 .. n + 1 : Offset(i, u)' = Offset(i, u)
             /\ \A u \in Trees : /\ Len(log[u]) <= Len(log'[u])
                                  /\ \A p \in 1 .. Len(log[u]) : log'[u][p] = log[u][p]
  <2>1. /\ Len(chain') = n + 1
        /\ \A i \in 1 .. n : chain'[i] = chain[i]
        /\ LeafCount(topic) \in Nat
    BY <1>2, EmitEffect
  <2>2. \A u \in Trees : /\ Len(log[u]) \in Nat
                         /\ Len(log'[u]) = Len(log[u]) + (IF u = TreeOf(topic) THEN LeafCount(topic) ELSE 0)
                         /\ \A p \in 1 .. Len(log[u]) : log'[u][p] = log[u][p]
    BY <1>2, EmitEffect
  <2>3. \A u \in Trees : \A i \in 1 .. n + 1 : Offset(i, u)' = Offset(i, u)
    BY <1>2, EmitOffsets
  <2>4. \A u \in Trees : Len(log[u]) <= Len(log'[u])
    BY <2>1, <2>2
  <2> QED BY <2>1, <2>2, <2>3, <2>4
<1> QED BY <1>1, <1>2, OnlyEmitEmits

\* A commitment inserted twice stays inserted twice.
LEMMA DistinctBefore ==
  ASSUME Shape, [Next]_vars, Distinct'
  PROVE  Distinct
<1>1. PICK n \in Nat : n = Len(chain)
  BY LenProperties DEF Shape, TypeOK
<1>2. \A u \in Trees : /\ Len(log[u]) <= Len(log'[u])
                       /\ \A p \in 1 .. Len(log[u]) : log'[u][p] = log[u][p]
  BY <1>1, PastStays
<1>3. \A u \in Trees : /\ DOMAIN log[u] = 1 .. Len(log[u]) /\ Len(log[u]) \in Nat
                       /\ DOMAIN log'[u] = 1 .. Len(log'[u]) /\ Len(log'[u]) \in Nat
  BY NextShape, LenProperties DEF Shape, TypeOK
<1>4. \A u \in Trees : \A p \in DOMAIN log[u] : p \in DOMAIN log'[u] /\ log'[u][p] = log[u][p]
  BY <1>2, <1>3
<1> SUFFICES ASSUME NEW t \in Trees, NEW u \in Trees, NEW i \in DOMAIN log[t], NEW j \in DOMAIN log[u],
                    log[t][i] = log[u][j]
             PROVE  t = u /\ i = j
  BY DEF Distinct
<1>5. i \in DOMAIN log'[t] /\ j \in DOMAIN log'[u] /\ log'[t][i] = log'[u][j]
  BY <1>4
<1> QED BY <1>5 DEF Distinct

LEMMA InOrderBefore ==
  ASSUME Shape, [Next]_vars, InOrder'
  PROVE  InOrder
<1>1. ~lost
  BY DEF InOrder, Next, vars, dbVars, faultVars, Emit, Boot, FetchPage, CaughtUp, ApplyLeaf, ApplyTable, Gate,
         Halt, EndPage, CallFails, LeafReplyLost, Crash, AskPaths, LookUpPath
<1> QED BY <1>1, DistinctBefore DEF InOrder

\* Sequences that agree up to the length of the shorter one.
LEMMA PrefixIntro ==
  ASSUME NEW S, NEW s \in Seq(S), NEW t \in Seq(S), Len(s) <= Len(t),
         \A p \in 1 .. Len(s) : s[p] = t[p]
  PROVE  IsPrefix(s, t)
<1>1. Len(s) \in Nat /\ Len(t) \in Nat
  BY LenProperties
<1>2. SubSeq(s, 1, Len(s)) = s
  BY SubSeqFull
<1>3. \A p \in 1 .. Len(s) : t[p] \in S
  BY <1>1, ElementOfSeq
<1>4. /\ SubSeq(t, 1, Len(s)) \in Seq(S)
      /\ Len(SubSeq(t, 1, Len(s))) = Len(s)
      /\ \A p \in 1 .. Len(s) : SubSeq(t, 1, Len(s))[p] = t[p]
  <2> DEFINE r == SubSeq(t, 1, Len(s))
  <2>1. /\ r \in Seq(S)
        /\ Len(r) = IF 1 <= Len(s) THEN Len(s) - 1 + 1 ELSE 0
        /\ \A i \in 1 .. Len(s) - 1 + 1 : r[i] = t[1 + i - 1]
    BY <1>1, <1>3, SubSeqProperties
  <2> HIDE DEF r
  <2> QED BY <1>1, <2>1 DEF r
<1>5. SubSeq(t, 1, Len(s)) = s
  BY <1>4, SeqEqual
<1> QED BY <1>2, <1>5 DEF IsPrefix

\* Appending adds one element.
LEMMA AppendedSet ==
  ASSUME NEW S, NEW s \in Seq(S), NEW x \in S
  PROVE  /\ ToSet(Append(s, x)) = ToSet(s) \cup {x}
         /\ Len(Append(s, x)) = Len(s) + 1
         /\ Len(s) \in Nat
<1>1. /\ Len(s) \in Nat
      /\ Append(s, x) \in Seq(S)
      /\ Len(Append(s, x)) = Len(s) + 1
      /\ \A i \in 1 .. Len(s) : Append(s, x)[i] = s[i]
      /\ Append(s, x)[Len(s) + 1] = x
  BY AppendProperties, LenProperties
<1>2. DOMAIN s = 1 .. Len(s) /\ DOMAIN Append(s, x) = 1 .. Len(s) + 1
  BY <1>1, LenProperties
<1>3. \A i \in 1 .. Len(s) + 1 : i \in 1 .. Len(s) \/ i = Len(s) + 1
  BY <1>1
<1>4. ToSet(Append(s, x)) \subseteq ToSet(s) \cup {x}
  BY <1>1, <1>2, <1>3 DEF ToSet
<1>5. ToSet(s) \cup {x} \subseteq ToSet(Append(s, x))
  <2>1. Len(s) + 1 \in DOMAIN Append(s, x) /\ \A i \in 1 .. Len(s) : i \in DOMAIN Append(s, x)
    BY <1>1, <1>2
  <2> QED BY <1>1, <1>2, <2>1 DEF ToSet
<1> QED BY <1>1, <1>4, <1>5

----------------------------------------------------------------------------
(* The head.                                                                *)

LEMMA NextHead ==
  ASSUME Shape, HeadIsPublished, [Next]_vars
  PROVE  HeadIsPublished'
<1>0. PICK n \in Nat : n = Len(chain)
  BY LenProperties DEF Shape, TypeOK
<1>1. n <= Len(chain') /\ \A i \in 1 .. n : chain'[i] = chain[i]
  BY <1>0, PastStays
<1>2. DOMAIN chain = 1 .. n /\ DOMAIN chain' = 1 .. Len(chain') /\ Len(chain') \in Nat
  BY <1>0, NextShape, LenProperties DEF Shape, TypeOK
<1>3. CASE head' = head
  BY <1>1, <1>2, <1>3 DEF HeadIsPublished
<1>4. CASE head' # head
  <2>1. Gate
    BY <1>4 DEF Next, vars, dbVars, Emit, Boot, FetchPage, CaughtUp, ApplyLeaf, ApplyTable, Halt,
           EndPage, CallFails, LeafReplyLost, Crash, AskPaths, LookUpPath
  <2>2. /\ AtGate /\ EventTree = "main" /\ RootMatches
        /\ head' = [root |-> Event.root, count |-> Len(tree["main"])]
        /\ chain' = chain
    BY <1>4, <2>1 DEF Gate
  <2>3. job.at \in 1 .. n
    BY <1>0, <2>2, EventInChain DEF AtGate, AfterLeaves
  <2>4. /\ TreeOf(chain'[job.at].topic) = "main"
        /\ chain'[job.at].root = head'.root
        /\ head'.count = Len(head'.root)
    BY <2>2 DEF EventTree, Event, RootMatches
  <2> QED BY <1>1, <1>2, <2>3, <2>4 DEF HeadIsPublished
<1> QED BY <1>3, <1>4

\* The head in sync_state is a root the contract published, with its number of
\* leaves, whatever crashed, failed or was lost: it is only written past the gate.
THEOREM HeadAlwaysPublished == Spec => []HeadIsPublished
<1>1. Init => HeadIsPublished
  BY DEF Init, HeadIsPublished
<1>2. Shape /\ HeadIsPublished /\ [Next]_vars => HeadIsPublished'
  BY NextHead
<1> QED BY <1>1, <1>2, ShapeHolds, PTL DEF Spec

----------------------------------------------------------------------------
(* As long as no reply is lost, the trees in memory and the leaves table     *)
(* agree, and with the contract's log, too, if no commitment came twice.     *)

\* The leaves of the event at hand that the worker has been through.
Done == IF job.step > Len(Event.leaves) THEN Len(Event.leaves) ELSE job.step - 1

MemoryInStep == phase # "down" => tree = leaves

LeavesFollow ==
  \A u \in Trees : /\ Len(leaves[u]) <= Len(log[u])
                   /\ \A p \in 1 .. Len(leaves[u]) : leaves[u][p] = log[u][p]

\* The leaves before the cursor are stored, and those before the job's step; after
\* an insertion of this very event nothing else is.
JobInStep ==
  /\ \A u \in Trees : Offset(cursor + 1, u) <= Len(leaves[u])
  /\ job.busy => \A u \in Trees : Offset(job.at, u) <= Len(leaves[u])
  /\ Applying => /\ Offset(job.at, EventTree) + Done <= Len(leaves[EventTree])
                 /\ job.added => Offset(job.at, EventTree) + Done = Len(leaves[EventTree])

Agrees ==
  /\ ~lost => MemoryInStep
  /\ InOrder => ~halted /\ LeavesFollow /\ JobInStep

LEMMA EventAt ==
  ASSUME Shape, NEW i \in 1 .. Len(chain)
  PROVE  /\ chain[i].topic \in AllTopics
         /\ TreeOf(chain[i].topic) \in Trees
         /\ chain[i].leaves \in Seq(Leaf)
         /\ Len(chain[i].leaves) \in Nat
<1>1. chain[i] \in EventRecord
  BY ElementOfSeq DEF Shape, TypeOK
<1> QED BY <1>1, LenProperties DEF EventRecord, TreeOf, Trees

LEMMA LeafInLog ==
  ASSUME Shape, LogIsChain, NEW i \in 1 .. Len(chain), NEW k \in 1 .. Len(chain[i].leaves)
  PROVE  chain[i].leaves[k] \in ToSet(log[TreeOf(chain[i].topic)])
<1> DEFINE t == TreeOf(chain[i].topic)
<1>1. t \in Trees /\ Len(chain[i].leaves) \in Nat /\ Len(chain) \in Nat
  BY EventAt, LenProperties DEF Shape, TypeOK
<1>2. EventPlaced(i)
  BY DEF LogIsChain
<1>3. /\ chain[i].leaves[k] = log[t][Offset(i, t) + k]
      /\ Offset(i + 1, t) = Offset(i, t) + Len(chain[i].leaves)
  BY <1>1, <1>2 DEF EventPlaced
<1>4. i + 1 \in 1 .. Len(chain) + 1 /\ i + 1 \in 1 .. i + 1
  BY <1>1
<1>5. Offset(i + 1, t) <= Len(log[t]) /\ Offset(i, t) \in Nat
  <2>1. Offset(i + 1, t) <= Len(log[t])
    BY <1>1, <1>4 DEF LogIsChain
  <2>2. i \in Nat \ {0}
    BY <1>1
  <2> QED BY <1>1, <2>1, <2>2, OffsetType
<1>6. Len(log[t]) \in Nat /\ DOMAIN log[t] = 1 .. Len(log[t])
  BY <1>1, LenProperties DEF Shape, TypeOK
<1>7. Offset(i, t) + k \in DOMAIN log[t]
  <2>1. PICK o \in Nat, n \in Nat, m \in Nat :
           o = Offset(i, t) /\ n = Len(chain[i].leaves) /\ m = Len(log[t])
    BY <1>1, <1>5, <1>6
  <2>2. k \in 1 .. n /\ o + n <= m
    BY <1>3, <1>5, <2>1
  <2>3. o + k \in 1 .. m
    BY <2>2
  <2> QED BY <1>6, <2>1, <2>3
<1> QED BY <1>3, <1>7 DEF ToSet

\* The next leaf of the event is stored already, or its place is the next one.
LEMMA LeafFits ==
  ASSUME Shape, LogIsChain, Agrees, InOrder, AtLeaf
  PROVE  LET cm == Event.leaves[job.step]
             t == EventTree
         IN  /\ Done = job.step - 1
             /\ LeafExists(cm) => Offset(job.at, t) + job.step <= Len(leaves[t])
             /\ ~LeafExists(cm) => /\ Len(leaves[t]) = Offset(job.at, t) + job.step - 1
                                   /\ Len(leaves[t]) + 1 \in 1 .. Len(log[t])
                                   /\ log[t][Len(leaves[t]) + 1] = cm
<1> DEFINE cm == Event.leaves[job.step]
           t == EventTree
<1>1. /\ job.at \in 1 .. Len(chain) /\ Len(chain) \in Nat
      /\ t \in Trees
      /\ job.step \in 1 .. Len(Event.leaves)
      /\ Len(Event.leaves) \in Nat
  BY LeafAtHand, EventInChain, LenProperties DEF Shape, TypeOK, AtLeaf
<1>2. Done = job.step - 1
  BY <1>1 DEF Done
<1>3. /\ log[t][Offset(job.at, t) + job.step] = cm
      /\ Offset(job.at + 1, t) = Offset(job.at, t) + Len(Event.leaves)
  <2>1. EventPlaced(job.at)
    BY <1>1 DEF LogIsChain
  <2> QED BY <1>1, <2>1 DEF EventPlaced, Event, EventTree
<1>4. \A u \in Trees : /\ Len(leaves[u]) \in Nat /\ Len(log[u]) \in Nat
                       /\ DOMAIN leaves[u] = 1 .. Len(leaves[u])
  BY LenProperties DEF Shape, TypeOK
<1>5. Offset(job.at, t) \in Nat /\ Offset(job.at + 1, t) <= Len(log[t])
  <2>1. Offset(job.at, t) \in Nat
    BY <1>1, OffsetType
  <2>2. job.at + 1 \in 1 .. Len(chain) + 1 /\ job.at + 1 \in 1 .. job.at + 1
    BY <1>1
  <2> QED BY <1>1, <2>1, <2>2 DEF LogIsChain
<1>6. Offset(job.at, t) + job.step - 1 <= Len(leaves[t])
  BY <1>2, <1>1, <1>5 DEF Agrees, JobInStep, AtLeaf
<1>7. LeavesFollow
  BY DEF Agrees
<1>8. ASSUME LeafExists(cm) PROVE Offset(job.at, t) + job.step <= Len(leaves[t])
  <2>1. PICK u \in Trees : \E p \in 1 .. Len(leaves[u]) : leaves[u][p] = cm
    BY <1>4, <1>8 DEF LeafExists
  <2>2. PICK p \in 1 .. Len(leaves[u]) : leaves[u][p] = cm
    BY <2>1
  <2>3. p \in 1 .. Len(log[u]) /\ log[u][p] = cm
    BY <1>4, <1>7, <2>2 DEF LeavesFollow
  <2>4. Offset(job.at, t) + job.step \in 1 .. Len(log[t])
    <3>1. PICK o \in Nat, k \in Nat, n \in Nat, l \in Nat :
             o = Offset(job.at, t) /\ k = job.step /\ n = Len(Event.leaves) /\ l = Len(log[t])
      BY <1>1, <1>4, <1>5
    <3>2. 1 <= k /\ k <= n /\ o + n <= l
      BY <1>1, <1>3, <1>5, <3>1
    <3>3. o + k \in 1 .. l
      BY <3>2
    <3> QED BY <3>1, <3>3
  <2>5. u = t /\ p = Offset(job.at, t) + job.step
    <3>1. DOMAIN log[u] = 1 .. Len(log[u]) /\ DOMAIN log[t] = 1 .. Len(log[t])
      BY <1>1, LenProperties DEF Shape, TypeOK
    <3> HIDE DEF cm, t
    <3> QED BY <1>1, <1>3, <2>3, <2>4, <3>1 DEF InOrder, Distinct
  <2> QED BY <1>4, <2>2, <2>5
<1>9. ASSUME ~LeafExists(cm)
      PROVE  /\ Len(leaves[t]) = Offset(job.at, t) + job.step - 1
             /\ Len(leaves[t]) + 1 \in 1 .. Len(log[t])
             /\ log[t][Len(leaves[t]) + 1] = cm
  <2>1. ~(Offset(job.at, t) + job.step <= Len(leaves[t]))
    <3> SUFFICES ASSUME Offset(job.at, t) + job.step <= Len(leaves[t]) PROVE FALSE
      OBVIOUS
    <3>1. Offset(job.at, t) + job.step \in 1 .. Len(leaves[t])
      BY <1>1, <1>5, <1>4
    <3>2. leaves[t][Offset(job.at, t) + job.step] = cm
      BY <1>1, <1>3, <1>7, <3>1 DEF LeavesFollow
    <3> QED BY <1>1, <1>4, <1>9, <3>1, <3>2 DEF LeafExists
  <2>2. Len(leaves[t]) = Offset(job.at, t) + job.step - 1
    <3>1. PICK o \in Nat, n \in Nat, k \in Nat :
             o = Offset(job.at, t) /\ n = Len(leaves[t]) /\ k = job.step
      BY <1>1, <1>4, <1>5
    <3>2. o + k - 1 <= n /\ ~(o + k <= n)
      BY <1>6, <2>1, <3>1
    <3>3. n = o + k - 1
      BY <3>2
    <3> QED BY <3>1, <3>3
  <2>3. Len(leaves[t]) + 1 = Offset(job.at, t) + job.step
    BY <1>1, <1>4, <1>5, <2>2
  <2>4. Len(leaves[t]) + 1 \in 1 .. Len(log[t])
    <3>1. /\ job.step \in Nat /\ Len(Event.leaves) \in Nat
          /\ 1 <= job.step /\ job.step <= Len(Event.leaves)
      BY <1>1
    <3>2. Offset(job.at, t) + Len(Event.leaves) <= Len(log[t])
      BY <1>3, <1>5
    <3>3. Offset(job.at, t) \in Nat /\ Len(log[t]) \in Nat
      BY <1>1, <1>4, <1>5
    <3> HIDE DEF t, cm
    <3> QED BY <3>1, <3>2, <3>3, <2>3
  <2> QED BY <1>3, <2>2, <2>3, <2>4
<1> QED BY <1>2, <1>8, <1>9

\* What an insertion that is not already stored does to the tables.
LEMMA LeafAppended ==
  ASSUME Shape, Agrees, ~lost, AtLeaf, ~LeafExists(Event.leaves[job.step]),
         InsertLeaf(EventTree, Len(tree[EventTree]), Event.leaves[job.step])
  PROVE  /\ leaves' = [leaves EXCEPT ![EventTree] = Append(@, Event.leaves[job.step])]
         /\ \A u \in Trees : u # EventTree => leaves'[u] = leaves[u]
         /\ Len(leaves'[EventTree]) = Len(leaves[EventTree]) + 1
         /\ \A p \in 1 .. Len(leaves[EventTree]) : leaves'[EventTree][p] = leaves[EventTree][p]
         /\ leaves'[EventTree][Len(leaves[EventTree]) + 1] = Event.leaves[job.step]
<1> DEFINE cm == Event.leaves[job.step]
           t == EventTree
<1>1. t \in Trees /\ cm \in Leaf
  BY LeafAtHand
<1>2. tree = leaves
  BY DEF Agrees, MemoryInStep, AtLeaf, Applying, Shape, JobInRange
<1>3. leaves[t] \in Seq(Leaf) /\ Len(leaves[t]) \in Nat
  BY <1>1, LenProperties DEF Shape, TypeOK
<1>4. leaves' = [leaves EXCEPT ![t] = Append(@, cm)]
  BY <1>2, <1>3 DEF InsertLeaf
<1> HIDE DEF t, cm
<1>5. leaves'[t] = Append(leaves[t], cm) /\ \A u \in Trees : u # t => leaves'[u] = leaves[u]
  BY <1>1, <1>4 DEF Shape, TypeOK
<1>6. /\ Len(Append(leaves[t], cm)) = Len(leaves[t]) + 1
      /\ \A p \in 1 .. Len(leaves[t]) : Append(leaves[t], cm)[p] = leaves[t][p]
      /\ Append(leaves[t], cm)[Len(leaves[t]) + 1] = cm
  BY <1>1, <1>3, AppendProperties
<1> QED BY <1>4, <1>5, <1>6 DEF t, cm

\* In order, the gate lets every event pass.
LEMMA GatePasses ==
  ASSUME Shape, LogIsChain, Agrees, InOrder, AtGate, MustCheck
  PROVE  RootMatches
<1> DEFINE t == EventTree
<1>1. /\ Applying
      /\ job.at \in 1 .. Len(chain)
      /\ Event \in EventRecord
      /\ t \in Trees
      /\ Len(Event.leaves) \in Nat
  BY EventInChain DEF AtGate, AfterLeaves
<1>2. Done = Len(Event.leaves)
  BY DEF AtGate, AfterLeaves, Done
<1>3. EventPlaced(job.at)
  BY <1>1 DEF LogIsChain
<1>4. /\ Len(Event.root) = Offset(job.at, t) + Len(Event.leaves)
      /\ \A p \in 1 .. Len(Event.root) : Event.root[p] = log[t][p]
  BY <1>1, <1>3 DEF EventPlaced, Event, EventTree
<1>5. Len(leaves[t]) = Len(Event.root)
  BY <1>1, <1>2, <1>4 DEF Agrees, JobInStep, MustCheck
<1>6. \A p \in 1 .. Len(leaves[t]) : leaves[t][p] = Event.root[p]
  BY <1>1, <1>4, <1>5 DEF Agrees, LeavesFollow
<1>7. leaves[t] \in Seq(Leaf) /\ Event.root \in Seq(Leaf)
  BY <1>1 DEF Shape, TypeOK, EventRecord
<1>8. leaves[t] = Event.root
  BY <1>5, <1>6, <1>7, SeqEqual
<1>9. tree = leaves
  BY <1>1 DEF InOrder, Agrees, MemoryInStep, Applying, Shape, JobInRange
<1> QED BY <1>8, <1>9 DEF RootMatches

LEMMA NextLeavesFollow ==
  ASSUME Shape, LogIsChain, Agrees, [Next]_vars, InOrder, InOrder'
  PROVE  LeavesFollow'
<1>0. PICK n \in Nat : n = Len(chain)
  BY LenProperties DEF Shape, TypeOK
<1>1. \A u \in Trees : /\ Len(log[u]) <= Len(log'[u])
                       /\ \A p \in 1 .. Len(log[u]) : log'[u][p] = log[u][p]
  BY <1>0, PastStays
<1>2. \A u \in Trees : Len(log[u]) \in Nat /\ Len(log'[u]) \in Nat /\ Len(leaves[u]) \in Nat
  BY NextShape, LenProperties DEF Shape, TypeOK
<1>3. LeavesFollow
  BY DEF Agrees
<1>4. CASE leaves' = leaves
  BY <1>1, <1>2, <1>3, <1>4 DEF LeavesFollow
<1>5. CASE leaves' # leaves
  <2>1. ApplyLeaf
    <3>1. ~LeafReplyLost
      BY DEF LeafReplyLost, InOrder
    <3> QED BY <1>5, <3>1 DEF Next, vars, dbVars, Emit, Boot, FetchPage, CaughtUp, ApplyTable, Gate, Halt,
           EndPage, CallFails, Crash, AskPaths, LookUpPath
  <2> DEFINE cm == Event.leaves[job.step]
             t == EventTree
  <2>2. AtLeaf /\ ~LeafExists(cm) /\ InsertLeaf(t, Len(tree[t]), cm)
    BY <1>5, <2>1 DEF ApplyLeaf
  <2>3. log' = log
    BY <2>1 DEF ApplyLeaf
  <2>4. t \in Trees
    BY <2>2, LeafAtHand
  <2>5. Len(leaves[t]) + 1 \in 1 .. Len(log[t]) /\ log[t][Len(leaves[t]) + 1] = cm
    BY <2>2, LeafFits
  <2>6. /\ \A u \in Trees : u # t => leaves'[u] = leaves[u]
        /\ Len(leaves'[t]) = Len(leaves[t]) + 1
        /\ \A p \in 1 .. Len(leaves[t]) : leaves'[t][p] = leaves[t][p]
        /\ leaves'[t][Len(leaves[t]) + 1] = cm
    BY <2>2, LeafAppended DEF InOrder
  <2> HIDE DEF cm, t
  <2>7. ASSUME NEW u \in Trees
        PROVE  /\ Len(leaves'[u]) <= Len(log'[u])
               /\ \A p \in 1 .. Len(leaves'[u]) : leaves'[u][p] = log'[u][p]
    <3>1. CASE u # t
      BY <1>3, <2>3, <2>6, <3>1 DEF LeavesFollow
    <3>2. CASE u = t
      <4>1. \A p \in 1 .. Len(leaves[t]) + 1 : p \in 1 .. Len(leaves[t]) \/ p = Len(leaves[t]) + 1
        BY <1>2, <2>4
      <4> QED BY <1>2, <1>3, <2>3, <2>4, <2>5, <2>6, <3>2, <4>1 DEF LeavesFollow
    <3> QED BY <3>1, <3>2
  <2> QED BY <2>7 DEF LeavesFollow
<1> QED BY <1>4, <1>5

LEMMA NextNotHalted ==
  ASSUME Shape, LogIsChain, Agrees, [Next]_vars, InOrder
  PROVE  ~halted'
<1>1. ~halted
  BY DEF Agrees
<1>2. ~Halt
  BY GatePasses DEF Halt
<1> QED BY <1>1, <1>2 DEF Next, vars, dbVars, faultVars, Emit, Boot, FetchPage, CaughtUp, ApplyLeaf, ApplyTable,
        Gate, EndPage, CallFails, LeafReplyLost, Crash, AskPaths, LookUpPath

LEMMA NextMemoryInStep ==
  ASSUME Shape, Agrees, [Next]_vars, ~lost, ~lost'
  PROVE  MemoryInStep'
<1>1. MemoryInStep
  BY DEF Agrees
<1>3. CASE ApplyLeaf
  <2>1. phase # "down" /\ AtLeaf
    BY <1>3 DEF ApplyLeaf, AtLeaf, Applying, Shape, JobInRange
  <2>2. tree = leaves
    BY <1>1, <2>1 DEF MemoryInStep
  <2>3. CASE UNCHANGED <<leaves, tree>>
    BY <1>3, <2>2, <2>3 DEF ApplyLeaf, MemoryInStep
  <2>4. CASE ~UNCHANGED <<leaves, tree>>
    <3>1. /\ ~LeafExists(Event.leaves[job.step])
          /\ InsertLeaf(EventTree, Len(tree[EventTree]), Event.leaves[job.step])
          /\ tree' = [tree EXCEPT ![EventTree] = Append(@, Event.leaves[job.step])]
      BY <1>3, <2>4 DEF ApplyLeaf
    <3>2. leaves' = [leaves EXCEPT ![EventTree] = Append(@, Event.leaves[job.step])]
      BY <2>1, <3>1, LeafAppended
    <3> QED BY <1>3, <2>2, <3>1, <3>2 DEF ApplyLeaf, MemoryInStep
  <2> QED BY <2>3, <2>4
<1>4. CASE Boot
  BY <1>1, <1>4 DEF Boot, MemoryInStep, dbVars
<1>5. CASE Crash
  BY <1>5 DEF Crash, MemoryInStep
<1>6. CASE UNCHANGED <<leaves, tree>> /\ (phase' # "down" => phase # "down")
  BY <1>1, <1>6 DEF MemoryInStep
<1>7. ApplyLeaf \/ Boot \/ Crash \/ (UNCHANGED <<leaves, tree>> /\ (phase' # "down" => phase # "down"))
  <2>1. ASSUME GiveUp PROVE phase' # "down" => phase # "down"
    BY <2>1 DEF GiveUp
  <2> QED BY <2>1 DEF Next, vars, dbVars, faultVars, Emit, FetchPage, CaughtUp, ApplyTable, Gate, Halt,
          EndPage, CallFails, LeafReplyLost, AskPaths, LookUpPath
<1> QED BY <1>3, <1>4, <1>5, <1>6, <1>7

\* What the worker still remembers is right however long the contract goes on.
LEMMA KeptJobInStep ==
  ASSUME Shape, JobInStep, [Next]_vars, UNCHANGED <<leaves, cursor, job>>
  PROVE  JobInStep'
<1>0. PICK n \in Nat : n = Len(chain)
  BY LenProperties DEF Shape, TypeOK
<1>1. /\ \A i \in 1 .. n : chain'[i] = chain[i]
      /\ \A u \in Trees : \A i \in 1 .. n + 1 : Offset(i, u)' = Offset(i, u)
  BY <1>0, PastStays
<1>2. leaves' = leaves /\ cursor' = cursor /\ job' = job
  OBVIOUS
<1>3. cursor + 1 \in 1 .. n + 1 /\ (job.busy => job.at \in 1 .. n + 1) /\ (Applying => job.at \in 1 .. n)
  BY <1>0 DEF Shape, TypeOK, JobInRange, Applying
<1>4. \A u \in Trees : Offset(cursor + 1, u)' = Offset(cursor + 1, u)
  BY <1>1, <1>2, <1>3
<1>5. job.busy => \A u \in Trees : Offset(job.at, u)' = Offset(job.at, u)
  BY <1>1, <1>2, <1>3
<1>6. Applying' = Applying
  BY <1>2 DEF Applying
<1>7. Applying => Event' = Event
  BY <1>1, <1>2, <1>3 DEF Event
<1>8. Applying => EventTree' = EventTree /\ Done' = Done
  BY <1>2, <1>7 DEF EventTree, Done
<1>9. Applying => EventTree \in Trees /\ job.busy
  BY EventInChain DEF Applying
<1> QED BY <1>2, <1>4, <1>5, <1>6, <1>8, <1>9 DEF JobInStep

\* An idle worker only owes what is before the cursor.
LEMMA IdleJobInStep ==
  ASSUME Shape, JobInStep, UNCHANGED <<chain, log, leaves, cursor>>, job' = Idle
  PROVE  JobInStep'
<1>1. \A u \in Trees : Offset(cursor + 1, u)' = Offset(cursor + 1, u)
  BY DEF Offset
<1>2. ~job'.busy
  BY DEF Idle
<1> QED BY <1>1, <1>2 DEF JobInStep, Applying

\* At the start of an event the worker has been through none of its leaves.
LEMMA FreshDone ==
  ASSUME Shape, chain' = chain, job'.at \in 1 .. Len(chain), job'.step = 1
  PROVE  Done' = 0 /\ EventTree' \in Trees
<1>1. Event' = chain[job'.at]
  BY DEF Event
<1>2. Len(Event'.leaves) \in Nat /\ TreeOf(Event'.topic) \in Trees
  BY <1>1, EventAt
<1> QED BY <1>2 DEF Done, EventTree

\* After its leaves, an event's place in the log is filled.
LEMMA LeavesReached ==
  ASSUME Shape, LogIsChain, JobInStep, AfterLeaves
  PROVE  \A u \in Trees : Offset(job.at + 1, u) <= Len(leaves[u])
<1>1. Applying /\ job.busy /\ job.at \in 1 .. Len(chain) /\ Len(Event.leaves) \in Nat
  BY EventInChain DEF AfterLeaves, Applying
<1>2. Done = Len(Event.leaves)
  BY DEF AfterLeaves, Done
<1>3. EventPlaced(job.at)
  BY <1>1 DEF LogIsChain
<1> TAKE u \in Trees
<1>4. Offset(job.at + 1, u) = Offset(job.at, u) + (IF u = EventTree THEN Len(Event.leaves) ELSE 0)
  BY <1>3 DEF EventPlaced, Event, EventTree
<1>5. Offset(job.at, u) \in Nat
  BY <1>1, OffsetType
<1> QED BY <1>1, <1>2, <1>4, <1>5 DEF JobInStep

LEMMA NextJobInStep ==
  ASSUME Shape, LogIsChain, Agrees, [Next]_vars, InOrder, InOrder'
  PROVE  JobInStep'
<1>1. JobInStep
  BY DEF Agrees
<1>2. CASE UNCHANGED <<leaves, cursor, job>>
  BY <1>1, <1>2, KeptJobInStep
<1>3. CASE UNCHANGED <<chain, log, leaves, cursor>> /\ job' = Idle
  BY <1>1, <1>3, IdleJobInStep
<1>4. CASE FetchPage
  <2>1. /\ UNCHANGED <<chain, log, leaves, cursor>>
        /\ job'.at = cursor + 1 /\ job'.step = 1 /\ job'.added = FALSE
    BY <1>4 DEF FetchPage, dbVars
  <2>2. \A u \in Trees : /\ Offset(cursor + 1, u)' = Offset(cursor + 1, u)
                         /\ Offset(job.at, u)' = Offset(cursor + 1, u)
    BY <2>1 DEF Offset
  <2>3. Done' = 0 /\ EventTree' \in Trees
    <3>1. job'.at \in 1 .. Len(chain)
      BY <1>4, LenProperties DEF FetchPage, Shape, TypeOK, JobInRange
    <3> QED BY <2>1, <3>1, FreshDone
  <2>4. \A u \in Trees : Offset(cursor + 1, u) \in Nat
    <3>1. cursor + 1 \in Nat \ {0}
      BY DEF Shape, TypeOK
    <3> QED BY <3>1, OffsetType
  <2> QED BY <1>1, <2>1, <2>2, <2>3, <2>4 DEF JobInStep
<1>5. CASE ApplyLeaf
  <2> DEFINE t == EventTree
             cm == Event.leaves[job.step]
  <2>1. /\ AtLeaf /\ UNCHANGED <<chain, log, cursor>>
        /\ \/ LeafExists(cm) /\ leaves' = leaves /\ job' = [job EXCEPT !.step = @ + 1]
           \/ /\ ~LeafExists(cm) /\ InsertLeaf(t, Len(tree[t]), cm)
              /\ job' = [job EXCEPT !.step = @ + 1, !.added = TRUE]
    BY <1>5 DEF ApplyLeaf
  <2>2. /\ job.at \in 1 .. Len(chain) /\ t \in Trees /\ job.busy
        /\ job.step \in 1 .. Len(Event.leaves) /\ Len(Event.leaves) \in Nat
    BY <2>1, LeafAtHand, EventInChain DEF AtLeaf, Applying
  <2>3. /\ job'.at = job.at /\ job'.step = job.step + 1
        /\ job'.added = job.added \/ ~LeafExists(cm)
    <3>1. job \in JobRecord
      BY JobType
    <3> HIDE DEF t, cm
    <3>2. CASE LeafExists(cm) /\ job' = [job EXCEPT !.step = @ + 1]
      BY <3>1, <3>2, NextStep
    <3>3. CASE ~LeafExists(cm) /\ job' = [job EXCEPT !.step = @ + 1, !.added = TRUE]
      BY <3>1, <3>3, NextStepAdded
    <3> QED BY <2>1, <3>2, <3>3
  <2>4. Event' = Event /\ EventTree' = t
    BY <2>1, <2>3 DEF Event, EventTree
  <2>5. Done' = job.step
    BY <2>2, <2>3, <2>4 DEF Done
  <2>6. \A u \in Trees : /\ Offset(cursor + 1, u)' = Offset(cursor + 1, u)
                         /\ Offset(job.at, u)' = Offset(job.at, u)
    BY <2>1, <2>3 DEF Offset
  <2>7. \A u \in Trees : /\ Len(leaves[u]) \in Nat
                         /\ Offset(cursor + 1, u) \in Nat /\ Offset(job.at, u) \in Nat
    <3>1. cursor + 1 \in Nat \ {0} /\ job.at \in Nat \ {0}
      BY <2>2 DEF Shape, TypeOK
    <3>2. \A u \in Trees : Len(leaves[u]) \in Nat
      BY LenProperties DEF Shape, TypeOK
    <3> QED BY <3>1, <3>2, OffsetType
  <2>8. CASE LeafExists(cm)
    <3>1. leaves' = leaves /\ job'.added = job.added
      BY <2>1, <2>3, <2>8
    <3>2. Offset(job.at, t) + job.step <= Len(leaves[t]) /\ Done = job.step - 1
      BY <2>1, <2>8, LeafFits
    <3>3. ~job.added
      BY <1>1, <2>1, <2>2, <2>7, <3>2 DEF JobInStep, AtLeaf
    <3> HIDE DEF t, cm
    <3> QED BY <1>1, <2>2, <2>4, <2>5, <2>6, <3>1, <3>2, <3>3 DEF JobInStep
  <2>9. CASE ~LeafExists(cm)
    <3>1. /\ \A u \in Trees : u # t => leaves'[u] = leaves[u]
          /\ Len(leaves'[t]) = Len(leaves[t]) + 1
      BY <2>1, <2>9, LeafAppended DEF InOrder
    <3>2. Len(leaves[t]) = Offset(job.at, t) + job.step - 1
      BY <2>1, <2>9, LeafFits
    <3>3. Len(leaves'[t]) = Offset(job.at, t) + job.step
      BY <2>2, <2>7, <3>1, <3>2
    <3>4. \A u \in Trees : Len(leaves[u]) <= Len(leaves'[u])
      BY <2>7, <3>1
    <3> HIDE DEF t, cm
    <3>5. \A u \in Trees : Len(leaves'[u]) \in Nat
      BY NextShape, LenProperties DEF Shape, TypeOK
    <3>6. \A u \in Trees : Offset(cursor + 1, u) <= Len(leaves'[u]) /\ Offset(job.at, u) <= Len(leaves'[u])
      BY <1>1, <2>2, <2>7, <3>4, <3>5 DEF JobInStep
    <3> QED BY <2>2, <2>4, <2>5, <2>6, <3>3, <3>5, <3>6 DEF JobInStep
  <2> QED BY <2>8, <2>9
<1>6. CASE ApplyTable
  <2>1. PICK p \in Pending : job' = [job EXCEPT !.step = Len(Event.leaves) + p + 1]
    BY <1>6 DEF ApplyTable
  <2>2. Applying /\ job.step > Len(Event.leaves) /\ UNCHANGED <<chain, log, leaves, cursor>>
    BY <1>6 DEF ApplyTable, AfterLeaves
  <2>3. Len(Event.leaves) \in Nat /\ EventTree \in Trees /\ job.busy
    BY <2>2, EventInChain DEF Applying
  <2>4. p \in 1 .. 6
    BY DEF Pending, Tables
  <2>5. Len(Event.leaves) + p + 1 \in Nat
    BY <2>3, <2>4
  <2>6. /\ job'.at = job.at /\ job'.added = job.added
        /\ job'.step = Len(Event.leaves) + p + 1
    BY <2>1, <2>5, ToStep DEF JobRecord, Shape, TypeOK
  <2>7. Event' = Event /\ EventTree' = EventTree
    BY <2>2, <2>6 DEF Event, EventTree
  <2>8. Done' = Done
    BY <2>2, <2>3, <2>4, <2>6, <2>7 DEF Done
  <2>9. \A u \in Trees : /\ Offset(cursor + 1, u)' = Offset(cursor + 1, u)
                         /\ Offset(job.at, u)' = Offset(job.at, u)
    BY <2>2, <2>6 DEF Offset
  <2> QED BY <1>1, <2>2, <2>3, <2>6, <2>7, <2>8, <2>9 DEF JobInStep
<1>7. CASE Gate
  <2>1. /\ Applying /\ job.step > Len(Event.leaves) /\ UNCHANGED <<chain, log, leaves, cursor>>
        /\ job' = [job EXCEPT !.at = @ + 1, !.step = 1, !.added = FALSE]
    BY <1>7 DEF Gate, AtGate, AfterLeaves
  <2>2. job'.at = job.at + 1 /\ job'.step = 1 /\ job'.added = FALSE
    BY <2>1, NextEvent DEF JobRecord, Shape, TypeOK
  <2>3. job.at \in 1 .. Len(chain) /\ job.busy
    BY <2>1, EventInChain DEF Applying
  <2>6. \A u \in Trees : Offset(job.at + 1, u) <= Len(leaves[u])
    BY <1>1, <2>1, LeavesReached DEF AfterLeaves
  <2>7. \A u \in Trees : /\ Offset(cursor + 1, u)' = Offset(cursor + 1, u)
                         /\ Offset(job.at, u)' = Offset(job.at + 1, u)
    BY <2>1, <2>2 DEF Offset
  <2>8. Applying' => Done' = 0 /\ EventTree' \in Trees
    <3> SUFFICES ASSUME Applying' PROVE Done' = 0 /\ EventTree' \in Trees
      OBVIOUS
    <3>1. job'.at \in 1 .. Len(chain)
      <4>1. job'.at <= job'.upto /\ job'.busy
        BY DEF Applying
      <4>2. job'.upto <= Len(chain') /\ job'.upto \in Nat
        BY <4>1, NextShape DEF Shape, TypeOK, JobInRange
      <4> QED BY <2>1, <2>2, <2>3, <4>1, <4>2
    <3> QED BY <2>1, <2>2, <3>1, FreshDone
  <2>9. \A u \in Trees : Offset(job.at + 1, u) \in Nat
    BY <2>3, OffsetType
  <2> QED BY <1>1, <2>1, <2>2, <2>6, <2>7, <2>8, <2>9 DEF JobInStep
<1>8. CASE EndPage
  <2>1. /\ UNCHANGED <<chain, log, leaves>>
        /\ job' = Idle /\ cursor' = job.upto
        /\ job.busy /\ job.at = job.upto + 1
    BY <1>8 DEF EndPage, NextCursor, Shape, TypeOK, JobInRange
  <2>2. \A u \in Trees : Offset(cursor + 1, u)' = Offset(job.at, u)
    BY <2>1 DEF Offset
  <2>3. ~job'.busy
    BY <2>1 DEF Idle
  <2> QED BY <1>1, <2>1, <2>2, <2>3 DEF JobInStep, Applying
<1>9. \/ UNCHANGED <<leaves, cursor, job>>
      \/ UNCHANGED <<chain, log, leaves, cursor>> /\ job' = Idle
      \/ FetchPage \/ ApplyLeaf \/ ApplyTable \/ Gate \/ EndPage
  <2>1. ~LeafReplyLost
    BY DEF LeafReplyLost, InOrder
  <2> QED BY <2>1 DEF Next, vars, dbVars, faultVars, Emit, Boot, CaughtUp, Halt, GiveUp, CallFails,
         Crash, AskPaths, LookUpPath
<1> QED BY <1>2, <1>3, <1>4, <1>5, <1>6, <1>7, <1>8, <1>9

LEMMA NextAgrees == Shape /\ LogIsChain /\ Agrees /\ [Next]_vars => Agrees'
<1> SUFFICES ASSUME Shape, LogIsChain, Agrees, [Next]_vars PROVE Agrees'
  OBVIOUS
<1>1. ASSUME ~lost' PROVE MemoryInStep'
  <2>1. ~lost
    BY <1>1 DEF Next, vars, dbVars, faultVars, Emit, Boot, FetchPage, CaughtUp, ApplyLeaf, ApplyTable, Gate,
           Halt, EndPage, CallFails, LeafReplyLost, Crash, AskPaths, LookUpPath
  <2> QED BY <1>1, <2>1, NextMemoryInStep
<1>2. ASSUME InOrder' PROVE ~halted' /\ LeavesFollow' /\ JobInStep'
  <2>1. InOrder
    BY <1>2, InOrderBefore
  <2> QED BY <1>2, <2>1, NextNotHalted, NextLeavesFollow, NextJobInStep
<1> QED BY <1>1, <1>2 DEF Agrees

LEMMA InitAgrees == Init => Agrees
<1> SUFFICES ASSUME Init PROVE Agrees
  OBVIOUS
<1>1. \A u \in Trees : leaves[u] = << >> /\ log[u] = << >> /\ Len(leaves[u]) = 0
  BY DEF Init, EmptyTrees
<1>2. ~halted /\ phase = "down" /\ ~job.busy /\ cursor = 0 /\ Len(chain) = 0
  BY DEF Init, Idle
<1>3. \A u \in Trees : Offset(cursor + 1, u) = 0
  BY <1>1, <1>2 DEF Offset
<1> QED BY <1>1, <1>2, <1>3 DEF Agrees, MemoryInStep, LeavesFollow, JobInStep, Applying

LEMMA AgreesHolds == Spec => [](Shape /\ LogIsChain /\ Agrees)
<1>1. Init => Shape /\ LogIsChain /\ Agrees
  BY InitShape, InitLog, InitAgrees
<1>2. Shape /\ LogIsChain /\ Agrees /\ [Next]_vars => Shape' /\ LogIsChain' /\ Agrees'
  BY NextShape, NextLog, NextAgrees
<1> QED BY <1>1, <1>2, PTL DEF Spec

\* The self-check stops the ingestion only after the reply of an insertion was lost or
\* a commitment was inserted twice: neither a crash, nor a failed call, nor a replayed
\* page is a reason (worker.ts 65-70, "no false halt").
THEOREM HaltNeedsLossOrRepeat == Spec => [](halted => lost \/ ~Distinct)
<1>1. Agrees => (halted => lost \/ ~Distinct)
  BY DEF Agrees, InOrder
<1> QED BY <1>1, AgreesHolds, PTL

----------------------------------------------------------------------------
(* The refinement.                                                          *)

\* The follower is misled.
Misled == lost \/ ~Distinct

LEMMA MisledStays ==
  ASSUME Shape, [Next]_vars
  PROVE  /\ Misled' \in {Misled, TRUE}
         /\ Misled => Misled'
         /\ ~Misled <=> InOrder
         /\ UNCHANGED <<log, lost>> => UNCHANGED Misled
<1>1. UNCHANGED <<log, lost>> => UNCHANGED Misled
  BY DEF Misled, Distinct
<1>2. Misled \in BOOLEAN /\ Misled' \in BOOLEAN
  BY DEF Misled
<1>3. ~Misled <=> InOrder
  BY DEF Misled, InOrder
<1>4. ~Misled' => InOrder'
  BY DEF Misled, InOrder
<1>5. Misled => Misled'
  BY <1>2, <1>3, <1>4, InOrderBefore
<1> QED BY <1>1, <1>2, <1>3, <1>5

\* In order, an inserted leaf is the follower's next one.
LEMMA StoreFollows ==
  ASSUME Shape, LogIsChain, Agrees, InOrder, AtLeaf, ~LeafExists(Event.leaves[job.step]),
         InsertLeaf(EventTree, Len(tree[EventTree]), Event.leaves[job.step]),
         log' = log, Misled' \in {Misled, TRUE}
  PROVE  F!Store(EventTree) /\ EventTree \in Trees
<1>1. EventTree \in Trees
  BY LeafAtHand
<1>2. leaves' = [leaves EXCEPT ![EventTree] = Append(@, Event.leaves[job.step])]
  BY LeafAppended DEF InOrder
<1>3. /\ Len(leaves[EventTree]) + 1 \in 1 .. Len(log[EventTree])
      /\ log[EventTree][Len(leaves[EventTree]) + 1] = Event.leaves[job.step]
  BY LeafFits
<1>4. Len(leaves[EventTree]) \in Nat /\ Len(log[EventTree]) \in Nat
  BY <1>1, LenProperties DEF Shape, TypeOK
<1>5. Len(leaves[EventTree]) < Len(log[EventTree])
  BY <1>3, <1>4
<1> QED BY <1>1, <1>2, <1>3, <1>5 DEF F!Store, Misled

\* Afterwards it is one that the follower lacks, or it is dropped.
LEMMA StrayFollows ==
  ASSUME Shape, LogIsChain, Misled, Misled' = Misled, AtLeaf, ~LeafExists(Event.leaves[job.step]),
         InsertLeaf(EventTree, Len(tree[EventTree]), Event.leaves[job.step]),
         log' = log
  PROVE  leaves' = leaves \/ (F!Stray(EventTree) /\ EventTree \in Trees)
<1> DEFINE cm == Event.leaves[job.step]
           t == EventTree
<1>1. /\ t \in Trees
      /\ job.at \in 1 .. Len(chain)
      /\ job.step \in 1 .. Len(Event.leaves)
  BY LeafAtHand
<1>2. leaves' = leaves \/ leaves' = [leaves EXCEPT ![t] = Append(@, cm)]
  BY DEF InsertLeaf
<1>3. cm \in ToSet(log[t])
  BY <1>1, LeafInLog DEF Event, EventTree
<1>4. cm \notin ToSet(leaves[t])
  BY <1>1 DEF LeafExists, ToSet
<1> HIDE DEF cm, t
<1>5. ASSUME leaves' = [leaves EXCEPT ![t] = Append(@, cm)] PROVE F!Stray(t)
  <2>1. cm \in ToSet(log[t]) \ ToSet(leaves[t])
    BY <1>3, <1>4
  <2>2. \E leaf \in ToSet(log[t]) \ ToSet(leaves[t]) : leaves' = [leaves EXCEPT ![t] = Append(@, leaf)]
    BY <1>5, <2>1
  <2> QED BY <2>2 DEF F!Stray, F!ToSet, ToSet, Misled
<1> QED BY <1>1, <1>2, <1>5 DEF t

LEMMA NextFollows == Shape /\ LogIsChain /\ Agrees /\ [Next]_vars => [F!Next]_(F!vars)
<1> SUFFICES ASSUME Shape, LogIsChain, Agrees, [Next]_vars PROVE [F!Next]_(F!vars)
  OBVIOUS
<1>0. /\ Misled' \in {Misled, TRUE}
      /\ Misled => Misled'
      /\ ~Misled <=> InOrder
      /\ UNCHANGED <<log, lost>> => UNCHANGED Misled
  BY MisledStays
<1>1. ASSUME NEW topic \in Topics, Emit(topic) PROVE F!Next
  <2>1. PICK n \in Nat : n = Len(chain)
    BY LenProperties DEF Shape, TypeOK
  <2>2. \A u \in Trees : /\ Len(log[u]) <= Len(log'[u])
                         /\ \A p \in 1 .. Len(log[u]) : log'[u][p] = log[u][p]
    BY <2>1, PastStays
  <2>3. \A u \in Trees : log[u] \in Seq(Leaf) /\ log'[u] \in Seq(Leaf)
    BY NextShape DEF Shape, TypeOK
  <2>4. \A u \in Trees : IsPrefix(log[u], log'[u])
    BY <2>2, <2>3, PrefixIntro
  <2>5. leaves' = leaves
    BY <1>1 DEF Emit, dbVars
  <2>6. F!Insert
    BY <1>0, <2>4, <2>5 DEF F!Insert, F!IsPrefix, IsPrefix, Misled
  <2> QED BY <2>6 DEF F!Next
<1>2. CASE ApplyLeaf
  <2>1. AtLeaf /\ log' = log /\ lost' = lost
    BY <1>2 DEF ApplyLeaf, faultVars
  <2>2. \/ leaves' = leaves
        \/ /\ ~LeafExists(Event.leaves[job.step])
           /\ InsertLeaf(EventTree, Len(tree[EventTree]), Event.leaves[job.step])
    BY <1>2 DEF ApplyLeaf
  <2>3. CASE leaves' = leaves
    BY <1>0, <2>1, <2>3 DEF F!vars, Misled
  <2>4. CASE leaves' # leaves /\ ~Misled
    BY <1>0, <2>1, <2>2, <2>4, StoreFollows DEF F!Next
  <2>5. CASE leaves' # leaves /\ Misled
    BY <1>0, <2>1, <2>2, <2>5, StrayFollows DEF F!Next
  <2> QED BY <2>3, <2>4, <2>5
<1>3. CASE LeafReplyLost
  <2>1. /\ AtLeaf /\ log' = log /\ lost' = TRUE
        /\ ~LeafExists(Event.leaves[job.step])
        /\ InsertLeaf(EventTree, Len(tree[EventTree]), Event.leaves[job.step])
    BY <1>3 DEF LeafReplyLost
  <2>2. CASE ~Misled
    BY <1>0, <2>1, <2>2, StoreFollows DEF F!Next
  <2>3. CASE Misled
    <3>1. Misled' = Misled
      BY <1>0, <2>3 DEF Misled
    <3>2. leaves' = leaves \/ F!Next
      BY <2>1, <2>3, <3>1, StrayFollows DEF F!Next
    <3> QED BY <2>1, <3>1, <3>2 DEF F!vars, Misled
  <2> QED BY <2>2, <2>3
<1>4. CASE UNCHANGED <<log, leaves, lost>>
  BY <1>0, <1>4 DEF F!vars, Misled
<1>5. \/ \E topic \in Topics : Emit(topic)
      \/ ApplyLeaf \/ LeafReplyLost
      \/ UNCHANGED <<log, leaves, lost>>
  BY DEF Next, vars, dbVars, faultVars, Boot, FetchPage, CaughtUp, ApplyTable, Gate, Halt, EndPage,
         CallFails, Crash, AskPaths, LookUpPath
<1> QED BY <1>1, <1>2, <1>3, <1>4, <1>5

\* The indexer implements the follower: pages, cursors, restarts and replays do not
\* show in the stored leaves; a lost reply, or a commitment inserted twice, costs their
\* order at most.
THEOREM IndexerFollowsLog == Spec => FollowsLog
<1>1. Init => F!Init
  <2>1. Init => (lost \/ ~Distinct) = FALSE
    BY DEF Init, EmptyTrees, Distinct
  <2> QED BY <2>1 DEF Init, EmptyTrees, F!Init
<1>2. Shape /\ LogIsChain /\ Agrees /\ [Next]_vars => [F!Next]_(F!vars)
  BY NextFollows
<1> QED BY <1>1, <1>2, AgreesHolds, PTL DEF Spec, FollowsLog, F!Spec

----------------------------------------------------------------------------
(* What is stored of an event.                                              *)

LeavesStored(i) == \A k \in 1 .. Len(chain[i].leaves) : LeafExists(chain[i].leaves[k])

RowsStored(i) ==
  \A p \in 1 .. 6 : Writes(Tables[p], chain[i].topic) => <<i, Tables[p]>> \in rows

EventStored(i) == LeavesStored(i) /\ RowsStored(i)

\* A leaf of the table is missing from the tree in memory, whose next root is
\* therefore wrong.
Gap(t) == \E leaf \in ToSet(leaves[t]) : leaf \notin ToSet(tree[t])

MemoryOrGap == phase # "down" => \A t \in Trees : tree[t] = leaves[t] \/ Gap(t)

\* Every event before the cursor is stored, and every one before the job's.
PastStored ==
  /\ \A i \in 1 .. cursor : EventStored(i)
  /\ job.busy => \A i \in 1 .. job.at - 1 : EventStored(i)

\* What the job has been through is stored, or the gate is going to notice.
JobStored ==
  Applying =>
    /\ job.added => Len(Event.leaves) > 0
    /\ \/ \A k \in 1 .. Done : LeafExists(Event.leaves[k])
       \/ job.added /\ Gap(EventTree)
    /\ \A p \in 1 .. 6 :
          p < job.step - Len(Event.leaves) /\ Writes(Tables[p], Event.topic)
             => <<job.at, Tables[p]>> \in rows

\* A stored leaf is one of an event of its tree, and everything before that event is
\* stored.
LeafClosed(u, leaf) ==
  \E i \in 1 .. Len(chain) :
     /\ u = TreeOf(chain[i].topic)
     /\ \E k \in 1 .. Len(chain[i].leaves) : leaf = chain[i].leaves[k]
     /\ \A j \in 1 .. i - 1 : EventStored(j)

LeavesClosed == \A u \in Trees : \A leaf \in ToSet(leaves[u]) : LeafClosed(u, leaf)

\* The same of a row; and the rows of an event were written in the order of Tables,
\* after its leaves.
RowClosed(i, q) ==
  /\ \A j \in 1 .. i - 1 : EventStored(j)
  /\ ~lost => LeavesStored(i)
  /\ InOrder => \A u \in Trees : Offset(i + 1, u) <= Len(leaves[u])
  /\ \A p \in 1 .. q : Writes(Tables[p], chain[i].topic) => <<i, Tables[p]>> \in rows

RowsClosed ==
  /\ \A row \in rows : row[1] \in 1 .. Len(chain)
  /\ \A i \in 1 .. Len(chain) : \A q \in 1 .. 6 : <<i, Tables[q]>> \in rows => RowClosed(i, q)

Whole == MemoryOrGap /\ PastStored /\ JobStored /\ LeavesClosed /\ RowsClosed

----------------------------------------------------------------------------
LEMMA TablesAre ==
  /\ DOMAIN Tables = 1 .. 6
  /\ Tables[1] = "roots" /\ Tables[2] = "nullifiers" /\ Tables[3] = "ciphertexts"
  /\ Tables[4] = "transactions" /\ Tables[5] = "frozen" /\ Tables[6] = "registries"
  /\ \A p, q \in 1 .. 6 : Tables[p] = Tables[q] => p = q
<1>1. /\ DOMAIN Tables = 1 .. 6
      /\ Tables[1] = "roots" /\ Tables[2] = "nullifiers" /\ Tables[3] = "ciphertexts"
      /\ Tables[4] = "transactions" /\ Tables[5] = "frozen" /\ Tables[6] = "registries"
  BY DEF Tables
<1>2. \A p \in 1 .. 6 : p = 1 \/ p = 2 \/ p = 3 \/ p = 4 \/ p = 5 \/ p = 6
  OBVIOUS
<1>3. \A p, q \in 1 .. 6 : Tables[p] = Tables[q] => p = q
  BY <1>1, <1>2
<1> QED BY <1>1, <1>3

LEMMA WritesRoots == \A topic : Writes("roots", topic) <=> HasRoot(topic)
BY DEF Writes

LEMMA LeavesHaveRoot == \A topic : LeafCount(topic) > 0 => HasRoot(topic)
BY DEF HasRoot

\* Leaves and rows are never deleted.
LEMMA LeavesGrow ==
  ASSUME Shape, [Next]_vars
  PROVE  /\ \A u \in Trees : /\ ToSet(leaves[u]) \subseteq ToSet(leaves'[u])
                             /\ Len(leaves[u]) <= Len(leaves'[u])
         /\ rows \subseteq rows'
<1>1. rows \subseteq rows'
  BY DEF Next, vars, dbVars, faultVars, Emit, Boot, FetchPage, CaughtUp, ApplyLeaf, ApplyTable, Gate,
         Halt, EndPage, CallFails, LeafReplyLost, Crash, AskPaths, LookUpPath
<1>2. CASE leaves' = leaves
  BY <1>1, <1>2, LenProperties DEF Shape, TypeOK
<1>3. ASSUME AtLeaf, leaves' = [leaves EXCEPT ![EventTree] = Append(@, Event.leaves[job.step])]
      PROVE  \A u \in Trees : /\ ToSet(leaves[u]) \subseteq ToSet(leaves'[u])
                              /\ Len(leaves[u]) <= Len(leaves'[u])
  <2> TAKE u \in Trees
  <2>1. EventTree \in Trees /\ Event.leaves[job.step] \in Leaf
    BY <1>3, LeafAtHand
  <2>2. leaves[u] \in Seq(Leaf) /\ Len(leaves[u]) \in Nat /\ DOMAIN leaves[u] = 1 .. Len(leaves[u])
    BY LenProperties DEF Shape, TypeOK
  <2>3. leaves'[u] = leaves[u] \/ leaves'[u] = Append(leaves[u], Event.leaves[job.step])
    BY <1>3, <2>1 DEF Shape, TypeOK
  <2> DEFINE old == leaves[u]
             cm == Event.leaves[job.step]
  <2> HIDE DEF old, cm
  <2>4. old \in Seq(Leaf) /\ cm \in Leaf
    BY <2>1, <2>2 DEF old, cm
  <2>5. ToSet(Append(old, cm)) = ToSet(old) \cup {cm} /\ Len(Append(old, cm)) = Len(old) + 1 /\ Len(old) \in Nat
    BY <2>4, AppendedSet
  <2>6. leaves'[u] = old \/ leaves'[u] = Append(old, cm)
    BY <2>3 DEF old, cm
  <2>7. ToSet(old) \subseteq ToSet(leaves'[u]) /\ Len(old) <= Len(leaves'[u])
    <3>1. CASE leaves'[u] = old
      BY <2>5, <3>1
    <3>2. CASE leaves'[u] = Append(old, cm)
      BY <2>5, <3>2
    <3> QED BY <2>6, <3>1, <3>2
  <2> QED BY <2>7 DEF old
<1>4. leaves' = leaves \/ (AtLeaf /\ leaves' = [leaves EXCEPT ![EventTree] = Append(@, Event.leaves[job.step])])
  BY DEF Next, vars, dbVars, faultVars, Emit, Boot, FetchPage, CaughtUp, ApplyLeaf, ApplyTable, Gate,
         Halt, EndPage, CallFails, LeafReplyLost, Crash, AskPaths, LookUpPath, InsertLeaf
<1> QED BY <1>1, <1>2, <1>3, <1>4

LEMMA StoredStays ==
  ASSUME Shape, [Next]_vars
  PROVE  /\ \A cm : LeafExists(cm) => LeafExists(cm)'
         /\ \A i \in 1 .. Len(chain) : EventStored(i) => EventStored(i)'
<1>1. \A cm : LeafExists(cm) <=> \E u \in Trees : cm \in ToSet(leaves[u])
  BY DEF LeafExists, ToSet
<1>2. \A cm : LeafExists(cm)' <=> \E u \in Trees : cm \in ToSet(leaves'[u])
  BY DEF LeafExists, ToSet
<1>3. \A cm : LeafExists(cm) => LeafExists(cm)'
  BY <1>1, <1>2, LeavesGrow
<1>4. PICK n \in Nat : n = Len(chain)
  BY LenProperties DEF Shape, TypeOK
<1>5. \A i \in 1 .. n : chain'[i] = chain[i]
  BY <1>4, PastStays
<1>6. ASSUME NEW i \in 1 .. n, EventStored(i) PROVE EventStored(i)'
  BY <1>3, <1>5, <1>6, LeavesGrow DEF EventStored, LeavesStored, RowsStored
<1> QED BY <1>3, <1>4, <1>6

----------------------------------------------------------------------------
(* Memory and gate.                                                         *)

\* An insertion that takes effect in one of the two only, or is dropped, leaves a gap,
\* and a gap stays.
LEMMA InsertGap ==
  ASSUME Shape, NEW t \in Trees, NEW cm \in Leaf, cm \notin ToSet(leaves[t]),
         InsertLeaf(t, Len(tree[t]), cm),
         tree' = tree \/ tree' = [tree EXCEPT ![t] = Append(@, cm)],
         \A u \in Trees : tree[u] = leaves[u] \/ Gap(u)
  PROVE  /\ \A u \in Trees : Gap(u) => Gap(u)'
         /\ \A u \in Trees : tree'[u] = leaves'[u] \/ Gap(u)'
<1>1. /\ leaves[t] \in Seq(Leaf) /\ tree[t] \in Seq(Leaf)
      /\ leaves \in [Trees -> Seq(Leaf)] /\ tree \in [Trees -> Seq(Leaf)]
  BY DEF Shape, TypeOK
<1>2. /\ \A u \in Trees : u # t => leaves'[u] = leaves[u] /\ tree'[u] = tree[u]
      /\ leaves'[t] = IF Len(tree[t]) < Len(leaves[t]) THEN leaves[t] ELSE Append(leaves[t], cm)
      /\ tree'[t] = tree[t] \/ tree'[t] = Append(tree[t], cm)
  BY <1>1 DEF InsertLeaf
<1>3. /\ ToSet(Append(leaves[t], cm)) = ToSet(leaves[t]) \cup {cm}
      /\ ToSet(Append(tree[t], cm)) = ToSet(tree[t]) \cup {cm}
      /\ Len(leaves[t]) \in Nat
  BY <1>1, AppendedSet
<1>4. ASSUME Gap(t) PROVE Gap(t)'
  <2>1. PICK leaf \in ToSet(leaves[t]) : leaf \notin ToSet(tree[t])
    BY <1>4 DEF Gap
  <2>2. leaf \in ToSet(leaves'[t]) /\ leaf \notin ToSet(tree'[t])
    BY <1>2, <1>3, <2>1
  <2> QED BY <2>2 DEF Gap
<1>5. ASSUME NEW u \in Trees, u # t, Gap(u) PROVE Gap(u)'
  BY <1>2, <1>5 DEF Gap
<1>6. ASSUME tree[t] = leaves[t] PROVE tree'[t] = leaves'[t] \/ Gap(t)'
  <2>1. leaves'[t] = Append(leaves[t], cm)
    BY <1>2, <1>3, <1>6
  <2>2. CASE tree'[t] = Append(tree[t], cm)
    BY <1>6, <2>1, <2>2
  <2>3. CASE tree'[t] = tree[t]
    <3>1. cm \in ToSet(leaves'[t]) /\ cm \notin ToSet(tree'[t])
      BY <1>3, <1>6, <2>1, <2>3
    <3> QED BY <3>1 DEF Gap
  <2> QED BY <1>2, <2>2, <2>3
<1> QED BY <1>2, <1>4, <1>5, <1>6

LEMMA NextMemoryOrGap ==
  ASSUME Shape, MemoryOrGap, [Next]_vars
  PROVE  MemoryOrGap' /\ (job.busy /\ job'.busy => \A u \in Trees : Gap(u) => Gap(u)')
<1>1. CASE UNCHANGED <<leaves, tree>> /\ (phase' # "down" => phase # "down")
  <2>1. leaves' = leaves /\ tree' = tree
    BY <1>1
  <2>2. \A t : Gap(t) => Gap(t)'
    BY <2>1 DEF Gap
  <2> QED BY <1>1, <2>1, <2>2 DEF MemoryOrGap
<1>2. CASE Boot
  <2>1. MemoryOrGap'
    BY <1>2 DEF Boot, dbVars, MemoryOrGap
  <2>2. ~job.busy
    BY <1>2 DEF Boot, Shape, JobInRange
  <2> QED BY <2>1, <2>2
<1>3. CASE Crash
  BY <1>3 DEF Crash, Idle, MemoryOrGap
<1>4. ASSUME AtLeaf, ~LeafExists(Event.leaves[job.step]),
             InsertLeaf(EventTree, Len(tree[EventTree]), Event.leaves[job.step]),
             \/ tree' = tree
             \/ tree' = [tree EXCEPT ![EventTree] = Append(@, Event.leaves[job.step])]
      PROVE  MemoryOrGap' /\ \A u \in Trees : Gap(u) => Gap(u)'
  <2>1. PICK t \in Trees : t = EventTree
    BY <1>4, LeafAtHand
  <2>2. PICK cm \in Leaf : cm = Event.leaves[job.step]
    BY <1>4, LeafAtHand
  <2>3. \A u \in Trees : tree[u] = leaves[u] \/ Gap(u)
    BY <1>4 DEF AtLeaf, Applying, Shape, JobInRange, MemoryOrGap
  <2>4. cm \notin ToSet(leaves[t])
    BY <1>4, <2>2 DEF LeafExists, ToSet
  <2>5. /\ InsertLeaf(t, Len(tree[t]), cm)
        /\ tree' = tree \/ tree' = [tree EXCEPT ![t] = Append(@, cm)]
    BY <1>4, <2>1, <2>2
  <2>6. /\ \A u \in Trees : Gap(u) => Gap(u)'
        /\ \A u \in Trees : tree'[u] = leaves'[u] \/ Gap(u)'
    BY <2>3, <2>4, <2>5, InsertGap
  <2> QED BY <2>6 DEF MemoryOrGap
<1>5. CASE ApplyLeaf
  <2>1. CASE UNCHANGED <<leaves, tree>>
    BY <1>1, <1>5, <2>1 DEF ApplyLeaf
  <2>2. CASE ~UNCHANGED <<leaves, tree>>
    BY <1>4, <1>5, <2>2 DEF ApplyLeaf
  <2> QED BY <2>1, <2>2
<1>6. CASE LeafReplyLost
  BY <1>4, <1>6 DEF LeafReplyLost
<1>7. \/ Boot \/ Crash \/ ApplyLeaf \/ LeafReplyLost
      \/ UNCHANGED <<leaves, tree>> /\ (phase' # "down" => phase # "down")
  BY DEF Next, vars, dbVars, faultVars, Emit, FetchPage, CaughtUp, ApplyTable, Gate, Halt, GiveUp,
         EndPage, CallFails, AskPaths, LookUpPath
<1> QED BY <1>1, <1>2, <1>3, <1>5, <1>6, <1>7

\* A leaf of an event stands in the log before the end of any later one.
LEMMA LeafBefore ==
  ASSUME Shape, LogIsChain, NEW i \in 1 .. Len(chain), NEW k \in 1 .. Len(chain[i].leaves),
         NEW t \in Trees, t = TreeOf(chain[i].topic), NEW a \in i .. Len(chain)
  PROVE  /\ Offset(i, t) + k \in 1 .. Offset(a + 1, t)
         /\ Offset(i, t) + k \in 1 .. Len(log[t])
         /\ log[t][Offset(i, t) + k] = chain[i].leaves[k]
         /\ Offset(a + 1, t) \in Nat
<1>0. PICK n \in Nat : n = Len(chain) /\ i \in 1 .. n /\ a \in i .. n
  BY LenProperties DEF Shape, TypeOK
<1>1. EventPlaced(i)
  BY DEF LogIsChain
<1>2. /\ log[t][Offset(i, t) + k] = chain[i].leaves[k]
      /\ Offset(i + 1, t) = Offset(i, t) + Len(chain[i].leaves)
  BY <1>1 DEF EventPlaced
<1>3. i + 1 \in 1 .. a + 1 /\ a + 1 \in 1 .. n + 1 /\ i \in Nat \ {0} /\ a + 1 \in Nat \ {0}
  BY <1>0
<1>4. Offset(i + 1, t) <= Offset(a + 1, t) /\ Offset(a + 1, t) <= Len(log[t])
  BY <1>0, <1>3 DEF LogIsChain
<1>5. Offset(i, t) \in Nat /\ Offset(a + 1, t) \in Nat
  BY <1>3, OffsetType
<1>6. Len(chain[i].leaves) \in Nat /\ Len(log[t]) \in Nat
  BY EventAt, LenProperties DEF Shape, TypeOK
<1>7. PICK o \in Nat, m \in Nat, l \in Nat, h \in Nat :
         o = Offset(i, t) /\ m = Len(chain[i].leaves) /\ l = Len(log[t]) /\ h = Offset(a + 1, t)
  BY <1>5, <1>6
<1>8. k \in 1 .. m /\ o + m <= h /\ h <= l
  BY <1>2, <1>4, <1>7
<1>9. o + k \in 1 .. h /\ o + k \in 1 .. l
  BY <1>8
<1> QED BY <1>2, <1>5, <1>7, <1>9

\* The gate lets no event pass that is missing a leaf: the trees in memory lack a
\* leaf then, and with it the root.
LEMMA GapNoticed ==
  ASSUME Shape, LogIsChain, LeavesClosed, AtGate, Gap(EventTree), RootMatches
  PROVE  LeavesStored(job.at)
<1>1. PICK n \in Nat, a \in Nat, t \in Trees :
         n = Len(chain) /\ a = job.at /\ t = EventTree /\ a \in 1 .. n
  BY EventInChain, LenProperties DEF AtGate, AfterLeaves, Shape, TypeOK
<1>2. PICK leaf \in ToSet(leaves[t]) : leaf \notin ToSet(tree[t])
  BY <1>1 DEF Gap
<1>3. LeafClosed(t, leaf)
  BY <1>2 DEF LeavesClosed
<1>4. PICK i \in 1 .. n :
         /\ t = TreeOf(chain[i].topic)
         /\ \E k \in 1 .. Len(chain[i].leaves) : leaf = chain[i].leaves[k]
         /\ \A j \in 1 .. i - 1 : EventStored(j)
  BY <1>1, <1>3 DEF LeafClosed
<1>5. PICK k \in 1 .. Len(chain[i].leaves) : leaf = chain[i].leaves[k]
  BY <1>4
<1>8. ASSUME i <= a PROVE FALSE
  <2>1. PICK p : /\ p = Offset(i, t) + k
                 /\ p \in 1 .. Offset(a + 1, t)
                 /\ log[t][p] = leaf
    <3>1. a \in i .. n
      BY <1>1, <1>8
    <3> QED BY <1>1, <1>4, <1>5, <3>1, LeafBefore
  <2>2. EventPlaced(a)
    BY <1>1 DEF LogIsChain
  <2>3. Len(Event.root) = Offset(a + 1, t) /\ \A q \in 1 .. Len(Event.root) : Event.root[q] = log[t][q]
    BY <1>1, <2>2 DEF EventPlaced, Event, EventTree
  <2>5. p \in 1 .. Len(Event.root) /\ Event.root[p] = leaf
    BY <2>1, <2>3
  <2>6. tree[t] = Event.root
    BY <1>1 DEF RootMatches
  <2>7. DOMAIN tree[t] = 1 .. Len(tree[t])
    BY LenProperties DEF Shape, TypeOK
  <2>8. leaf \in ToSet(tree[t])
    BY <2>5, <2>6, <2>7 DEF ToSet
  <2> QED BY <1>2, <2>8
<1>9. a \in 1 .. i - 1
  BY <1>1, <1>8
<1> QED BY <1>1, <1>4, <1>9 DEF EventStored

LEMMA GateStored ==
  ASSUME Shape, LogIsChain, Whole, Gate
  PROVE  EventStored(job.at)
<1>1. /\ AtGate /\ Applying /\ job.step > Len(Event.leaves) /\ Pending = {}
      /\ MustCheck => RootMatches
  BY DEF Gate, AtGate, AfterLeaves
<1>2. job.at \in 1 .. Len(chain) /\ Len(Event.leaves) \in Nat /\ Event = chain[job.at]
  BY <1>1, EventInChain DEF Event
<1>3. Done = Len(Event.leaves)
  BY <1>1 DEF Done
<1>4. JobStored
  BY DEF Whole
<1>5. LeavesStored(job.at)
  <2>1. CASE \A k \in 1 .. Done : LeafExists(Event.leaves[k])
    BY <1>2, <1>3, <2>1 DEF LeavesStored
  <2>2. CASE job.added /\ Gap(EventTree)
    <3>1. Len(Event.leaves) > 0
      BY <1>1, <1>4, <2>2 DEF JobStored
    <3>2. EventPlaced(job.at)
      BY <1>2 DEF LogIsChain
    <3>3. Len(Event.leaves) = LeafCount(Event.topic)
      BY <1>2, <3>2 DEF EventPlaced
    <3>4. MustCheck
      BY <2>2, <3>1, <3>3, LeavesHaveRoot DEF MustCheck
    <3> QED BY <1>1, <2>2, <3>4, GapNoticed DEF Whole
  <2> QED BY <1>1, <1>4, <2>1, <2>2 DEF JobStored
<1>6. RowsStored(job.at)
  <2>1. ASSUME NEW p \in 1 .. 6, Writes(Tables[p], Event.topic) PROVE <<job.at, Tables[p]>> \in rows
    <3>1. ~(p >= job.step - Len(Event.leaves))
      BY <1>1, <2>1, TablesAre DEF Pending
    <3>2. p < job.step - Len(Event.leaves)
      BY <1>2, <3>1 DEF Shape, TypeOK
    <3> QED BY <1>1, <1>4, <2>1, <3>2 DEF JobStored
  <2> QED BY <1>2, <2>1 DEF RowsStored
<1> QED BY <1>5, <1>6 DEF EventStored

LEMMA NextPastStored ==
  ASSUME Shape, LogIsChain, Whole, [Next]_vars
  PROVE  PastStored'
<1>1. PICK n \in Nat, c \in Nat : n = Len(chain) /\ c = cursor /\ c <= n
  BY LenProperties DEF Shape, TypeOK, JobInRange
<1>2. \A i \in 1 .. n : EventStored(i) => EventStored(i)'
  BY <1>1, StoredStays
<1>3. \A i \in 1 .. c : EventStored(i)'
  BY <1>1, <1>2 DEF Whole, PastStored
<1>4. job.busy => \A i \in 1 .. job.at - 1 : EventStored(i)'
  BY <1>1, <1>2 DEF Whole, PastStored, Shape, TypeOK, JobInRange
<1>5. CASE cursor' = cursor /\ (job'.busy => job.busy /\ job'.at = job.at)
  BY <1>1, <1>3, <1>4, <1>5 DEF PastStored
<1>6. CASE FetchPage
  <2>1. cursor' = c /\ job'.at = c + 1
    BY <1>1, <1>6 DEF FetchPage, dbVars
  <2>2. job'.at - 1 = c
    BY <2>1
  <2> QED BY <1>3, <2>1, <2>2 DEF PastStored
<1>7. CASE Gate
  <2>1. job'.at = job.at + 1 /\ cursor' = cursor
    BY <1>7, NextEvent DEF Gate, JobRecord, Shape, TypeOK
  <2>2. job.at \in 1 .. n /\ job.busy
    BY <1>1, <1>7, EventInChain DEF Gate, AtGate, AfterLeaves, Applying
  <2>3. PICK a \in 1 .. n : a = job.at
    BY <2>2
  <2>4. EventStored(a)'
    BY <1>2, <1>7, <2>3, GateStored
  <2>5. \A i \in 1 .. a : EventStored(i)'
    <3>1. \A i \in 1 .. a : i = a \/ i \in 1 .. a - 1
      BY <2>3
    <3> QED BY <1>4, <2>2, <2>3, <2>4, <3>1
  <2>6. job'.at - 1 = a
    BY <2>1, <2>3
  <2> QED BY <1>1, <1>3, <2>1, <2>5, <2>6 DEF PastStored
<1>8. CASE EndPage
  <2>1. job.busy /\ ~job'.busy /\ cursor' = job.upto /\ job.upto = job.at - 1
    BY <1>8 DEF EndPage, NextCursor, Idle, Shape, TypeOK, JobInRange
  <2> QED BY <1>4, <2>1 DEF PastStored
<1>9. \/ cursor' = cursor /\ (job'.busy => job.busy /\ job'.at = job.at)
      \/ FetchPage \/ Gate \/ EndPage
  <2>1. ASSUME ApplyLeaf \/ ApplyTable
        PROVE  cursor' = cursor /\ job'.busy = job.busy /\ job'.at = job.at
    BY <2>1 DEF ApplyLeaf, ApplyTable, Shape, TypeOK
  <2>2. ASSUME UNCHANGED <<cursor, job>>
        PROVE  cursor' = cursor /\ (job'.busy => job.busy /\ job'.at = job.at)
    BY <2>2
  <2>3. ASSUME cursor' = cursor, job' = Idle
        PROVE  cursor' = cursor /\ (job'.busy => job.busy /\ job'.at = job.at)
    BY <2>3 DEF Idle
  <2>4. \/ UNCHANGED <<cursor, job>> \/ (cursor' = cursor /\ job' = Idle)
        \/ ApplyLeaf \/ ApplyTable \/ FetchPage \/ Gate \/ EndPage
    BY DEF Next, vars, dbVars, faultVars, Emit, Boot, CaughtUp, Halt, GiveUp, CallFails,
           LeafReplyLost, Crash, AskPaths, LookUpPath
  <2> QED BY <2>1, <2>2, <2>3, <2>4
<1> QED BY <1>5, <1>6, <1>7, <1>8, <1>9

\* The job's own event.
LEMMA KeptJobStored ==
  ASSUME Shape, Whole, [Next]_vars, job' = job
  PROVE  JobStored'
<1> SUFFICES ASSUME Applying' PROVE JobStored'
  BY DEF JobStored
<1>1. Applying /\ job.busy
  BY DEF Applying
<1>2. PICK n \in Nat, t \in Trees : n = Len(chain) /\ job.at \in 1 .. n /\ t = EventTree
  BY <1>1, EventInChain, LenProperties DEF Shape, TypeOK
<1>3. Event' = Event
  BY <1>2, PastStays DEF Event
<1>4. EventTree' = t /\ Done' = Done
  BY <1>2, <1>3 DEF EventTree, Done
<1>5. Gap(t) => Gap(t)'
  BY <1>1, NextMemoryOrGap DEF Whole
<1>6. (\A cm : LeafExists(cm) => LeafExists(cm)') /\ rows \subseteq rows'
  BY StoredStays, LeavesGrow
<1>7. /\ job.added => Len(Event.leaves) > 0
      /\ \/ \A k \in 1 .. Done : LeafExists(Event.leaves[k])
         \/ job.added /\ Gap(t)
      /\ \A p \in 1 .. 6 :
            p < job.step - Len(Event.leaves) /\ Writes(Tables[p], Event.topic)
               => <<job.at, Tables[p]>> \in rows
  BY <1>1, <1>2 DEF Whole, JobStored
<1>8. \/ \A k \in 1 .. Done' : LeafExists(Event.leaves[k])'
      \/ job'.added /\ Gap(EventTree)'
  <2>1. CASE \A k \in 1 .. Done : LeafExists(Event.leaves[k])
    <3>1. \A k \in 1 .. Done : LeafExists(Event.leaves[k])'
      <4> TAKE k \in 1 .. Done
      <4>1. PICK cm : cm = Event.leaves[k]
        OBVIOUS
      <4>2. LeafExists(cm)'
        BY <1>6, <2>1, <4>1
      <4> QED BY <1>3, <4>1, <4>2
    <3> QED BY <1>4, <3>1
  <2>2. CASE job.added /\ Gap(t)
    BY <1>4, <1>5, <2>2
  <2> QED BY <1>7, <2>1, <2>2
<1>9. \A p \in 1 .. 6 :
        p < job'.step - Len(Event'.leaves) /\ Writes(Tables[p], Event.topic)'
           => <<job'.at, Tables[p]>> \in rows'
  BY <1>3, <1>6, <1>7 DEF Writes, Tables
<1> QED BY <1>3, <1>7, <1>8, <1>9 DEF JobStored, Tables

LEMMA FreshJobStored ==
  ASSUME Shape, [Next]_vars, chain' = chain, job'.at \in Nat \ {0}, job'.step = 1, job'.added = FALSE
  PROVE  JobStored'
<1> SUFFICES ASSUME Applying' PROVE JobStored'
  BY DEF JobStored
<1>1. job'.at \in 1 .. Len(chain)
  BY NextShape, LenProperties DEF Applying, Shape, TypeOK, JobInRange
<1>2. Done' = 0
  BY <1>1, FreshDone
<1>3. Len(Event'.leaves) \in Nat
  BY <1>1, EventAt DEF Event
<1>4. \A p \in 1 .. 6 : ~(p < job'.step - Len(Event'.leaves))
  BY <1>3
<1>5. \A k \in 1 .. Done' : LeafExists(Event.leaves[k])'
  BY <1>2
<1> QED BY <1>4, <1>5 DEF JobStored

LEMMA ApplyLeafEffect ==
  ASSUME Shape, ApplyLeaf
  PROVE  LET cm == Event.leaves[job.step]
             t == EventTree
         IN  /\ AtLeaf /\ UNCHANGED <<chain, log, rows, roots, cursor, phase>>
             /\ t \in Trees /\ cm \in Leaf /\ job.at \in 1 .. Len(chain)
             /\ job.step \in 1 .. Len(Event.leaves) /\ Len(Event.leaves) \in Nat
             /\ job'.busy = job.busy /\ job'.at = job.at /\ job'.step = job.step + 1
             /\ Event' = Event /\ EventTree' = t
             /\ Done = job.step - 1 /\ Done' = job.step
             /\ \/ LeafExists(cm) /\ leaves' = leaves /\ tree' = tree /\ job'.added = job.added
                \/ /\ ~LeafExists(cm) /\ InsertLeaf(t, Len(tree[t]), cm) /\ job'.added = TRUE
                   /\ tree' = [tree EXCEPT ![t] = Append(@, cm)]
<1> DEFINE t == EventTree
           cm == Event.leaves[job.step]
<1>1. /\ AtLeaf /\ UNCHANGED <<chain, log, rows, roots, cursor, phase>>
      /\ \/ /\ LeafExists(cm) /\ leaves' = leaves /\ tree' = tree
            /\ job' = [job EXCEPT !.step = @ + 1]
         \/ /\ ~LeafExists(cm) /\ InsertLeaf(t, Len(tree[t]), cm)
            /\ tree' = [tree EXCEPT ![t] = Append(@, cm)]
            /\ job' = [job EXCEPT !.step = @ + 1, !.added = TRUE]
  BY DEF ApplyLeaf
<1>2. /\ t \in Trees /\ cm \in Leaf /\ job.at \in 1 .. Len(chain)
      /\ job.step \in 1 .. Len(Event.leaves) /\ Len(Event.leaves) \in Nat
  BY <1>1, LeafAtHand, EventInChain DEF AtLeaf
<1>3. job \in JobRecord
  BY DEF JobRecord, Shape, TypeOK
<1>4. /\ job'.busy = job.busy /\ job'.at = job.at /\ job'.step = job.step + 1
      /\ LeafExists(cm) => job'.added = job.added
      /\ ~LeafExists(cm) => job'.added = TRUE
  <2>1. CASE LeafExists(cm)
    BY <1>1, <1>3, <2>1, NextStep
  <2>2. CASE ~LeafExists(cm)
    BY <1>1, <1>3, <2>2, NextStepAdded
  <2> QED BY <2>1, <2>2
<1>5. Event' = Event /\ EventTree' = t
  BY <1>1, <1>4 DEF Event, EventTree
<1>6. Done = job.step - 1 /\ Done' = job.step
  BY <1>2, <1>4, <1>5 DEF Done
<1> QED BY <1>1, <1>2, <1>4, <1>5, <1>6

LEMMA ApplyTableEffect ==
  ASSUME Shape, ApplyTable
  PROVE  /\ AfterLeaves /\ UNCHANGED <<chain, log, leaves, tree, cursor, phase, lost>>
         /\ EventTree \in Trees /\ job.at \in 1 .. Len(chain) /\ Len(Event.leaves) \in Nat
         /\ job'.busy = job.busy /\ job'.at = job.at /\ job'.added = job.added
         /\ Event' = Event /\ EventTree' = EventTree
         /\ Done = Len(Event.leaves) /\ Done' = Done
         /\ \E p \in 1 .. 6 :
              /\ Writes(Tables[p], Event.topic)
              /\ \A q \in 1 .. 6 : q < p /\ Writes(Tables[q], Event.topic) => q < job.step - Len(Event.leaves)
              /\ rows' = rows \cup {<<job.at, Tables[p]>>}
              /\ job'.step = Len(Event.leaves) + p + 1
              /\ IF Tables[p] = "roots"
                 THEN InsertRoot(EventTree, Event.root, Len(tree[EventTree]))
                 ELSE roots' = roots
<1>1. PICK p \in Pending :
        /\ \A q \in Pending : p <= q
        /\ rows' = rows \cup {<<job.at, Tables[p]>>}
        /\ job' = [job EXCEPT !.step = Len(Event.leaves) + p + 1]
        /\ IF Tables[p] = "roots"
           THEN InsertRoot(EventTree, Event.root, Len(tree[EventTree]))
           ELSE roots' = roots
  BY DEF ApplyTable
<1>2. AfterLeaves /\ UNCHANGED <<chain, log, leaves, tree, cursor, phase, lost>>
  BY DEF ApplyTable, faultVars
<1>3. /\ EventTree \in Trees /\ job.at \in 1 .. Len(chain) /\ Len(Event.leaves) \in Nat
      /\ job.step > Len(Event.leaves)
  BY <1>2, EventInChain DEF AfterLeaves
<1>4. job \in JobRecord /\ job.step \in Nat
  BY DEF JobRecord, Shape, TypeOK
<1>5. p \in 1 .. 6 /\ Writes(Tables[p], Event.topic)
  BY TablesAre DEF Pending
<1>6. Len(Event.leaves) + p + 1 \in Nat
  BY <1>3, <1>5
<1>7. /\ job'.busy = job.busy /\ job'.at = job.at /\ job'.added = job.added
      /\ job'.step = Len(Event.leaves) + p + 1
  BY <1>1, <1>4, <1>6, ToStep
<1>8. Event' = Event /\ EventTree' = EventTree
  BY <1>2, <1>7 DEF Event, EventTree
<1>9. Done = Len(Event.leaves) /\ Done' = Done
  BY <1>3, <1>5, <1>7, <1>8 DEF Done
<1>10. ASSUME NEW q \in 1 .. 6, q < p, Writes(Tables[q], Event.topic)
       PROVE  q < job.step - Len(Event.leaves)
  <2>1. q \notin Pending
    BY <1>1, <1>5, <1>10
  <2>2. ~(q >= job.step - Len(Event.leaves))
    BY <1>10, <2>1, TablesAre DEF Pending
  <2> QED BY <1>3, <1>4, <2>2
<1> QED BY <1>1, <1>2, <1>3, <1>5, <1>7, <1>8, <1>9, <1>10

LEMMA ApplyLeafJobStored ==
  ASSUME Shape, Whole, ApplyLeaf, [Next]_vars
  PROVE  JobStored'
<1>1. PICK t \in Trees, cm \in Leaf : t = EventTree /\ cm = Event.leaves[job.step]
  BY ApplyLeafEffect
<1>2. /\ AtLeaf /\ Applying /\ job.busy
      /\ job.step \in 1 .. Len(Event.leaves) /\ Len(Event.leaves) \in Nat
      /\ job'.busy = job.busy /\ job'.step = job.step + 1
      /\ Event' = Event /\ EventTree' = t
      /\ Done = job.step - 1 /\ Done' = job.step
  BY <1>1, ApplyLeafEffect DEF AtLeaf, Applying
<1>3. \/ LeafExists(cm) /\ leaves' = leaves /\ tree' = tree /\ job'.added = job.added
      \/ ~LeafExists(cm) /\ InsertLeaf(t, Len(tree[t]), cm) /\ job'.added = TRUE
  BY <1>1, ApplyLeafEffect
<1>4. Gap(t) => Gap(t)'
  BY <1>2, NextMemoryOrGap DEF Whole
<1>5. \A c : LeafExists(c) => LeafExists(c)'
  BY StoredStays
<1>6. ASSUME \A k \in 1 .. Done : LeafExists(Event.leaves[k]), LeafExists(cm)'
      PROVE  \A k \in 1 .. Done' : LeafExists(Event.leaves[k])'
  <2> TAKE k \in 1 .. Done'
  <2>1. PICK c : c = Event.leaves[k]
    OBVIOUS
  <2>2. k \in 1 .. Done \/ k = job.step
    BY <1>2
  <2>3. LeafExists(c)'
    BY <1>1, <1>5, <1>6, <2>1, <2>2
  <2> QED BY <1>2, <2>1, <2>3
<1>7. \/ \A k \in 1 .. Done : LeafExists(Event.leaves[k])
      \/ job.added /\ Gap(t)
  BY <1>1, <1>2 DEF Whole, JobStored
<1>8. \/ \A k \in 1 .. Done' : LeafExists(Event.leaves[k])'
      \/ job'.added /\ Gap(EventTree)'
  <2>1. CASE LeafExists(cm)
    BY <1>2, <1>3, <1>4, <1>5, <1>6, <1>7, <2>1
  <2>2. CASE ~LeafExists(cm) /\ Gap(t)
    BY <1>2, <1>3, <1>4, <2>2
  <2>3. CASE ~LeafExists(cm) /\ ~Gap(t)
    <3>1. tree[t] = leaves[t]
      BY <1>2, <2>3 DEF Whole, MemoryOrGap, Shape, JobInRange
    <3>2. leaves[t] \in Seq(Leaf) /\ Len(leaves[t]) \in Nat /\ leaves \in [Trees -> Seq(Leaf)]
      BY LenProperties DEF Shape, TypeOK
    <3>3. leaves'[t] = Append(leaves[t], cm)
      BY <1>3, <2>3, <3>1, <3>2 DEF InsertLeaf
    <3>4. cm \in ToSet(leaves'[t])
      BY <3>2, <3>3, AppendedSet
    <3>5. LeafExists(cm)'
      BY <3>4 DEF LeafExists, ToSet
    <3> QED BY <1>6, <1>7, <2>3, <3>5
  <2> QED BY <2>1, <2>2, <2>3
<1>9. \A p \in 1 .. 6 : ~(p < job'.step - Len(Event'.leaves))
  BY <1>2
<1>10. Len(Event'.leaves) > 0
  BY <1>2
<1> QED BY <1>8, <1>9, <1>10 DEF JobStored

LEMMA ApplyTableJobStored ==
  ASSUME Shape, Whole, ApplyTable, [Next]_vars
  PROVE  JobStored'
<1>1. /\ Applying /\ job.busy /\ Len(Event.leaves) \in Nat /\ leaves' = leaves /\ tree' = tree
      /\ job'.at = job.at /\ job'.added = job.added
      /\ Event' = Event /\ EventTree' = EventTree /\ Done' = Done
  BY ApplyTableEffect DEF AfterLeaves, Applying
<1>2. PICK p \in 1 .. 6 :
        /\ \A q \in 1 .. 6 : q < p /\ Writes(Tables[q], Event.topic) => q < job.step - Len(Event.leaves)
        /\ rows' = rows \cup {<<job.at, Tables[p]>>}
        /\ job'.step = Len(Event.leaves) + p + 1
  BY ApplyTableEffect
<1>3. /\ job.added => Len(Event.leaves) > 0
      /\ \/ \A k \in 1 .. Done : LeafExists(Event.leaves[k])
         \/ job.added /\ Gap(EventTree)
      /\ \A q \in 1 .. 6 :
            q < job.step - Len(Event.leaves) /\ Writes(Tables[q], Event.topic)
               => <<job.at, Tables[q]>> \in rows
  BY <1>1 DEF Whole, JobStored
<1>4. \A c : LeafExists(c)' <=> LeafExists(c)
  BY <1>1 DEF LeafExists
<1>5. \A u : Gap(u)' <=> Gap(u)
  BY <1>1 DEF Gap
<1>6. \/ \A k \in 1 .. Done' : LeafExists(Event.leaves[k])'
      \/ job'.added /\ Gap(EventTree)'
  BY <1>1, <1>3, <1>4, <1>5
<1>7. ASSUME NEW q \in 1 .. 6, q < job'.step - Len(Event.leaves), Writes(Tables[q], Event.topic)
      PROVE  <<job.at, Tables[q]>> \in rows'
  <2>1. q = p \/ q < p
    BY <1>1, <1>2, <1>7
  <2> QED BY <1>2, <1>3, <1>7, <2>1
<1>8. \A q \in 1 .. 6 :
        q < job'.step - Len(Event'.leaves) /\ Writes(Tables[q], Event'.topic)
           => <<job'.at, Tables[q]>> \in rows'
  BY <1>1, <1>7
<1> QED BY <1>1, <1>3, <1>6, <1>8 DEF JobStored, Writes, Tables

LEMMA NextJobStored ==
  ASSUME Shape, Whole, [Next]_vars
  PROVE  JobStored'
<1>1. CASE job' = job
  BY <1>1, KeptJobStored
<1>2. CASE job' = Idle
  BY <1>2 DEF Idle, JobStored, Applying
<1>3. CASE FetchPage
  <2>1. chain' = chain /\ job'.at = cursor + 1 /\ job'.step = 1 /\ job'.added = FALSE
    BY <1>3 DEF FetchPage
  <2>2. job'.at \in Nat \ {0}
    BY <2>1 DEF Shape, TypeOK
  <2> QED BY <2>1, <2>2, FreshJobStored
<1>4. CASE Gate
  <2>1. chain' = chain /\ job' = [job EXCEPT !.at = @ + 1, !.step = 1, !.added = FALSE]
    BY <1>4 DEF Gate
  <2>2. job \in JobRecord
    BY DEF JobRecord, Shape, TypeOK
  <2>3. job'.at = job.at + 1 /\ job'.step = 1 /\ job'.added = FALSE
    BY <2>1, <2>2, NextEvent
  <2>4. job'.at \in Nat \ {0}
    BY <2>2, <2>3 DEF JobRecord
  <2> QED BY <2>1, <2>3, <2>4, FreshJobStored
<1>5. \/ job' = job \/ job' = Idle \/ FetchPage \/ ApplyLeaf \/ ApplyTable \/ Gate
  BY DEF Next, vars, Emit, Boot, CaughtUp, Halt, GiveUp, EndPage, CallFails, LeafReplyLost,
         Crash, AskPaths, LookUpPath
<1> QED BY <1>1, <1>2, <1>3, <1>4, <1>5, ApplyLeafJobStored, ApplyTableJobStored

----------------------------------------------------------------------------
(* Leaves and rows.                                                         *)

LEMMA NextLeavesClosed ==
  ASSUME Shape, LogIsChain, Whole, [Next]_vars
  PROVE  LeavesClosed'
<1>1. PICK n \in Nat : n = Len(chain)
  BY LenProperties DEF Shape, TypeOK
<1>2. \A i \in 1 .. n : EventStored(i) => EventStored(i)'
  BY <1>1, StoredStays
<1>3. n <= Len(chain') /\ Len(chain') \in Nat /\ \A i \in 1 .. n : chain'[i] = chain[i]
  BY <1>1, PastStays, NextShape, LenProperties DEF Shape, TypeOK
<1>4. ASSUME NEW u \in Trees, NEW leaf, NEW i \in 1 .. n, u = TreeOf(chain[i].topic),
             NEW k \in 1 .. Len(chain[i].leaves), leaf = chain[i].leaves[k],
             \A j \in 1 .. i - 1 : EventStored(j)
      PROVE  LeafClosed(u, leaf)'
  <2>1. i \in 1 .. Len(chain') /\ chain'[i] = chain[i]
    BY <1>3
  <2>2. \A j \in 1 .. i - 1 : EventStored(j)'
    BY <1>2, <1>4
  <2>3. u = TreeOf(chain'[i].topic)
    BY <1>4, <2>1
  <2> QED BY <1>4, <2>1, <2>2, <2>3 DEF LeafClosed
<1>5. ASSUME NEW u \in Trees, NEW leaf \in ToSet(leaves[u]) PROVE LeafClosed(u, leaf)'
  <2>1. LeafClosed(u, leaf)
    BY DEF Whole, LeavesClosed
  <2>2. PICK i \in 1 .. n :
           /\ u = TreeOf(chain[i].topic)
           /\ \E k \in 1 .. Len(chain[i].leaves) : leaf = chain[i].leaves[k]
           /\ \A j \in 1 .. i - 1 : EventStored(j)
    BY <1>1, <2>1 DEF LeafClosed
  <2> QED BY <1>4, <2>2
<1>6. CASE leaves' = leaves
  BY <1>5, <1>6 DEF LeavesClosed
<1>7. CASE leaves' # leaves
  <2>1. AtLeaf /\ leaves' = [leaves EXCEPT ![EventTree] = Append(@, Event.leaves[job.step])]
    BY <1>7 DEF Next, vars, dbVars, faultVars, Emit, Boot, FetchPage, CaughtUp, ApplyLeaf, ApplyTable,
           Gate, Halt, EndPage, CallFails, LeafReplyLost, Crash, AskPaths, LookUpPath, InsertLeaf
  <2>2. PICK t \in Trees, cm \in Leaf, a \in 1 .. n :
           t = EventTree /\ cm = Event.leaves[job.step] /\ a = job.at
    BY <1>1, <2>1, LeafAtHand
  <2>3. job.step \in 1 .. Len(chain[a].leaves) /\ cm = chain[a].leaves[job.step]
    BY <2>1, <2>2, LeafAtHand DEF Event
  <2>4. \A j \in 1 .. a - 1 : EventStored(j)
    BY <2>1, <2>2 DEF Whole, PastStored, AtLeaf, Applying
  <2>5. LeafClosed(t, cm)'
    BY <1>4, <2>2, <2>3, <2>4 DEF EventTree, Event
  <2>7. \A u \in Trees : leaves'[u] = leaves[u] \/ (u = t /\ leaves'[u] = Append(leaves[t], cm))
    BY <2>1, <2>2 DEF Shape, TypeOK
  <2>8. ToSet(Append(leaves[t], cm)) = ToSet(leaves[t]) \cup {cm}
    BY <2>2, AppendedSet DEF Shape, TypeOK
  <2>9. ASSUME NEW u \in Trees, NEW leaf \in ToSet(leaves'[u]) PROVE LeafClosed(u, leaf)'
    <3>1. leaf \in ToSet(leaves[u]) \/ (u = t /\ leaf = cm)
      <4>1. CASE leaves'[u] = leaves[u]
        BY <2>9, <4>1
      <4>2. CASE u = t /\ leaves'[u] = Append(leaves[t], cm)
        BY <2>8, <2>9, <4>2
      <4> QED BY <2>7, <4>1, <4>2
    <3>2. CASE leaf \in ToSet(leaves[u])
      BY <1>5, <3>2
    <3>3. CASE u = t /\ leaf = cm
      BY <2>5, <3>3
    <3> QED BY <3>1, <3>2, <3>3
  <2> QED BY <2>9 DEF LeavesClosed
<1> QED BY <1>6, <1>7

LEMMA NextRowsClosed ==
  ASSUME Shape, LogIsChain, Agrees, Whole, [Next]_vars
  PROVE  RowsClosed'
<1>1. PICK n \in Nat : n = Len(chain)
  BY LenProperties DEF Shape, TypeOK
<1>2. \A i \in 1 .. n : EventStored(i) => EventStored(i)'
  BY <1>1, StoredStays
<1>3. /\ n <= Len(chain') /\ Len(chain') \in Nat
      /\ \A i \in 1 .. n : chain'[i] = chain[i]
      /\ \A u \in Trees : \A i \in 1 .. n + 1 : Offset(i, u)' = Offset(i, u)
  BY <1>1, PastStays, NextShape, LenProperties DEF Shape, TypeOK
<1>4. /\ \A u \in Trees : Len(leaves[u]) <= Len(leaves'[u])
      /\ \A u \in Trees : Len(leaves[u]) \in Nat /\ Len(leaves'[u]) \in Nat
      /\ rows \subseteq rows'
  BY LeavesGrow, NextShape, LenProperties DEF Shape, TypeOK
<1>5. ~lost' => ~lost
  BY DEF Next, vars, dbVars, faultVars, Emit, Boot, FetchPage, CaughtUp, ApplyLeaf, ApplyTable, Gate,
         Halt, EndPage, CallFails, LeafReplyLost, Crash, AskPaths, LookUpPath
<1>p. InOrder' => InOrder
  BY InOrderBefore
<1>l. \A i \in 1 .. n : LeavesStored(i) => LeavesStored(i)'
  <2>1. \A cm : LeafExists(cm) => LeafExists(cm)'
    BY StoredStays
  <2> QED BY <1>3, <2>1 DEF LeavesStored
<1>6. ASSUME NEW i \in 1 .. n, NEW q \in 1 .. 6, RowClosed(i, q)
      PROVE  RowClosed(i, q)'
  <2>1. \A j \in 1 .. i - 1 : EventStored(j)'
    BY <1>2, <1>6 DEF RowClosed
  <2>5. ~lost' => LeavesStored(i)'
    BY <1>5, <1>6, <1>l DEF RowClosed
  <2>2. ASSUME InOrder', NEW u \in Trees PROVE Offset(i + 1, u)' <= Len(leaves'[u])
    <3>1. Offset(i + 1, u) <= Len(leaves[u])
      BY <1>p, <1>6, <2>2 DEF RowClosed
    <3>2. i + 1 \in 1 .. n + 1 /\ Offset(i + 1, u) \in Nat
      BY OffsetType
    <3> QED BY <1>3, <1>4, <3>1, <3>2
  <2>3. \A p \in 1 .. q : Writes(Tables[p], chain[i].topic) => <<i, Tables[p]>> \in rows
    BY <1>6 DEF RowClosed
  <2>4. \A p \in 1 .. q : Writes(Tables[p], chain'[i].topic) => <<i, Tables[p]>> \in rows'
    BY <1>3, <1>4, <2>3
  <2> QED BY <2>1, <2>2, <2>4, <2>5 DEF RowClosed, Writes, Tables
<1>7. CASE rows' = rows
  <2>1. \A row \in rows' : row[1] \in 1 .. Len(chain')
    BY <1>1, <1>3, <1>7 DEF Whole, RowsClosed
  <2>2. ASSUME NEW i \in 1 .. Len(chain'), NEW q \in 1 .. 6, <<i, Tables[q]>> \in rows'
        PROVE  RowClosed(i, q)'
    <3>1. i \in 1 .. n
      BY <1>1, <1>7, <2>2 DEF Whole, RowsClosed
    <3> QED BY <1>1, <1>6, <1>7, <2>2, <3>1 DEF Whole, RowsClosed
  <2> QED BY <2>1, <2>2 DEF RowsClosed, Tables
<1>8. CASE ApplyTable
  <2>1. PICK a \in 1 .. n : a = job.at
    BY <1>1, <1>8, ApplyTableEffect
  <2>2. PICK p \in 1 .. 6 :
          /\ \A q \in 1 .. 6 : q < p /\ Writes(Tables[q], Event.topic) => q < job.step - Len(Event.leaves)
          /\ rows' = rows \cup {<<a, Tables[p]>>}
    BY <1>8, <2>1, ApplyTableEffect
  <2>3. /\ AfterLeaves /\ Applying /\ job.busy
        /\ chain' = chain /\ leaves' = leaves
        /\ Event = chain[a]
    BY <1>8, <2>1, ApplyTableEffect DEF AfterLeaves, Applying, Event
  <2>4. RowClosed(a, p)'
    <3>1. \A j \in 1 .. a - 1 : EventStored(j)'
      BY <1>2, <2>1, <2>3 DEF Whole, PastStored
    <3>5. ASSUME ~lost' PROVE LeavesStored(a)'
      <4>1. tree = leaves
        BY <1>5, <2>3, <3>5 DEF Agrees, MemoryInStep, Shape, JobInRange
      <4>2. \A u : ~Gap(u)
        BY <4>1 DEF Gap
      <4>3. \A k \in 1 .. Done : LeafExists(Event.leaves[k])
        BY <2>3, <4>2 DEF Whole, JobStored
      <4>4. Done = Len(Event.leaves)
        BY <2>3 DEF AfterLeaves, Done
      <4>5. LeavesStored(a)
        BY <2>3, <4>3, <4>4 DEF LeavesStored
      <4> QED BY <1>l, <4>5
    <3>2. ASSUME InOrder', NEW u \in Trees PROVE Offset(a + 1, u)' <= Len(leaves'[u])
      <4>1. Offset(a + 1, u) <= Len(leaves[u])
        BY <1>p, <2>1, <2>3, <3>2, LeavesReached DEF Agrees
      <4>2. a + 1 \in 1 .. n + 1
        OBVIOUS
      <4> QED BY <1>3, <2>3, <4>1, <4>2
    <3>3. ASSUME NEW q \in 1 .. p, Writes(Tables[q], chain[a].topic)
          PROVE  <<a, Tables[q]>> \in rows'
      <4>1. q = p \/ (q \in 1 .. 6 /\ q < p)
        OBVIOUS
      <4>2. CASE q = p
        BY <2>2, <4>2
      <4>3. CASE q \in 1 .. 6 /\ q < p
        <5>1. q < job.step - Len(Event.leaves)
          BY <2>2, <2>3, <3>3, <4>3
        <5> QED BY <2>1, <2>2, <2>3, <3>3, <4>3, <5>1 DEF Whole, JobStored
      <4> QED BY <4>1, <4>2, <4>3
    <3>4. \A q \in 1 .. p : Writes(Tables[q], chain'[a].topic) => <<a, Tables[q]>> \in rows'
      BY <2>3, <3>3
    <3> QED BY <3>1, <3>2, <3>4, <3>5 DEF RowClosed, Writes, Tables
  <2>5. \A row \in rows' : row[1] \in 1 .. Len(chain')
    BY <1>1, <1>3, <2>2 DEF Whole, RowsClosed
  <2>6. ASSUME NEW i \in 1 .. Len(chain'), NEW q \in 1 .. 6, <<i, Tables[q]>> \in rows'
        PROVE  RowClosed(i, q)'
    <3>1. i \in 1 .. n
      BY <1>1, <2>3
    <3>2. <<i, Tables[q]>> \in rows \/ (i = a /\ Tables[q] = Tables[p])
      BY <2>2, <2>6
    <3>3. CASE <<i, Tables[q]>> \in rows
      BY <1>1, <1>6, <3>1, <3>3 DEF Whole, RowsClosed
    <3>4. CASE i = a /\ Tables[q] = Tables[p]
      BY <2>4, <3>4, TablesAre
    <3> QED BY <3>2, <3>3, <3>4
  <2> QED BY <2>5, <2>6 DEF RowsClosed, Tables
<1>9. rows' = rows \/ ApplyTable
  BY DEF Next, vars, dbVars, faultVars, Emit, Boot, FetchPage, CaughtUp, ApplyLeaf, Gate, Halt,
         EndPage, CallFails, LeafReplyLost, Crash, AskPaths, LookUpPath
<1> QED BY <1>7, <1>8, <1>9

LEMMA NextWhole == Shape /\ LogIsChain /\ Agrees /\ Whole /\ [Next]_vars => Whole'
<1> SUFFICES ASSUME Shape, LogIsChain, Agrees, Whole, [Next]_vars PROVE Whole'
  OBVIOUS
<1>1. MemoryOrGap'
  BY NextMemoryOrGap DEF Whole
<1>2. PastStored'
  BY NextPastStored
<1>3. JobStored'
  BY NextJobStored
<1> QED BY <1>1, <1>2, <1>3, NextLeavesClosed, NextRowsClosed DEF Whole

LEMMA InitWhole == Init => Whole
<1> SUFFICES ASSUME Init PROVE Whole
  OBVIOUS
<1>1. phase = "down" /\ ~job.busy /\ cursor = 0 /\ rows = {} /\ Len(chain) = 0
  BY DEF Init, Idle
<1>2. \A u \in Trees : ToSet(leaves[u]) = {}
  BY DEF Init, EmptyTrees, ToSet
<1> QED BY <1>1, <1>2 DEF Whole, MemoryOrGap, PastStored, JobStored, Applying, LeavesClosed, RowsClosed

LEMMA WholeHolds == Spec => [](Shape /\ LogIsChain /\ Agrees /\ Whole)
<1>1. Init => Shape /\ LogIsChain /\ Agrees /\ Whole
  BY InitShape, InitLog, InitAgrees, InitWhole
<1>2. /\ Shape /\ LogIsChain /\ Agrees /\ Whole /\ [Next]_vars
      => Shape' /\ LogIsChain' /\ Agrees' /\ Whole'
  BY NextShape, NextLog, NextAgrees, NextWhole
<1> QED BY <1>1, <1>2, PTL DEF Spec

----------------------------------------------------------------------------
(* The roots table.                                                         *)

RootRecord == [event : Nat, root : Seq(Leaf), count : Nat]

RootRow(r, t) ==
  /\ r.event \in 1 .. Len(chain)
  /\ <<r.event, "roots">> \in rows
  /\ TreeOf(chain[r.event].topic) = t
  /\ r.root = chain[r.event].root
  /\ InOrder => r.count = Len(r.root)

RootsAreRows ==
  /\ roots \in [Trees -> Seq(RootRecord)]
  /\ \A t \in Trees : \A k \in 1 .. Len(roots[t]) :
       /\ RootRow(roots[t][k], t)
       /\ \A j \in 1 .. k - 1 : roots[t][j].event < roots[t][k].event

HasRootRow(i) ==
  \E k \in 1 .. Len(roots[TreeOf(chain[i].topic)]) : roots[TreeOf(chain[i].topic)][k].event = i

RowsAreRoots == \A i \in 1 .. Len(chain) : <<i, "roots">> \in rows => HasRootRow(i)

DownIsEmpty == phase = "down" => tree = EmptyTrees

RootRows == RootsAreRows /\ RowsAreRoots /\ DownIsEmpty

\* When the root of an event is not stored yet, none of a later event is.
LEMMA RootsBefore ==
  ASSUME Shape, Whole, RootRows, NEW a \in 1 .. Len(chain), HasRoot(chain[a].topic), ~HasRootRow(a),
         NEW t \in Trees, TreeOf(chain[a].topic) = t, NEW k \in 1 .. Len(roots[t])
  PROVE  roots[t][k].event < a
<1>1. PICK n \in Nat : n = Len(chain)
  BY LenProperties DEF Shape, TypeOK
<1>2. PICK e \in 1 .. n : e = roots[t][k].event /\ <<e, "roots">> \in rows
  BY <1>1 DEF RootRows, RootsAreRows, RootRow
<1>3. e # a
  BY <1>2 DEF HasRootRow
<1>4. ASSUME a < e PROVE FALSE
  <2>1. RowClosed(e, 1)
    <3>1. <<e, Tables[1]>> \in rows
      BY <1>2, TablesAre
    <3>2. \A q \in 1 .. 6 : <<e, Tables[q]>> \in rows => RowClosed(e, q)
      BY <1>1 DEF Whole, RowsClosed
    <3> QED BY <3>1, <3>2
  <2>2. a \in 1 .. e - 1
    BY <1>1, <1>4
  <2>3. EventStored(a)
    BY <2>1, <2>2 DEF RowClosed
  <2>4. <<a, "roots">> \in rows
    <3>1. 1 \in 1 .. 6 /\ Tables[1] = "roots"
      BY TablesAre
    <3>2. Writes(Tables[1], chain[a].topic)
      BY <3>1, WritesRoots
    <3> QED BY <2>3, <3>1, <3>2 DEF EventStored, RowsStored
  <2> QED BY <1>1, <2>4 DEF RootRows, RowsAreRoots
<1> QED BY <1>1, <1>2, <1>3, <1>4

\* Then the tree in memory has no leaf of a later event either, so that its size is
\* the number of leaves behind the root.
LEMMA CountIsExact ==
  ASSUME Shape, LogIsChain, Agrees, Whole, RootRows, InOrder, AfterLeaves,
         HasRoot(Event.topic), ~HasRootRow(job.at)
  PROVE  Len(tree[EventTree]) = Len(Event.root)
<1>1. /\ job.at \in 1 .. Len(chain) /\ EventTree \in Trees /\ Event = chain[job.at]
      /\ Len(chain) \in Nat /\ phase # "down" /\ job.busy
  BY EventInChain, LenProperties DEF AfterLeaves, Applying, Event, Shape, TypeOK, JobInRange
<1>2. PICK n \in Nat, a \in Nat, t \in Trees : n = Len(chain) /\ a = job.at /\ t = EventTree /\ a \in 1 .. n
  BY <1>1
<1>3. tree[t] = leaves[t]
  BY <1>1 DEF InOrder, Agrees, MemoryInStep
<1>4. EventPlaced(a)
  BY <1>2 DEF LogIsChain
<1>5. Len(Event.root) = Offset(a + 1, t)
  BY <1>1, <1>2, <1>4 DEF EventPlaced, EventTree
<1>6. Offset(a + 1, t) <= Len(leaves[t]) /\ Offset(a + 1, t) \in Nat
  BY <1>2, LeavesReached, OffsetType DEF Agrees
<1>7. /\ Len(leaves[t]) \in Nat /\ DOMAIN leaves[t] = 1 .. Len(leaves[t])
      /\ Len(leaves[t]) <= Len(log[t]) /\ Len(log[t]) \in Nat
      /\ \A q \in 1 .. Len(leaves[t]) : leaves[t][q] = log[t][q]
  BY LenProperties DEF Shape, TypeOK, Agrees, LeavesFollow
<1>8. ASSUME Offset(a + 1, t) < Len(leaves[t]) PROVE FALSE
  <2>1. PICK p \in Nat : p = Offset(a + 1, t) + 1 /\ p \in 1 .. Len(leaves[t]) /\ p \in 1 .. Len(log[t])
    BY <1>6, <1>7, <1>8
  <2>2. leaves[t][p] \in ToSet(leaves[t])
    BY <1>7, <2>1 DEF ToSet
  <2>3. LeafClosed(t, leaves[t][p])
    BY <1>2, <2>2 DEF Whole, LeavesClosed
  <2>4. PICK i \in 1 .. n :
           /\ t = TreeOf(chain[i].topic)
           /\ \E k \in 1 .. Len(chain[i].leaves) : leaves[t][p] = chain[i].leaves[k]
           /\ \A j \in 1 .. i - 1 : EventStored(j)
    BY <1>2, <2>3 DEF LeafClosed
  <2>5. PICK k \in 1 .. Len(chain[i].leaves) : leaves[t][p] = chain[i].leaves[k]
    BY <2>4
  <2>6. ASSUME i <= a PROVE FALSE
    <3>1. PICK q : /\ q = Offset(i, t) + k
                   /\ q \in 1 .. Offset(a + 1, t)
                   /\ q \in 1 .. Len(log[t])
                   /\ log[t][q] = leaves[t][p]
      <4>1. a \in i .. n
        BY <1>2, <2>6
      <4>2. a \in i .. Len(chain) /\ i \in 1 .. Len(chain) /\ t = TreeOf(chain[i].topic)
        BY <1>2, <2>4, <4>1
      <4>3. /\ Offset(i, t) + k \in 1 .. Offset(a + 1, t)
            /\ Offset(i, t) + k \in 1 .. Len(log[t])
            /\ log[t][Offset(i, t) + k] = chain[i].leaves[k]
        BY <4>2, LeafBefore
      <4> QED BY <2>5, <4>3
    <3>2. DOMAIN log[t] = 1 .. Len(log[t])
      BY <1>2, LenProperties DEF Shape, TypeOK
    <3>3. q = p
      BY <1>2, <1>7, <2>1, <3>1, <3>2 DEF InOrder, Distinct
    <3> QED BY <1>6, <2>1, <3>1, <3>3
  <2>7. EventStored(a)
    <3>1. a \in 1 .. i - 1
      BY <1>2, <2>6
    <3> QED BY <2>4, <3>1
  <2>8. <<a, "roots">> \in rows
    BY <1>1, <1>2, <2>7, TablesAre, WritesRoots DEF EventStored, RowsStored
  <2> QED BY <1>2, <2>8 DEF RootRows, RowsAreRoots
<1> QED BY <1>2, <1>3, <1>5, <1>6, <1>7, <1>8

LEMMA InsertRootRows ==
  ASSUME Shape, LogIsChain, Agrees, Whole, RootRows, ApplyTable,
         rows' = rows \cup {<<job.at, "roots">>}, HasRoot(Event.topic),
         InsertRoot(EventTree, Event.root, Len(tree[EventTree]))
  PROVE  RootRows'
<1>1. PICK n \in Nat, a \in Nat, t \in Trees : n = Len(chain) /\ a = job.at /\ t = EventTree /\ a \in 1 .. n
  BY ApplyTableEffect, LenProperties DEF Shape, TypeOK
<1>2. /\ AfterLeaves /\ chain' = chain /\ tree' = tree /\ phase' = phase /\ lost' = lost
      /\ Event = chain[a] /\ TreeOf(chain[a].topic) = t
  BY <1>1, ApplyTableEffect DEF Event, EventTree
<1>10. InOrder' <=> InOrder
  <2>1. log' = log /\ lost' = lost
    BY DEF ApplyTable, faultVars
  <2> QED BY <2>1 DEF InOrder, Distinct
<1>3. DownIsEmpty'
  BY <1>2 DEF RootRows, DownIsEmpty, EmptyTrees
<1> DEFINE NextRow(r, u) ==
             /\ r.event \in 1 .. Len(chain')
             /\ <<r.event, "roots">> \in rows'
             /\ TreeOf(chain'[r.event].topic) = u
             /\ r.root = chain'[r.event].root
             /\ InOrder => r.count = Len(r.root)
<1>4. \A r, u : RootRow(r, u) => NextRow(r, u)
  BY <1>2 DEF RootRow
<1>9. \A u \in Trees : \A k \in 1 .. Len(roots'[u]) : RootRow(roots[u][k], u)' <=> NextRow(roots'[u][k], u)
  BY <1>10 DEF RootRow
<1> HIDE DEF NextRow
<1>5. roots \in [Trees -> Seq(RootRecord)] /\ roots[t] \in Seq(RootRecord) /\ Len(roots[t]) \in Nat
  BY LenProperties DEF RootRows, RootsAreRows
<1>6. DOMAIN roots[t] = 1 .. Len(roots[t])
  BY <1>5, LenProperties
<1>7. CASE HasRootRow(a)
  <2>1. \E i \in DOMAIN roots[t] : roots[t][i].event = job.at
    BY <1>1, <1>2, <1>6, <1>7 DEF HasRootRow
  <2>2. roots' = roots
    BY <1>1, <2>1 DEF InsertRoot
  <2>3. RootsAreRows'
    <3>1. \A u \in Trees : \A k \in 1 .. Len(roots[u]) : RootRow(roots[u][k], u)
      BY DEF RootRows, RootsAreRows
    <3>2. \A u \in Trees : \A k \in 1 .. Len(roots'[u]) : RootRow(roots[u][k], u)'
      BY <1>4, <1>9, <2>2, <3>1
    <3> QED BY <2>2, <3>2 DEF RootRows, RootsAreRows, RootRecord
  <2>4. \A i : HasRootRow(i) => HasRootRow(i)'
    BY <1>2, <2>2 DEF HasRootRow
  <2>5. RowsAreRoots'
    BY <1>1, <1>2, <1>7, <2>4 DEF RootRows, RowsAreRoots
  <2> QED BY <1>3, <2>3, <2>5 DEF RootRows
<1>8. CASE ~HasRootRow(a)
  <2>1. ~(\E i \in DOMAIN roots[t] : roots[t][i].event = job.at)
    BY <1>1, <1>2, <1>6, <1>8 DEF HasRootRow
  <2>3. PICK r \in RootRecord : /\ r = [event |-> job.at, root |-> Event.root, count |-> Len(tree[EventTree])]
                                /\ r.event = a /\ r.root = chain[a].root /\ r.count = Len(tree[t])
    <3>1. Event \in EventRecord
      BY <1>2, EventInChain DEF AfterLeaves
    <3>2. Len(tree[EventTree]) \in Nat
      BY <1>1, LenProperties DEF Shape, TypeOK
    <3>3. Event.root \in Seq(Leaf) /\ job.at \in Nat
      BY <1>1, <3>1 DEF EventRecord
    <3> DEFINE new == [event |-> job.at, root |-> Event.root, count |-> Len(tree[EventTree])]
    <3>4. new \in RootRecord
      BY <3>2, <3>3 DEF RootRecord
    <3>5. new.event = a /\ new.root = chain[a].root /\ new.count = Len(tree[t])
      BY <1>1, <1>2
    <3> QED BY <3>4, <3>5
  <2>2. roots' = [roots EXCEPT ![t] = Append(@, r)]
    BY <1>1, <2>1, <2>3 DEF InsertRoot
  <2>4. InOrder => r.count = Len(r.root)
    BY <1>1, <1>2, <1>8, <2>3, CountIsExact
  <2>5. NextRow(r, t)
    BY <1>1, <1>2, <2>3, <2>4 DEF NextRow
  <2>6. /\ roots' \in [Trees -> Seq(RootRecord)]
        /\ \A u \in Trees : u # t => roots'[u] = roots[u]
        /\ roots'[t] = Append(roots[t], r)
    BY <1>5, <2>2, <2>3, AppendProperties
  <2>7. /\ Len(roots'[t]) = Len(roots[t]) + 1
        /\ \A k \in 1 .. Len(roots[t]) : roots'[t][k] = roots[t][k]
        /\ roots'[t][Len(roots[t]) + 1] = r
    BY <1>5, <2>3, <2>6, AppendProperties
  <2>8. \A k \in 1 .. Len(roots[t]) : roots[t][k].event < a
    BY <1>1, <1>2, <1>8, RootsBefore
  <2>9. ASSUME NEW k \in 1 .. Len(roots'[t])
        PROVE  NextRow(roots'[t][k], t) /\ \A j \in 1 .. k - 1 : roots'[t][j].event < roots'[t][k].event
    <3>1. CASE k = Len(roots[t]) + 1
      <4>1. roots'[t][k] = r /\ \A j \in 1 .. k - 1 : j \in 1 .. Len(roots[t])
        BY <1>5, <2>7, <3>1
      <4>2. \A j \in 1 .. k - 1 : roots'[t][j].event < roots'[t][k].event
        BY <2>3, <2>7, <2>8, <4>1
      <4> QED BY <2>5, <4>1, <4>2
    <3>2. CASE k # Len(roots[t]) + 1
      <4>1. k \in 1 .. Len(roots[t]) /\ \A j \in 1 .. k - 1 : j \in 1 .. Len(roots[t])
        BY <1>5, <2>7, <3>2
      <4>2. RootRow(roots[t][k], t) /\ \A j \in 1 .. k - 1 : roots[t][j].event < roots[t][k].event
        BY <4>1 DEF RootRows, RootsAreRows
      <4>3. NextRow(roots'[t][k], t)
        BY <1>4, <2>7, <4>1, <4>2
      <4>4. \A j \in 1 .. k - 1 : roots'[t][j] = roots[t][j]
        BY <2>7, <4>1
      <4>5. roots'[t][k] = roots[t][k]
        BY <2>7, <4>1
      <4> QED BY <4>2, <4>3, <4>4, <4>5
    <3> QED BY <3>1, <3>2
  <2>10. ASSUME NEW u \in Trees, u # t, NEW k \in 1 .. Len(roots'[u])
         PROVE  NextRow(roots'[u][k], u) /\ \A j \in 1 .. k - 1 : roots'[u][j].event < roots'[u][k].event
    <3>1. roots'[u] = roots[u]
      BY <2>6, <2>10
    <3>2. RootRow(roots[u][k], u) /\ \A j \in 1 .. k - 1 : roots[u][j].event < roots[u][k].event
      BY <2>10, <3>1 DEF RootRows, RootsAreRows
    <3> QED BY <1>4, <3>1, <3>2
  <2>11. RootsAreRows'
    <3>1. \A u \in Trees : \A k \in 1 .. Len(roots'[u]) :
             RootRow(roots[u][k], u)' /\ \A j \in 1 .. k - 1 : roots'[u][j].event < roots'[u][k].event
      BY <1>9, <2>9, <2>10
    <3> QED BY <2>6, <3>1 DEF RootsAreRows, RootRecord
  <2>12. ASSUME NEW i \in 1 .. n, <<i, "roots">> \in rows' PROVE HasRootRow(i)'
    <3>1. CASE i = a
      <4>1. Len(roots[t]) + 1 \in 1 .. Len(roots'[t])
        BY <1>5, <2>7
      <4> QED BY <1>2, <2>3, <2>7, <3>1, <4>1 DEF HasRootRow
    <3>2. CASE i # a
      <4>1. HasRootRow(i)
        BY <1>1, <2>12, <3>2 DEF RootRows, RowsAreRoots
      <4>2. \A u \in Trees : \A k \in 1 .. Len(roots[u]) : k \in 1 .. Len(roots'[u]) /\ roots'[u][k] = roots[u][k]
        <5> TAKE u \in Trees
        <5>1. CASE u = t
          BY <1>5, <2>7, <5>1
        <5>2. CASE u # t
          BY <2>6, <5>2
        <5> QED BY <5>1, <5>2
      <4>3. TreeOf(chain[i].topic) \in Trees
        BY <1>1, EventAt
      <4> QED BY <1>2, <4>1, <4>2, <4>3 DEF HasRootRow
    <3> QED BY <3>1, <3>2
  <2>13. RowsAreRoots'
    BY <1>1, <1>2, <2>12 DEF RowsAreRoots
  <2> QED BY <1>3, <2>11, <2>13 DEF RootRows
<1> QED BY <1>7, <1>8

\* Nothing else writes the roots table.
LEMMA KeptRootRows ==
  ASSUME Shape, RootRows, [Next]_vars, roots' = roots,
         \A i : <<i, "roots">> \in rows' <=> <<i, "roots">> \in rows,
         \A row \in rows : row[1] \in 1 .. Len(chain)
  PROVE  RootRows'
<1>1. PICK n \in Nat : n = Len(chain)
  BY LenProperties DEF Shape, TypeOK
<1>2. /\ n <= Len(chain') /\ Len(chain') \in Nat
      /\ \A i \in 1 .. n : chain'[i] = chain[i]
  BY <1>1, PastStays, NextShape, LenProperties DEF Shape, TypeOK
<1>3. InOrder' => InOrder
  BY InOrderBefore
<1>4. DownIsEmpty'
  <2>1. CASE Crash
    BY <2>1 DEF Crash, DownIsEmpty, EmptyTrees
  <2>2. CASE ~Crash
    <3>1. phase' = "down" => phase = "down" /\ tree' = tree
      BY <2>2 DEF Next, vars, dbVars, faultVars, Emit, Boot, FetchPage, CaughtUp, ApplyLeaf, ApplyTable,
             Gate, Halt, GiveUp, EndPage, CallFails, LeafReplyLost, AskPaths, LookUpPath, AtLeaf,
             Applying, Shape, JobInRange
    <3> QED BY <3>1 DEF RootRows, DownIsEmpty, EmptyTrees
  <2> QED BY <2>1, <2>2
<1>5. ASSUME NEW r, NEW u, RootRow(r, u) PROVE RootRow(r, u)'
  <2>1. r.event \in 1 .. n /\ r.event \in 1 .. Len(chain') /\ chain'[r.event] = chain[r.event]
    BY <1>1, <1>2, <1>5 DEF RootRow
  <2> QED BY <1>3, <1>5, <2>1 DEF RootRow
<1>6. RootsAreRows'
  BY <1>5 DEF RootRows, RootsAreRows, RootRecord
<1>7. ASSUME NEW i \in 1 .. Len(chain'), <<i, "roots">> \in rows' PROVE HasRootRow(i)'
  <2>1. <<i, "roots">> \in rows
    BY <1>7
  <2>2. i \in 1 .. n
    BY <1>1, <2>1
  <2>3. HasRootRow(i) /\ chain'[i] = chain[i]
    BY <1>1, <1>2, <2>1, <2>2 DEF RootRows, RowsAreRoots
  <2> QED BY <2>3 DEF HasRootRow
<1>8. RowsAreRoots'
  BY <1>7 DEF RowsAreRoots
<1> QED BY <1>4, <1>6, <1>8 DEF RootRows

LEMMA NextRootRows == Shape /\ LogIsChain /\ Agrees /\ Whole /\ RootRows /\ [Next]_vars => RootRows'
<1> SUFFICES ASSUME Shape, LogIsChain, Agrees, Whole, RootRows, [Next]_vars PROVE RootRows'
  OBVIOUS
<1>1. \A row \in rows : row[1] \in 1 .. Len(chain)
  BY DEF Whole, RowsClosed
<1>2. CASE ApplyTable
  <2>1. PICK p \in 1 .. 6 :
          /\ Writes(Tables[p], Event.topic)
          /\ rows' = rows \cup {<<job.at, Tables[p]>>}
          /\ IF Tables[p] = "roots"
             THEN InsertRoot(EventTree, Event.root, Len(tree[EventTree]))
             ELSE roots' = roots
    BY <1>2, ApplyTableEffect
  <2>2. CASE Tables[p] = "roots"
    <3>1. HasRoot(Event.topic)
      BY <2>1, <2>2, WritesRoots
    <3> QED BY <1>2, <2>1, <2>2, <3>1, InsertRootRows
  <2>3. CASE Tables[p] # "roots"
    <3>1. \A i : <<i, "roots">> \in rows' <=> <<i, "roots">> \in rows
      BY <2>1, <2>3
    <3> QED BY <1>1, <2>1, <2>3, <3>1, KeptRootRows
  <2> QED BY <2>2, <2>3
<1>3. CASE UNCHANGED <<roots, rows>>
  BY <1>1, <1>3, KeptRootRows
<1>4. ApplyTable \/ UNCHANGED <<roots, rows>>
  BY DEF Next, vars, dbVars, faultVars, Emit, Boot, FetchPage, CaughtUp, ApplyLeaf, Gate, Halt,
         EndPage, CallFails, LeafReplyLost, Crash, AskPaths, LookUpPath
<1> QED BY <1>2, <1>3, <1>4

LEMMA InitRootRows == Init => RootRows
<1> SUFFICES ASSUME Init PROVE RootRows
  OBVIOUS
<1>1. /\ roots = EmptyTrees /\ rows = {} /\ tree = EmptyTrees
      /\ EmptyTrees \in [Trees -> Seq(RootRecord)] /\ \A t \in Trees : Len(EmptyTrees[t]) = 0
  BY DEF Init, EmptyTrees
<1> QED BY <1>1 DEF RootRows, RootsAreRows, RowsAreRoots, DownIsEmpty

LEMMA RootRowsHold == Spec => [](Shape /\ LogIsChain /\ Agrees /\ Whole /\ RootRows)
<1>1. Init => RootRows
  BY InitRootRows
<1>2. Shape /\ LogIsChain /\ Agrees /\ Whole /\ RootRows /\ [Next]_vars => RootRows'
  BY NextRootRows
<1> QED BY <1>1, <1>2, WholeHolds, PTL DEF Spec

----------------------------------------------------------------------------
(* What the API can count on.                                               *)

\* Everything before the cursor is in the database, whatever crashed, failed or was
\* lost: the cursor is stored after the page, and an event whose insertion was lost
\* cannot pass the self-check.
THEOREM NothingBeforeCursorSkipped == Spec => []NothingSkipped
<1>1. Shape /\ Whole /\ RootRows => NothingSkipped
  <2> SUFFICES ASSUME Shape, Whole, RootRows, NEW i \in 1 .. cursor PROVE Stored(i)
    BY DEF NothingSkipped
  <2>1. i \in 1 .. Len(chain) /\ DOMAIN chain = 1 .. Len(chain)
    BY LenProperties DEF Shape, TypeOK, JobInRange
  <2>2. LeavesStored(i) /\ RowsStored(i)
    BY DEF Whole, PastStored, EventStored
  <2>3. \A k \in DOMAIN chain[i].leaves : LeafExists(chain[i].leaves[k])
    BY <2>1, <2>2, EventAt, LenProperties DEF LeavesStored
  <2>4. \A p \in 1 .. 6 : Writes(Tables[p], chain[i].topic) => <<i, Tables[p]>> \in rows
    BY <2>2 DEF RowsStored
  <2>5. /\ Writes("roots", chain[i].topic) => <<i, "roots">> \in rows
        /\ Writes("nullifiers", chain[i].topic) => <<i, "nullifiers">> \in rows
        /\ Writes("ciphertexts", chain[i].topic) => <<i, "ciphertexts">> \in rows
        /\ Writes("transactions", chain[i].topic) => <<i, "transactions">> \in rows
        /\ Writes("frozen", chain[i].topic) => <<i, "frozen">> \in rows
        /\ Writes("registries", chain[i].topic) => <<i, "registries">> \in rows
    BY <2>4, TablesAre
  <2>6. ASSUME HasRoot(chain[i].topic)
        PROVE  \E k \in DOMAIN roots[TreeOf(chain[i].topic)] : roots[TreeOf(chain[i].topic)][k].event = i
    <3>1. HasRootRow(i)
      BY <2>1, <2>5, <2>6, WritesRoots DEF RootRows, RowsAreRoots
    <3>2. roots[TreeOf(chain[i].topic)] \in Seq(RootRecord)
      BY <2>1, EventAt DEF RootRows, RootsAreRows
    <3> QED BY <3>1, <3>2, LenProperties DEF HasRootRow
  <2> QED BY <2>1, <2>3, <2>5, <2>6 DEF Stored, NullifiersUsed, Ciphertexts, Ledger, IndexedFrozen, Registries
<1> QED BY <1>1, RootRowsHold, PTL

\* A row of the regulator's ledger comes with the nullifiers and ciphertexts it is
\* joined with, and as long as no reply was lost its leaves are stored: the rows of
\* an event are written in one order, after its leaves.
THEOREM LedgerRowsComplete == Spec => []LedgerComplete
<1>1. Shape /\ LogIsChain /\ Agrees /\ Whole => LedgerComplete
  <2> SUFFICES ASSUME Shape, LogIsChain, Agrees, Whole, NEW i \in Ledger
               PROVE  /\ Writes("nullifiers", chain[i].topic) => i \in NullifiersUsed
                      /\ Writes("ciphertexts", chain[i].topic) => i \in Ciphertexts
                      /\ ~lost => \A k \in DOMAIN chain[i].leaves : LeafExists(chain[i].leaves[k])
    BY DEF LedgerComplete
  <2>1. i \in 1 .. Len(chain) /\ i \in DOMAIN chain /\ <<i, "transactions">> \in rows
    BY LenProperties DEF Ledger, Shape, TypeOK
  <2>2. RowClosed(i, 4)
    <3>1. <<i, Tables[4]>> \in rows
      BY <2>1, TablesAre
    <3>2. \A q \in 1 .. 6 : <<i, Tables[q]>> \in rows => RowClosed(i, q)
      BY <2>1 DEF Whole, RowsClosed
    <3> QED BY <3>1, <3>2
  <2>3. \A p \in 1 .. 4 : Writes(Tables[p], chain[i].topic) => <<i, Tables[p]>> \in rows
    BY <2>2 DEF RowClosed
  <2>4. /\ Writes("nullifiers", chain[i].topic) => i \in NullifiersUsed
        /\ Writes("ciphertexts", chain[i].topic) => i \in Ciphertexts
    BY <2>1, <2>3, TablesAre DEF NullifiersUsed, Ciphertexts
  <2>5. ASSUME ~lost PROVE \A k \in DOMAIN chain[i].leaves : LeafExists(chain[i].leaves[k])
    <3>1. LeavesStored(i)
      BY <2>2, <2>5 DEF RowClosed
    <3> QED BY <2>1, <3>1, EventAt, LenProperties DEF LeavesStored
  <2> QED BY <2>4, <2>5
<1> QED BY <1>1, WholeHolds, PTL

\* Each row of the roots table is a root the contract had, newest last.  As long as no
\* reply was lost and no commitment repeated, it has the root's number of leaves, and
\* the latest root the API serves is one of a tree the stored leaves have grown through.
THEOREM RootsServedAlways == Spec => []RootsServed
<1>1. Shape /\ LogIsChain /\ Agrees /\ Whole /\ RootRows => RootsServed
  <2> SUFFICES ASSUME Shape, LogIsChain, Agrees, Whole, RootRows, NEW t \in Trees
               PROVE  /\ \A i \in DOMAIN roots[t] :
                           /\ roots[t][i].root = chain[roots[t][i].event].root
                           /\ InOrder => roots[t][i].count = Len(roots[t][i].root)
                           /\ \A j \in 1 .. i - 1 : roots[t][j].event < roots[t][i].event
                      /\ InOrder => IsPrefix(LatestRoot(t), leaves[t])
    BY DEF RootsServed
  <2>1. roots[t] \in Seq(RootRecord) /\ Len(roots[t]) \in Nat /\ DOMAIN roots[t] = 1 .. Len(roots[t])
    BY LenProperties DEF RootRows, RootsAreRows
  <2>2. \A k \in 1 .. Len(roots[t]) :
          /\ RootRow(roots[t][k], t)
          /\ \A j \in 1 .. k - 1 : roots[t][j].event < roots[t][k].event
    BY DEF RootRows, RootsAreRows
  <2>3. /\ leaves[t] \in Seq(Leaf) /\ tree[t] \in Seq(Leaf)
        /\ Len(leaves[t]) \in Nat /\ Len(tree[t]) \in Nat
    BY LenProperties DEF Shape, TypeOK
  <2>4. ASSUME InOrder PROVE IsPrefix(LatestRoot(t), leaves[t])
    <3>1. CASE roots[t] = << >>
      <4>1. LatestRoot(t) = tree[t]
        BY <3>1 DEF LatestRoot
      <4>2. tree[t] = << >> \/ tree[t] = leaves[t]
        BY <2>4 DEF RootRows, DownIsEmpty, EmptyTrees, InOrder, Agrees, MemoryInStep
      <4>3. Len(tree[t]) <= Len(leaves[t]) /\ \A p \in 1 .. Len(tree[t]) : tree[t][p] = leaves[t][p]
        BY <2>3, <4>2
      <4> QED BY <2>1, <2>3, <3>1, <4>1, <4>3, PrefixIntro
    <3>2. CASE roots[t] # << >>
      <4>1. PICK k \in 1 .. Len(roots[t]) : k = Len(roots[t])
        BY <2>1, <3>2, EmptySeq
      <4>2. PICK e \in 1 .. Len(chain) :
               /\ e = roots[t][k].event
               /\ <<e, "roots">> \in rows
               /\ TreeOf(chain[e].topic) = t
               /\ roots[t][k].root = chain[e].root
        BY <2>2, <4>1 DEF RootRow
      <4>3. LatestRoot(t) = chain[e].root
        BY <3>2, <4>1, <4>2 DEF LatestRoot, Last
      <4>4. RowClosed(e, 1)
        <5>1. <<e, Tables[1]>> \in rows
          BY <4>2, TablesAre
        <5>2. \A q \in 1 .. 6 : <<e, Tables[q]>> \in rows => RowClosed(e, q)
          BY DEF Whole, RowsClosed
        <5> QED BY <5>1, <5>2
      <4>5. Offset(e + 1, t) <= Len(leaves[t])
        BY <2>4, <4>4 DEF RowClosed
      <4>6. EventPlaced(e)
        BY DEF LogIsChain
      <4>7. Len(chain[e].root) = Offset(e + 1, t) /\ \A p \in 1 .. Len(chain[e].root) : chain[e].root[p] = log[t][p]
        BY <4>2, <4>6 DEF EventPlaced
      <4>8. chain[e].root \in Seq(Leaf) /\ Len(chain[e].root) \in Nat
        <5>1. chain[e] \in EventRecord
          BY ElementOfSeq DEF Shape, TypeOK
        <5> QED BY <5>1, LenProperties DEF EventRecord
      <4>9. \A p \in 1 .. Len(chain[e].root) : chain[e].root[p] = leaves[t][p]
        <5> TAKE p \in 1 .. Len(chain[e].root)
        <5>1. p \in 1 .. Len(leaves[t])
          BY <2>3, <4>5, <4>7, <4>8
        <5> QED BY <2>4, <4>7, <5>1 DEF Agrees, LeavesFollow
      <4>10. IsPrefix(chain[e].root, leaves[t])
        BY <2>3, <4>5, <4>7, <4>8, <4>9, PrefixIntro
      <4> QED BY <4>3, <4>10
    <3> QED BY <3>1, <3>2
  <2>5. \A i \in DOMAIN roots[t] :
          /\ roots[t][i].root = chain[roots[t][i].event].root
          /\ InOrder => roots[t][i].count = Len(roots[t][i].root)
          /\ \A j \in 1 .. i - 1 : roots[t][j].event < roots[t][i].event
    BY <2>1, <2>2 DEF RootRow
  <2> QED BY <2>5, <2>4
<1> QED BY <1>1, RootRowsHold, PTL

----------------------------------------------------------------------------
(* What the API answers.                                                    *)

PathRecord == [index : Nat, cm : Leaf, tree : Seq(Leaf)]

ReqRecord == [state : {"none", "open", "answered"}, asked : PathRequests \cup {{}},
              anchor : Seq(Leaf), count : Nat, got : Seq(PathRecord)]

Begins(s, t) == Len(s) <= Len(t) /\ \A p \in 1 .. Len(s) : s[p] = t[p]

ServedPath(g, r, whole) ==
  /\ Begins(g.tree, whole[r.asked.tree])
  /\ g.cm = g.tree[g.index + 1]
  /\ Begins(r.anchor, g.tree)
  /\ ~r.asked.batch => r.anchor = g.tree

\* An open request still has an index to look up, and the tree in memory has grown
\* through its anchor.
OpenRequest ==
  /\ phase # "down"
  /\ Len(req.got) < Len(req.asked.indices)
  /\ \A i \in 1 .. Len(req.asked.indices) : req.asked.indices[i] < Len(tree[req.asked.tree])
  /\ Begins(req.anchor, tree[req.asked.tree])

Answers ==
  /\ req \in ReqRecord
  /\ req.state = "none" => req.got = << >>
  /\ req.state # "none" => req.asked \in PathRequests
  /\ req.state = "open" => OpenRequest
  /\ \A i \in 1 .. Len(req.got) : ServedPath(req.got[i], req, log)

AnswersHold == InOrder => Answers

LEMMA BeginsTwice ==
  ASSUME NEW s \in Seq(Leaf), NEW t \in Seq(Leaf), NEW u \in Seq(Leaf), Begins(s, t), Begins(t, u)
  PROVE  Begins(s, u)
<1>1. Len(s) \in Nat /\ Len(t) \in Nat /\ Len(u) \in Nat
  BY LenProperties
<1>2. \A p \in 1 .. Len(s) : p \in 1 .. Len(t)
  BY <1>1 DEF Begins
<1> QED BY <1>1, <1>2 DEF Begins

\* Each field a lookup changes.
LEMMA WithGot ==
  ASSUME NEW r \in ReqRecord, NEW g \in Seq(PathRecord), NEW k, k = [r EXCEPT !.got = g]
  PROVE  k \in ReqRecord /\ k.got = g /\ k.asked = r.asked
<1>1. k \in ReqRecord
  BY DEF ReqRecord
<1> QED BY <1>1 DEF ReqRecord

LEMMA WithAnchor ==
  ASSUME NEW r \in ReqRecord, NEW a \in Seq(Leaf), NEW k, k = [r EXCEPT !.anchor = a]
  PROVE  k \in ReqRecord /\ k.got = r.got /\ k.asked = r.asked /\ k.anchor = a
<1>1. k \in ReqRecord
  BY DEF ReqRecord
<1> QED BY <1>1 DEF ReqRecord

LEMMA WithState ==
  ASSUME NEW r \in ReqRecord, NEW s \in {"none", "open", "answered"}, NEW k, k = [r EXCEPT !.state = s]
  PROVE  /\ k \in ReqRecord /\ k.got = r.got /\ k.asked = r.asked /\ k.anchor = r.anchor
         /\ k.state = s
<1>1. k \in ReqRecord
  BY DEF ReqRecord
<1> QED BY <1>1 DEF ReqRecord

\* In order the trees in memory only grow at their ends, and so do the
\* logs.
LEMMA TreesGrow ==
  ASSUME Shape, Agrees, [Next]_vars, Shape', Agrees', InOrder', phase # "down", phase' # "down"
  PROVE  \A u \in Trees : Begins(tree[u], tree'[u]) /\ Begins(log[u], log'[u])
<1>1. InOrder
  BY InOrderBefore
<1>2. tree = leaves /\ tree' = leaves'
  BY <1>1 DEF InOrder, Agrees, MemoryInStep
<1>3. PICK n \in Nat : n = Len(chain)
  BY LenProperties DEF Shape, TypeOK
<1> TAKE u \in Trees
<1>4. Len(log[u]) <= Len(log'[u]) /\ \A p \in 1 .. Len(log[u]) : log'[u][p] = log[u][p]
  BY <1>3, PastStays
<1>5. Len(leaves[u]) <= Len(leaves'[u])
  BY LeavesGrow
<1>6. /\ Len(leaves[u]) \in Nat /\ Len(leaves'[u]) \in Nat /\ Len(log[u]) \in Nat
  BY LenProperties DEF Shape, TypeOK
<1>7. /\ Len(leaves[u]) <= Len(log[u])
      /\ \A p \in 1 .. Len(leaves[u]) : leaves[u][p] = log[u][p]
      /\ \A p \in 1 .. Len(leaves'[u]) : leaves'[u][p] = log'[u][p]
  BY <1>1 DEF Agrees, LeavesFollow
<1>8. \A p \in 1 .. Len(leaves[u]) : leaves'[u][p] = leaves[u][p]
  <2> TAKE p \in 1 .. Len(leaves[u])
  <2>1. p \in 1 .. Len(leaves'[u]) /\ p \in 1 .. Len(log[u])
    BY <1>5, <1>6, <1>7
  <2> QED BY <1>4, <1>7, <2>1
<1> QED BY <1>2, <1>4, <1>5, <1>8 DEF Begins

LEMMA AskedIsRequest ==
  ASSUME NEW r \in PathRequests
  PROVE  /\ r.tree \in Trees /\ r.indices \in Seq(Nat) /\ r.batch \in BOOLEAN
         /\ Len(r.indices) \in Nat \ {0} /\ DOMAIN r.indices = 1 .. Len(r.indices)
         /\ ~r.batch => Len(r.indices) = 1
<1>1. r \in Request /\ r.indices # << >> /\ (r.batch \/ Len(r.indices) = 1)
  BY IndexerAssumption
<1>2. r.indices \in Seq(Nat) /\ r.tree \in Trees /\ r.batch \in BOOLEAN
  BY <1>1 DEF Request
<1>3. Len(r.indices) \in Nat /\ DOMAIN r.indices = 1 .. Len(r.indices) /\ Len(r.indices) # 0
  BY <1>1, <1>2, LenProperties, EmptySeq
<1> QED BY <1>1, <1>2, <1>3

\* What was served stays true while the log grows.
LEMMA KeptAnswers ==
  ASSUME Shape, Agrees, Answers, [Next]_vars, Shape', Agrees', InOrder', req' = req,
         phase' = "down" => phase = "down"
  PROVE  Answers'
<1>1. PICK n \in Nat : n = Len(chain)
  BY LenProperties DEF Shape, TypeOK
<1>2. \A u \in Trees : /\ Begins(log[u], log'[u])
                       /\ log[u] \in Seq(Leaf) /\ log'[u] \in Seq(Leaf)
                       /\ tree[u] \in Seq(Leaf) /\ tree'[u] \in Seq(Leaf)
  BY <1>1, PastStays DEF Begins, Shape, TypeOK
<1>3. req \in ReqRecord /\ req.got \in Seq(PathRecord) /\ req.anchor \in Seq(Leaf) /\ Len(req.got) \in Nat
  BY LenProperties DEF Answers, ReqRecord
<1>4. ASSUME NEW i \in 1 .. Len(req.got) PROVE ServedPath(req.got[i], req, log')
  <2>1. ServedPath(req.got[i], req, log) /\ req.asked \in PathRequests
    <3>1. req.got # << >>
      BY <1>3, LenProperties
    <3> QED BY <3>1 DEF Answers
  <2>2. req.asked.tree \in Trees
    BY <2>1, AskedIsRequest
  <2>3. req.got[i] \in PathRecord
    BY <1>3, ElementOfSeq
  <2>4. req.got[i].tree \in Seq(Leaf)
    BY <2>3 DEF PathRecord
  <2>5. Begins(req.got[i].tree, log'[req.asked.tree])
    BY <1>2, <2>1, <2>2, <2>4, BeginsTwice DEF ServedPath
  <2> QED BY <2>1, <2>5 DEF ServedPath
<1>5. ASSUME req.state = "open" PROVE OpenRequest'
  <2>1. OpenRequest /\ req.asked \in PathRequests /\ phase' # "down"
    BY <1>5 DEF Answers, OpenRequest
  <2>2. PICK u \in Trees : u = req.asked.tree
    BY <2>1, AskedIsRequest
  <2>3. Begins(tree[u], tree'[u])
    BY <2>1, TreesGrow DEF OpenRequest
  <2>4. Len(tree[u]) \in Nat /\ Len(tree'[u]) \in Nat /\ Len(tree[u]) <= Len(tree'[u])
    BY <1>2, <2>3, LenProperties DEF Begins
  <2>5. Begins(req.anchor, tree'[u])
    BY <1>2, <1>3, <2>1, <2>2, <2>3, BeginsTwice DEF OpenRequest
  <2>6. \A i \in 1 .. Len(req.asked.indices) : req.asked.indices[i] < Len(tree'[u])
    <3> TAKE i \in 1 .. Len(req.asked.indices)
    <3>1. req.asked.indices[i] < Len(tree[u])
      BY <2>1, <2>2 DEF OpenRequest
    <3>2. req.asked.indices[i] \in Nat
      BY <2>1, AskedIsRequest, ElementOfSeq
    <3> QED BY <2>4, <3>1, <3>2
  <2> QED BY <2>1, <2>2, <2>5, <2>6 DEF OpenRequest
<1>6. /\ req' \in ReqRecord
      /\ req'.state = "none" => req'.got = << >>
      /\ req'.state # "none" => req'.asked \in PathRequests
  BY DEF Answers
<1>7. \A i \in 1 .. Len(req'.got) : ServedPath(req'.got[i], req', log')
  BY <1>4
<1> QED BY <1>5, <1>6, <1>7 DEF Answers, ReqRecord, PathRecord, Leaf

LEMMA AskedAnswers ==
  ASSUME Shape, NEW r \in PathRequests, AskPaths(r)
  PROVE  Answers'
<1>1. /\ r.tree \in Trees /\ Len(r.indices) \in Nat \ {0} /\ DOMAIN r.indices = 1 .. Len(r.indices)
  BY AskedIsRequest
<1>2. tree[r.tree] \in Seq(Leaf) /\ Len(tree[r.tree]) \in Nat
  BY <1>1, LenProperties DEF Shape, TypeOK
<1>3. /\ req' = [state |-> "open", asked |-> r, anchor |-> tree[r.tree],
                 count |-> Len(tree[r.tree]), got |-> << >>]
      /\ tree' = tree /\ phase' = phase /\ phase # "down"
      /\ \A i \in 1 .. Len(r.indices) : r.indices[i] < Len(tree[r.tree])
  BY <1>1 DEF AskPaths
<1>4. << >> \in Seq(PathRecord) /\ Len(<< >>) = 0
  OBVIOUS
<1>5. req' \in ReqRecord
  BY <1>2, <1>3, <1>4 DEF ReqRecord
<1>6. req'.state = "open" /\ req'.asked = r /\ req'.anchor = tree[r.tree] /\ req'.got = << >>
  BY <1>3
<1>7. Begins(tree[r.tree], tree[r.tree])
  BY <1>2 DEF Begins
<1>8. OpenRequest'
  BY <1>1, <1>3, <1>4, <1>6, <1>7 DEF OpenRequest
<1> QED BY <1>4, <1>5, <1>6, <1>8 DEF Answers, ReqRecord, PathRecord, Leaf

LEMMA LookUpAnswers ==
  ASSUME Shape, Agrees, Answers, InOrder, LookUpPath
  PROVE  Answers'
<1>1. /\ req \in ReqRecord /\ req.state = "open" /\ req.asked \in PathRequests /\ OpenRequest
      /\ \A i \in 1 .. Len(req.got) : ServedPath(req.got[i], req, log)
  BY DEF Answers, LookUpPath
<1>2. PICK t \in Trees : t = req.asked.tree
  BY <1>1, AskedIsRequest
<1>3. /\ req.got \in Seq(PathRecord) /\ Len(req.got) \in Nat /\ req.anchor \in Seq(Leaf)
  BY <1>1, LenProperties DEF ReqRecord
<1>4. /\ tree[t] = leaves[t] /\ tree[t] \in Seq(Leaf) /\ Len(tree[t]) \in Nat
      /\ Begins(tree[t], log[t])
  BY <1>1, <1>2, LenProperties DEF OpenRequest, InOrder, Agrees, MemoryInStep, LeavesFollow, Begins, Shape, TypeOK
<1>5. /\ Len(req.asked.indices) \in Nat \ {0} /\ req.asked.indices \in Seq(Nat)
      /\ Len(req.got) + 1 \in 1 .. Len(req.asked.indices)
  BY <1>1, <1>3, AskedIsRequest DEF OpenRequest
<1>21. ~req.asked.batch => Len(req.asked.indices) = 1
  BY <1>1, AskedIsRequest
<1>6. PICK index \in Nat : index = req.asked.indices[Len(req.got) + 1] /\ index < Len(tree[t])
  BY <1>1, <1>2, <1>5, ElementOfSeq DEF OpenRequest
<1>7. tree[t][index + 1] \in Leaf
  BY <1>4, <1>6, ElementOfSeq
<1>8. PICK g \in PathRecord : /\ g = [index |-> index, cm |-> leaves[t][index + 1], tree |-> tree[t]]
                              /\ g.index = index /\ g.cm = tree[t][index + 1] /\ g.tree = tree[t]
  <2> DEFINE new == [index |-> index, cm |-> leaves[t][index + 1], tree |-> tree[t]]
  <2>1. new \in PathRecord
    BY <1>4, <1>7 DEF PathRecord
  <2>2. new.index = index /\ new.cm = tree[t][index + 1] /\ new.tree = tree[t]
    BY <1>4
  <2> QED BY <2>1, <2>2
<1>9. PICK got \in Seq(PathRecord) : got = Append(req.got, g)
  BY <1>3, AppendProperties
<1>10. /\ Len(got) = Len(req.got) + 1
       /\ \A i \in 1 .. Len(req.got) : got[i] = req.got[i]
       /\ got[Len(req.got) + 1] = g
  BY <1>3, <1>9, AppendProperties
<1>11. PICK a \in Seq(Leaf) : a = IF req.asked.batch THEN req.anchor ELSE tree[t]
  BY <1>3, <1>4
<1>12. PICK s \in {"none", "open", "answered"} :
         s = IF Len(got) = Len(req.asked.indices) THEN "answered" ELSE "open"
  OBVIOUS
<1>13. req' = [req EXCEPT !.got = got, !.anchor = a, !.state = s]
  BY <1>1, <1>2, <1>6, <1>8, <1>9, <1>11, <1>12 DEF LookUpPath, AnchorFor
<1>14. /\ req' \in ReqRecord /\ req'.got = got /\ req'.anchor = a /\ req'.state = s
       /\ req'.asked = req.asked
  <2> DEFINE i == [req EXCEPT !.got = got]
             h == [i EXCEPT !.anchor = a]
  <2>1. req' = [h EXCEPT !.state = s]
    BY <1>13
  <2>2. h = [i EXCEPT !.anchor = a]
    OBVIOUS
  <2> HIDE DEF h
  <2>3. i = [req EXCEPT !.got = got]
    OBVIOUS
  <2> HIDE DEF i
  <2>4. i \in ReqRecord /\ i.got = got /\ i.asked = req.asked
    BY <1>1, <2>3, WithGot
  <2>5. h \in ReqRecord /\ h.got = i.got /\ h.asked = i.asked /\ h.anchor = a
    BY <2>2, <2>4, WithAnchor
  <2>6. req' \in ReqRecord /\ req'.got = h.got /\ req'.asked = h.asked /\ req'.anchor = h.anchor /\ req'.state = s
    BY <2>1, <2>5, WithState
  <2> QED BY <2>4, <2>5, <2>6
<1>15. log' = log /\ tree' = tree /\ phase' = phase
  BY DEF LookUpPath
<1>16. Begins(a, tree[t])
  <2>1. CASE req.asked.batch
    BY <1>1, <1>2, <1>11, <2>1 DEF OpenRequest
  <2>2. CASE ~req.asked.batch
    BY <1>4, <1>11, <2>2 DEF Begins
  <2> QED BY <2>1, <2>2
<1>17. ASSUME NEW i \in 1 .. Len(got) PROVE ServedPath(got[i], req', log')
  <2>1. CASE i = Len(req.got) + 1
    <3>1. got[i] = g
      BY <1>10, <2>1
    <3>2. ~req.asked.batch => a = tree[t]
      BY <1>11
    <3> QED BY <1>2, <1>4, <1>8, <1>14, <1>15, <1>16, <3>1, <3>2 DEF ServedPath
  <2>2. CASE i # Len(req.got) + 1
    <3>1. i \in 1 .. Len(req.got) /\ got[i] = req.got[i]
      <4>1. PICK m \in Nat : m = Len(req.got)
        BY <1>3
      <4>2. i \in 1 .. m
        BY <1>10, <2>2, <4>1
      <4> QED BY <1>10, <4>1, <4>2
    <3>2. req.asked.batch
      <4>1. Len(req.asked.indices) # 1
        <5>1. PICK m \in Nat, n \in Nat : m = Len(req.got) /\ n = Len(req.asked.indices)
          BY <1>3, <1>5
        <5>2. i \in 1 .. m /\ m + 1 \in 1 .. n
          BY <1>5, <3>1, <5>1
        <5>3. n # 1
          BY <5>2
        <5> QED BY <5>1, <5>3
      <4> QED BY <1>21, <4>1
    <3>3. a = req.anchor
      BY <1>11, <3>2
    <3> QED BY <1>1, <1>14, <1>15, <3>1, <3>2, <3>3 DEF ServedPath
  <2> QED BY <2>1, <2>2
<1>18. ASSUME s = "open" PROVE OpenRequest'
  <2>1. Len(got) < Len(req.asked.indices)
    BY <1>3, <1>5, <1>10, <1>12, <1>18
  <2> QED BY <1>1, <1>2, <1>14, <1>15, <1>16, <2>1 DEF OpenRequest
<1>19. s # "none"
  BY <1>12
<1>20. \A i \in 1 .. Len(req'.got) : ServedPath(req'.got[i], req', log')
  BY <1>14, <1>17
<1> QED BY <1>1, <1>14, <1>18, <1>19, <1>20 DEF Answers, ReqRecord, PathRecord, Leaf

LEMMA NoAnswers == \A r : r = NoRequest => r \in ReqRecord /\ r.state = "none" /\ r.got = << >>
<1>1. << >> \in Seq(Leaf) /\ << >> \in Seq(PathRecord)
  OBVIOUS
<1> QED BY <1>1 DEF NoRequest, ReqRecord

LEMMA NextAnswers ==
  ASSUME Shape, Agrees, AnswersHold, [Next]_vars, Shape', Agrees'
  PROVE  AnswersHold'
<1> SUFFICES ASSUME InOrder' PROVE Answers'
  BY DEF AnswersHold, Answers, OpenRequest, ReqRecord, PathRecord, Leaf
<1>0. InOrder
  BY InOrderBefore
<1>1. InOrder /\ Answers
  BY <1>0 DEF AnswersHold
<1>2. CASE Crash
  <2>1. req' = NoRequest
    BY <1>2 DEF Crash
  <2>2. req' \in ReqRecord /\ req'.state = "none" /\ req'.got = << >> /\ Len(<< >>) = 0
    BY <2>1, NoAnswers
  <2> QED BY <2>2 DEF Answers, ReqRecord, PathRecord, Leaf
<1>3. ASSUME NEW r \in PathRequests, AskPaths(r) PROVE Answers'
  BY <1>3, AskedAnswers
<1>4. CASE LookUpPath
  BY <1>1, <1>4, LookUpAnswers
<1>5. CASE req' = req /\ (phase' = "down" => phase = "down")
  BY <1>1, <1>5, KeptAnswers
<1>6. \/ Crash
      \/ \E r \in PathRequests : AskPaths(r)
      \/ LookUpPath
      \/ req' = req /\ (phase' = "down" => phase = "down")
  BY DEF Next, vars, Emit, Boot, FetchPage, CaughtUp, ApplyLeaf, ApplyTable, Gate, Halt, GiveUp, EndPage,
         CallFails, LeafReplyLost
<1> QED BY <1>2, <1>3, <1>4, <1>5, <1>6

\* As long as no reply was lost and no commitment repeated, a served path belongs to
\* the commitment served with it, in a tree the contract has or grows through, and a
\* single path to its anchor.
THEOREM ServedPathsVerify == Spec => []PathsVerify
<1>1. Init => AnswersHold
  <2> SUFFICES ASSUME Init PROVE Answers
    BY DEF AnswersHold
  <2>1. req \in ReqRecord /\ req.state = "none" /\ req.got = << >> /\ Len(<< >>) = 0
    BY NoAnswers DEF Init
  <2> QED BY <2>1 DEF Answers
<1>2. Shape /\ Agrees /\ AnswersHold /\ [Next]_vars /\ Shape' /\ Agrees' => AnswersHold'
  BY NextAnswers
<1>3. Shape /\ AnswersHold => PathsVerify
  <2> SUFFICES ASSUME Shape, Answers, NEW i \in DOMAIN req.got
               PROVE  /\ IsPrefix(req.got[i].tree, log[req.asked.tree])
                      /\ req.got[i].cm = req.got[i].tree[req.got[i].index + 1]
                      /\ IsPrefix(req.anchor, req.got[i].tree)
                      /\ ~req.asked.batch => req.anchor = req.got[i].tree
    BY DEF AnswersHold, PathsVerify
  <2>1. req.got \in Seq(PathRecord) /\ req.anchor \in Seq(Leaf)
    BY DEF Answers, ReqRecord
  <2>2. i \in 1 .. Len(req.got) /\ Len(req.got) \in Nat
    BY <2>1, LenProperties
  <2>3. ServedPath(req.got[i], req, log)
    BY <2>2 DEF Answers
  <2>4. req.got # << >>
    BY <2>2
  <2>5. req.asked \in PathRequests
    BY <2>4 DEF Answers
  <2>6. log[req.asked.tree] \in Seq(Leaf)
    BY <2>5, AskedIsRequest DEF Shape, TypeOK
  <2>7. req.got[i] \in PathRecord
    BY <2>1, <2>2, ElementOfSeq
  <2>8. req.got[i].tree \in Seq(Leaf)
    BY <2>7 DEF PathRecord
  <2>9. IsPrefix(req.got[i].tree, log[req.asked.tree]) /\ IsPrefix(req.anchor, req.got[i].tree)
    BY <2>1, <2>3, <2>6, <2>8, PrefixIntro DEF ServedPath, Begins
  <2> QED BY <2>3, <2>9 DEF ServedPath
<1> QED BY <1>1, <1>2, <1>3, AgreesHolds, PTL DEF Spec

----------------------------------------------------------------------------
(* The self-check halts only a drifted memory, as long as no commitment is   *)
(* repeated.                                                                *)

\* The tree in memory is as far as it goes the contract's.
Ordered(u) == Begins(tree[u], log[u])

MemoryInLog ==
  \A u \in Trees : /\ ToSet(tree[u]) \subseteq ToSet(log[u])
                   /\ Len(tree[u]) <= Len(leaves[u])

\* A table in the wrong order shows in memory, from the boot on.
TableInOrder == phase # "down" => \A u \in Trees : Ordered(u) => Begins(leaves[u], log[u])

\* The last leaf in memory is the one this event added last; without drift memory
\* and table then agree.
AddedLast ==
  Applying /\ job.added =>
    /\ Len(tree[EventTree]) > 0
    /\ \E k \in 1 .. Len(Event.leaves) : tree[EventTree][Len(tree[EventTree])] = Event.leaves[k]
    /\ Ordered(EventTree) => tree[EventTree] = leaves[EventTree]

HaltedDrifted == halted => phase # "down" /\ ~job.busy /\ \E u \in Trees : ~Ordered(u)

Drift == MemoryInLog /\ TableInOrder /\ AddedLast /\ HaltedDrifted

LEMMA TableTypes ==
  ASSUME Shape, NEW u \in Trees
  PROVE  /\ tree[u] \in Seq(Leaf) /\ leaves[u] \in Seq(Leaf) /\ log[u] \in Seq(Leaf)
         /\ Len(tree[u]) \in Nat /\ Len(leaves[u]) \in Nat /\ Len(log[u]) \in Nat
         /\ DOMAIN tree[u] = 1 .. Len(tree[u])
         /\ DOMAIN leaves[u] = 1 .. Len(leaves[u])
         /\ DOMAIN log[u] = 1 .. Len(log[u])
BY LenProperties DEF Shape, TypeOK

\* A commitment inserted once has one place in the logs.
LEMMA OnlyPlace ==
  ASSUME Shape, LogIsChain, Distinct,
         NEW i \in 1 .. Len(chain), NEW k \in 1 .. Len(chain[i].leaves),
         NEW u \in Trees, NEW r \in 1 .. Len(log[u]), log[u][r] = chain[i].leaves[k]
  PROVE  u = TreeOf(chain[i].topic) /\ r = Offset(i, u) + k
<1>1. PICK t \in Trees : t = TreeOf(chain[i].topic)
  BY EventAt
<1>2. PICK q : q = Offset(i, t) + k /\ q \in 1 .. Len(log[t]) /\ log[t][q] = chain[i].leaves[k]
  <2>1. i \in i .. Len(chain)
    BY LenProperties DEF Shape, TypeOK
  <2> QED BY <1>1, <2>1, LeafBefore
<1>3. q \in DOMAIN log[t] /\ r \in DOMAIN log[u]
  BY <1>2, TableTypes
<1>4. u = t /\ r = q
  BY <1>2, <1>3 DEF Distinct
<1> QED BY <1>1, <1>2, <1>4

LEMMA StoredIsLogged ==
  ASSUME Shape, LogIsChain, LeavesClosed, NEW u \in Trees
  PROVE  ToSet(leaves[u]) \subseteq ToSet(log[u])
<1> SUFFICES ASSUME NEW leaf \in ToSet(leaves[u]) PROVE leaf \in ToSet(log[u])
  OBVIOUS
<1>1. PICK i \in 1 .. Len(chain) :
        u = TreeOf(chain[i].topic) /\ \E k \in 1 .. Len(chain[i].leaves) : leaf = chain[i].leaves[k]
  BY DEF LeavesClosed, LeafClosed
<1>2. PICK k \in 1 .. Len(chain[i].leaves) : leaf = chain[i].leaves[k]
  BY <1>1
<1> QED BY <1>1, <1>2, LeafInLog

\* In a table in order a stored leaf has its own place.
LEMMA StoredInPlace ==
  ASSUME Shape, LogIsChain, LeavesClosed, Distinct,
         NEW i \in 1 .. Len(chain), NEW k \in 1 .. Len(chain[i].leaves),
         NEW t \in Trees, t = TreeOf(chain[i].topic), Begins(leaves[t], log[t]),
         LeafExists(chain[i].leaves[k])
  PROVE  Offset(i, t) + k \in 1 .. Len(leaves[t])
<1> DEFINE cm == chain[i].leaves[k]
<1>1. PICK u \in Trees : \E r \in DOMAIN leaves[u] : leaves[u][r] = cm
  BY DEF LeafExists
<1>2. PICK r \in DOMAIN leaves[u] : leaves[u][r] = cm
  BY <1>1
<1>3. cm \in ToSet(log[u])
  <2>1. cm \in ToSet(leaves[u])
    BY <1>2 DEF ToSet
  <2> QED BY <2>1, StoredIsLogged
<1>4. PICK p \in 1 .. Len(log[u]) : log[u][p] = cm
  BY <1>3, TableTypes DEF ToSet
<1>5. u = t
  BY <1>4, OnlyPlace
<1>6. r \in 1 .. Len(leaves[t]) /\ r \in 1 .. Len(log[t]) /\ log[t][r] = cm
  <2>1. r \in 1 .. Len(leaves[t]) /\ leaves[t][r] = cm
    BY <1>2, <1>5, TableTypes
  <2>2. Len(leaves[t]) <= Len(log[t]) /\ log[t][r] = leaves[t][r]
    BY <2>1 DEF Begins
  <2>3. Len(leaves[t]) \in Nat /\ Len(log[t]) \in Nat
    BY TableTypes
  <2> QED BY <2>1, <2>2, <2>3
<1>7. r = Offset(i, t) + k
  BY <1>6, OnlyPlace
<1> QED BY <1>6, <1>7

\* Without drift a leaf that is not stored yet is added to memory and table alike.
LEMMA AddedToBoth ==
  ASSUME Shape, NEW t \in Trees, NEW cm \in Leaf, ~LeafExists(cm),
         Len(tree[t]) <= Len(leaves[t]), Begins(leaves[t], log[t]), Ordered(t),
         Begins(Append(tree[t], cm), log[t])
  PROVE  tree[t] = leaves[t]
<1>0. PICK m \in Nat, n \in Nat, z \in Nat :
         m = Len(tree[t]) /\ n = Len(leaves[t]) /\ z = Len(log[t]) /\ m <= n
  BY TableTypes
<1>1. Len(Append(tree[t], cm)) = m + 1 /\ Append(tree[t], cm)[m + 1] = cm
  BY <1>0, TableTypes, AppendProperties
<1>2. m + 1 <= z /\ log[t][m + 1] = cm
  BY <1>0, <1>1 DEF Begins
<1>3. ASSUME m < n PROVE FALSE
  <2>1. leaves[t][m + 1] = cm
    BY <1>0, <1>2, <1>3 DEF Begins
  <2>2. m + 1 \in DOMAIN leaves[t]
    BY <1>0, <1>3, TableTypes
  <2> QED BY <2>1, <2>2 DEF LeafExists
<1>4. m = n
  BY <1>0, <1>3
<1>5. \A p \in 1 .. m : tree[t][p] = log[t][p] /\ leaves[t][p] = log[t][p]
  BY <1>0, <1>4 DEF Ordered, Begins
<1>6. tree[t] \in Seq(Leaf) /\ leaves[t] \in Seq(Leaf)
  BY TableTypes
<1>7. Len(tree[t]) = Len(leaves[t]) /\ \A p \in 1 .. Len(tree[t]) : tree[t][p] = leaves[t][p]
  BY <1>0, <1>4, <1>5
<1> QED BY <1>6, <1>7, SeqEqual

\* Without drift a leaf that is stored while memory and table agree is the next one
\* of the log.
LEMMA LostIsNext ==
  ASSUME Shape, LogIsChain, Whole, Distinct, AtLeaf, ~LeafExists(Event.leaves[job.step]),
         tree[EventTree] = leaves[EventTree], Begins(leaves[EventTree], log[EventTree])
  PROVE  /\ Len(leaves[EventTree]) + 1 <= Len(log[EventTree])
         /\ log[EventTree][Len(leaves[EventTree]) + 1] = Event.leaves[job.step]
<1> DEFINE t == EventTree
           cm == Event.leaves[job.step]
<1>1. /\ job.at \in 1 .. Len(chain) /\ Len(chain) \in Nat
      /\ t \in Trees
      /\ job.step \in 1 .. Len(Event.leaves)
      /\ Len(Event.leaves) \in Nat
  BY LeafAtHand, EventInChain, LenProperties DEF Shape, TypeOK, AtLeaf
<1>2. Done = job.step - 1
  BY <1>1 DEF Done
<1>3. ~Gap(t) /\ LeavesClosed
  BY DEF Gap, Whole
<1>4. /\ log[t][Offset(job.at, t) + job.step] = cm
      /\ Offset(job.at + 1, t) = Offset(job.at, t) + Len(Event.leaves)
      /\ Event = chain[job.at] /\ t = TreeOf(chain[job.at].topic)
  <2>1. EventPlaced(job.at)
    BY <1>1 DEF LogIsChain
  <2> QED BY <1>1, <2>1 DEF EventPlaced, Event, EventTree
<1>11. PICK n \in Nat, a \in Nat, s \in Nat, e \in Nat :
          /\ n = Len(chain) /\ a = job.at /\ s = job.step /\ e = Len(Event.leaves)
          /\ s \in 1 .. e /\ a \in 1 .. n
  BY <1>1
<1>12. PICK o \in Nat, m \in Nat, z \in Nat :
          o = Offset(job.at, t) /\ m = Len(leaves[t]) /\ z = Len(log[t])
  <2>1. Offset(job.at, t) \in Nat
    BY <1>1, OffsetType
  <2>2. Len(leaves[t]) \in Nat /\ Len(log[t]) \in Nat
    BY <1>1, TableTypes
  <2> QED BY <2>1, <2>2
<1>5. /\ n = Len(chain) /\ a = job.at /\ s = job.step /\ e = Len(Event.leaves)
      /\ s \in 1 .. e /\ a \in 1 .. n
      /\ o = Offset(job.at, t) /\ m = Len(leaves[t]) /\ z = Len(log[t])
      /\ {n, a, s, e, o, m, z} \subseteq Nat
  BY <1>11, <1>12
<1>13. s \in 1 .. e /\ a \in 1 .. n
  BY <1>11
<1>6. o + e <= z
  <2>1. a + 1 \in 1 .. n + 1 /\ a + 1 \in 1 .. a + 1
    BY <1>13
  <2> QED BY <1>1, <1>4, <1>5, <2>1 DEF LogIsChain
<1>7. ASSUME o + s <= m PROVE FALSE
  <2>1. o + s \in 1 .. m
    BY <1>13, <1>7
  <2>2. leaves[t][o + s] = cm
    BY <1>4, <1>5, <2>1 DEF Begins
  <2>3. o + s \in DOMAIN leaves[t]
    BY <1>1, <1>5, <2>1, TableTypes
  <2> QED BY <1>1, <2>2, <2>3 DEF LeafExists
<1>8. ASSUME m + 1 < o + s PROVE FALSE
  <2>1. m + 1 \in 1 .. z
    BY <1>13, <1>6, <1>8
  <2>2. LeafPlaced(t, m + 1)
    BY <1>1, <1>5, <2>1 DEF LogIsChain
  <2>3. PICK i \in 1 .. n, k \in Nat :
           /\ k \in 1 .. Len(chain[i].leaves)
           /\ t = TreeOf(chain[i].topic) /\ m + 1 = Offset(i, t) + k
    <3>1. PICK i \in 1 .. n : \E k \in 1 .. Len(chain[i].leaves) :
             t = TreeOf(chain[i].topic) /\ m + 1 = Offset(i, t) + k
      BY <1>5, <2>2 DEF LeafPlaced
    <3>2. Len(chain[i].leaves) \in Nat
      BY <1>5, EventAt
    <3> QED BY <3>1, <3>2
  <2>4. i <= a
    <3>1. ASSUME i > a PROVE FALSE
      <4>1. a + 1 \in 1 .. i /\ i \in 1 .. n + 1
        BY <1>5, <3>1
      <4>2. Offset(a + 1, t) <= Offset(i, t)
        BY <1>1, <1>5, <4>1 DEF LogIsChain
      <4>3. PICK w \in Nat : w = Offset(i, t)
        BY <1>1, <4>1, OffsetType
      <4>4. Offset(a + 1, t) = o + e
        BY <1>4, <1>5
      <4>5. o + e <= w /\ m + 1 = w + k
        BY <2>3, <4>2, <4>3, <4>4
      <4> QED BY <1>13, <1>8, <4>5
    <3> QED BY <1>5, <3>1
  <2>5. LeafExists(chain[i].leaves[k])
    <3>1. CASE i < a
      <4>1. i \in 1 .. job.at - 1
        BY <1>5, <3>1
      <4>2. EventStored(i)
        BY <4>1 DEF Whole, PastStored, AtLeaf, Applying
      <4> QED BY <2>3, <4>2 DEF EventStored, LeavesStored
    <3>2. CASE i = a
      <4>1. k \in 1 .. Done
        <5>1. /\ Offset(i, t) = o
              /\ Len(chain[i].leaves) = e
          BY <1>4, <1>5, <3>2
        <5>2. m + 1 = o + k /\ k \in 1 .. e
          BY <2>3, <5>1
        <5>3. k \in 1 .. s - 1
          BY <1>8, <1>13, <5>2
        <5> QED BY <1>2, <1>5, <5>3
      <4>2. \A l \in 1 .. Done : LeafExists(Event.leaves[l])
        BY <1>3 DEF Whole, JobStored, AtLeaf
      <4> QED BY <1>4, <1>5, <3>2, <4>1, <4>2
    <3> QED BY <1>5, <2>4, <3>1, <3>2
  <2>6. Offset(i, t) + k \in 1 .. Len(leaves[t])
    BY <1>1, <1>3, <1>5, <2>3, <2>5, StoredInPlace
  <2> QED BY <1>5, <2>3, <2>6
<1>9. m + 1 = o + s
  BY <1>13, <1>7, <1>8
<1>10. m + 1 <= z
  BY <1>13, <1>6, <1>9
<1> QED BY <1>4, <1>5, <1>9, <1>10

\* The self-check compares a memory that is in order with the very root it has.
LEMMA HaltSeesDrift ==
  ASSUME Shape, LogIsChain, Whole, Distinct, Drift, Halt
  PROVE  EventTree \in Trees /\ ~Ordered(EventTree)
<1> DEFINE t == EventTree
<1>1. /\ AtGate /\ Applying /\ AfterLeaves /\ job.added /\ ~RootMatches
  BY DEF Halt, AtGate, AfterLeaves, MustCheck
<1>2. /\ job.at \in 1 .. Len(chain) /\ Len(chain) \in Nat
      /\ t \in Trees /\ Len(Event.leaves) \in Nat /\ Event.root \in Seq(Leaf)
      /\ Event = chain[job.at] /\ t = TreeOf(chain[job.at].topic)
  BY <1>1, EventInChain, LenProperties DEF Shape, TypeOK, Event, EventTree, EventRecord
<1>3. SUFFICES ASSUME Ordered(t) PROVE FALSE
  BY <1>2
<1>4. /\ Len(tree[t]) > 0
      /\ \E k \in 1 .. Len(Event.leaves) : tree[t][Len(tree[t])] = Event.leaves[k]
      /\ tree[t] = leaves[t]
  BY <1>1, <1>3 DEF Drift, AddedLast
<1>5. ~Gap(t)
  BY <1>4 DEF Gap
<1>6. Done = Len(Event.leaves)
  BY <1>1 DEF Done, AfterLeaves
<1>7. Len(Event.leaves) > 0 /\ \A k \in 1 .. Len(Event.leaves) : LeafExists(Event.leaves[k])
  BY <1>1, <1>5, <1>6 DEF Whole, JobStored
<1>8. EventPlaced(job.at)
  BY <1>2 DEF LogIsChain
<1>9. /\ Offset(job.at + 1, t) = Offset(job.at, t) + Len(Event.leaves)
      /\ Len(Event.root) = Offset(job.at + 1, t)
      /\ \A p \in 1 .. Len(Event.root) : Event.root[p] = log[t][p]
  BY <1>2, <1>8 DEF EventPlaced
<1>10. PICK m \in Nat, z \in Nat, o \in Nat, e \in Nat :
          /\ m = Len(tree[t]) /\ z = Len(log[t]) /\ o = Offset(job.at, t) /\ e = Len(Event.leaves)
          /\ m > 0 /\ e > 0
  <2>1. Offset(job.at, t) \in Nat
    BY <1>2, OffsetType
  <2> QED BY <1>2, <1>4, <1>7, <2>1, TableTypes
\* The last leaf in memory is one of this event.
<1>11. m <= o + e
  <2>1. m <= z /\ \A p \in 1 .. m : tree[t][p] = log[t][p]
    BY <1>3, <1>10 DEF Ordered, Begins
  <2>2. m \in 1 .. Len(log[t])
    BY <1>10, <2>1
  <2>3. PICK k \in 1 .. Len(Event.leaves) : tree[t][m] = Event.leaves[k]
    BY <1>4, <1>10
  <2>4. log[t][m] = chain[job.at].leaves[k] /\ k \in 1 .. Len(chain[job.at].leaves)
    BY <1>2, <1>10, <2>1, <2>3
  <2>5. m = Offset(job.at, t) + k
    BY <1>2, <2>2, <2>4, OnlyPlace
  <2>6. k \in 1 .. e /\ m = o + k
    BY <1>10, <2>3, <2>5
  <2> QED BY <2>6
\* Its last leaf is stored, hence in memory.
<1>12. o + e <= m
  <2>1. Begins(leaves[t], log[t])
    BY <1>3, <1>4 DEF Ordered
  <2>2. e \in 1 .. Len(chain[job.at].leaves) /\ LeafExists(chain[job.at].leaves[e])
    BY <1>2, <1>7, <1>10
  <2>3. Offset(job.at, t) + e \in 1 .. Len(leaves[t])
    BY <1>2, <2>1, <2>2, StoredInPlace DEF Whole
  <2> QED BY <1>4, <1>10, <2>3
<1>13. Len(tree[t]) = Len(Event.root) /\ \A p \in 1 .. Len(tree[t]) : tree[t][p] = Event.root[p]
  <2>1. m = Len(Event.root)
    BY <1>9, <1>10, <1>11, <1>12
  <2> QED BY <1>3, <1>9, <1>10, <2>1 DEF Ordered, Begins
<1>14. tree[t] = Event.root
  BY <1>2, <1>13, TableTypes, SeqEqual
<1> QED BY <1>1, <1>14 DEF RootMatches

----------------------------------------------------------------------------
\* The contract's next event puts no tree in order that was not.
LEMMA EmitOrdered ==
  ASSUME Shape, MemoryInLog, NEW topic \in Topics, Emit(topic), Distinct', NEW u \in Trees
  PROVE  /\ ToSet(log[u]) \subseteq ToSet(log'[u])
         /\ Begins(tree[u], log'[u]) => Begins(tree[u], log[u])
         /\ Begins(leaves[u], log[u]) => Begins(leaves[u], log'[u])
<1>0. [Next]_vars /\ Shape'
  BY NextShape DEF Next
<1>1. PICK n \in Nat, m \in Nat, l \in Nat, c \in Nat :
         n = Len(chain) /\ m = Len(tree[u]) /\ l = Len(log[u]) /\ c = LeafCount(topic)
  BY TableTypes, LenProperties, EmitEffect DEF Shape, TypeOK
<1>2. /\ Len(log'[u]) = l + (IF u = TreeOf(topic) THEN c ELSE 0)
      /\ \A p \in 1 .. l : log'[u][p] = log[u][p]
  <2>1. /\ Len(log'[u]) = Len(log[u]) + (IF u = TreeOf(topic) THEN LeafCount(topic) ELSE 0)
        /\ \A p \in 1 .. Len(log[u]) : log'[u][p] = log[u][p]
    BY EmitEffect
  <2> QED BY <1>1, <2>1
<1>3. DOMAIN log'[u] = 1 .. Len(log'[u])
  BY <1>0, LenProperties DEF Shape, TypeOK
<1>4. ToSet(log[u]) \subseteq ToSet(log'[u])
  <2>1. \A p \in 1 .. l : p \in DOMAIN log'[u]
    BY <1>1, <1>2, <1>3
  <2> QED BY <1>1, <1>2, <2>1, TableTypes DEF ToSet
<1>5. ASSUME Begins(tree[u], log'[u]), m > l PROVE FALSE
  <2>1. l + 1 \in 1 .. m /\ tree[u][l + 1] = log'[u][l + 1] /\ m <= Len(log'[u])
    BY <1>1, <1>5 DEF Begins
  <2>2. tree[u][l + 1] \in ToSet(tree[u])
    BY <1>1, <2>1, TableTypes DEF ToSet
  <2>3. PICK p \in 1 .. l : log[u][p] = tree[u][l + 1]
    BY <1>1, <2>2, TableTypes DEF MemoryInLog, ToSet
  <2>4. log'[u][p] = log'[u][l + 1]
    BY <1>2, <2>1, <2>3
  <2>5. l + 1 \in DOMAIN log'[u] /\ p \in DOMAIN log'[u]
    <3>1. PICK z \in Nat : z = Len(log'[u])
      BY <1>0, LenProperties DEF Shape, TypeOK
    <3>2. m <= z /\ l + 1 \in 1 .. z /\ p \in 1 .. z
      BY <2>1, <2>3, <3>1
    <3> QED BY <1>3, <3>1, <3>2
  <2>6. p = l + 1
    BY <2>4, <2>5 DEF Distinct
  <2> QED BY <2>6
<1>6. ASSUME Begins(tree[u], log'[u]) PROVE Begins(tree[u], log[u])
  BY <1>1, <1>2, <1>5, <1>6 DEF Begins
<1>7. ASSUME Begins(leaves[u], log[u]) PROVE Begins(leaves[u], log'[u])
  <2>1. PICK q \in Nat : q = Len(leaves[u])
    BY TableTypes
  <2>2. q <= l /\ \A p \in 1 .. q : leaves[u][p] = log[u][p]
    BY <1>1, <1>7, <2>1 DEF Begins
  <2>3. l <= Len(log'[u])
    BY <1>1, <1>2
  <2>4. \A p \in 1 .. q : p \in 1 .. l
    BY <2>2
  <2>5. Len(log'[u]) \in Nat
    BY <1>0, LenProperties DEF Shape, TypeOK
  <2>6. q <= Len(log'[u]) /\ \A p \in 1 .. q : leaves[u][p] = log'[u][p]
    BY <1>2, <2>2, <2>3, <2>4, <2>5
  <2> QED BY <2>1, <2>6 DEF Begins
<1> QED BY <1>4, <1>6, <1>7

\* A step that leaves trees, table and log alone, adds nothing and halts nothing.
LEMMA KeptDrift ==
  ASSUME Shape, Drift, UNCHANGED <<tree, leaves, log>>,
         phase' # "down" => phase # "down",
         halted' => halted /\ phase' # "down" /\ ~job'.busy,
         Applying' /\ job'.added => Applying /\ job.added /\ job'.at = job.at /\ chain' = chain
  PROVE  Drift'
<1>1. \A u \in Trees : /\ Ordered(u)' <=> Ordered(u)
                       /\ tree'[u] = tree[u] /\ leaves'[u] = leaves[u] /\ log'[u] = log[u]
  BY DEF Ordered, Begins
<1>2. MemoryInLog'
  BY <1>1 DEF Drift, MemoryInLog
<1>3. TableInOrder'
  BY <1>1 DEF Drift, TableInOrder, Begins
<1>4. AddedLast'
  <2> SUFFICES ASSUME Applying', job'.added
               PROVE  /\ Len(tree'[EventTree']) > 0
                      /\ \E k \in 1 .. Len(Event'.leaves) : tree'[EventTree'][Len(tree'[EventTree'])] = Event'.leaves[k]
                      /\ Ordered(EventTree)' => tree'[EventTree'] = leaves'[EventTree']
    BY DEF AddedLast
  <2>1. Applying /\ job.added /\ job'.at = job.at /\ EventTree' = EventTree /\ Event' = Event
    BY DEF EventTree, Event
  <2>2. EventTree \in Trees
    BY <2>1, EventInChain
  <2>3. Ordered(EventTree)' <=> Ordered(EventTree)
    BY <2>1 DEF Ordered, Begins
  <2> QED BY <2>1, <2>2, <2>3 DEF Drift, AddedLast
<1>5. HaltedDrifted'
  BY <1>1 DEF Drift, HaltedDrifted
<1> QED BY <1>2, <1>3, <1>4, <1>5 DEF Drift

LEMMA EmitDrift ==
  ASSUME Shape, Drift, NEW topic \in Topics, Emit(topic), Distinct'
  PROVE  Drift'
<1>1. tree' = tree /\ leaves' = leaves /\ job' = job /\ phase' = phase /\ halted' = halted
  BY DEF Emit, dbVars
<1>2. \A u \in Trees : /\ ToSet(log[u]) \subseteq ToSet(log'[u])
                       /\ Ordered(u)' => Ordered(u)
                       /\ Begins(leaves[u], log[u]) => Begins(leaves'[u], log'[u])
  BY <1>1, EmitOrdered DEF Drift, Ordered
<1>3. MemoryInLog'
  BY <1>1, <1>2 DEF Drift, MemoryInLog
<1>4. TableInOrder'
  BY <1>1, <1>2 DEF Drift, TableInOrder
<1>5. ASSUME Applying' PROVE Applying /\ Event' = Event /\ EventTree' = EventTree /\ EventTree \in Trees
  <2>1. Applying
    BY <1>1, <1>5 DEF Applying
  <2>2. job.at \in 1 .. Len(chain) /\ EventTree \in Trees
    BY <2>1, EventInChain
  <2>3. chain'[job.at] = chain[job.at]
    BY <2>2, EmitEffect
  <2> QED BY <1>1, <2>1, <2>2, <2>3 DEF EventTree, Event
<1>6. AddedLast'
  <2> SUFFICES ASSUME Applying', job'.added
               PROVE  /\ Len(tree'[EventTree']) > 0
                      /\ \E k \in 1 .. Len(Event'.leaves) : tree'[EventTree'][Len(tree'[EventTree'])] = Event'.leaves[k]
                      /\ Ordered(EventTree)' => tree'[EventTree'] = leaves'[EventTree']
    BY DEF AddedLast
  <2>1. PICK t \in Trees : t = EventTree
    BY <1>5
  <2>2. Ordered(EventTree)' => Ordered(t)'
    BY <1>5, <2>1 DEF Ordered, Begins
  <2>3. Ordered(EventTree)' => Ordered(EventTree)
    BY <1>2, <2>1, <2>2
  <2> QED BY <1>1, <1>5, <2>3 DEF Drift, AddedLast
<1>7. HaltedDrifted'
  BY <1>1, <1>2 DEF Drift, HaltedDrifted
<1> QED BY <1>3, <1>4, <1>6, <1>7 DEF Drift

LEMMA BootDrift == Shape /\ LogIsChain /\ Whole /\ Drift /\ Boot => Drift'
<1> SUFFICES ASSUME Shape, LogIsChain, Whole, Drift, Boot PROVE Drift'
  OBVIOUS
<1>1. /\ phase = "down" /\ tree' = leaves /\ leaves' = leaves /\ log' = log
      /\ halted' = halted /\ job' = job
  BY DEF Boot, dbVars
<1>2. MemoryInLog'
  <2> SUFFICES ASSUME NEW u \in Trees
               PROVE  ToSet(leaves[u]) \subseteq ToSet(log[u]) /\ Len(leaves[u]) <= Len(leaves[u])
    BY <1>1 DEF MemoryInLog
  <2>1. Len(leaves[u]) \in Nat
    BY TableTypes
  <2>2. ToSet(leaves[u]) \subseteq ToSet(log[u])
    BY StoredIsLogged DEF Whole
  <2> QED BY <2>1, <2>2
<1>3. TableInOrder'
  BY <1>1 DEF TableInOrder, Ordered
<1>4. AddedLast'
  <2>1. ~job'.busy
    BY <1>1 DEF Shape, JobInRange
  <2> QED BY <2>1 DEF AddedLast, Applying
<1>5. HaltedDrifted'
  BY <1>1 DEF Drift, HaltedDrifted
<1> QED BY <1>2, <1>3, <1>4, <1>5 DEF Drift

LEMMA CrashDrift == Shape /\ Drift /\ Crash => Drift'
<1> SUFFICES ASSUME Shape, Drift, Crash PROVE Drift'
  OBVIOUS
<1>1. /\ phase' = "down" /\ tree' = EmptyTrees /\ leaves' = leaves
      /\ ~halted' /\ ~job'.busy
  BY DEF Crash, dbVars, Idle
<1>2. MemoryInLog'
  <2> SUFFICES ASSUME NEW u \in Trees
               PROVE  ToSet(tree'[u]) \subseteq ToSet(log'[u]) /\ Len(tree'[u]) <= Len(leaves'[u])
    BY DEF MemoryInLog
  <2>1. tree'[u] = << >>
    BY <1>1 DEF EmptyTrees
  <2>2. ToSet(<< >>) = {} /\ Len(<< >>) = 0
    BY DEF ToSet
  <2>3. Len(leaves[u]) \in Nat
    BY TableTypes
  <2> QED BY <1>1, <2>1, <2>2, <2>3
<1> QED BY <1>1, <1>2 DEF Drift, TableInOrder, AddedLast, Applying, HaltedDrifted

\* What memory and table gain when a leaf is added.
LEMMA AddedDrift ==
  ASSUME Shape, LogIsChain, Whole, Drift, ApplyLeaf, ~LeafExists(Event.leaves[job.step])
  PROVE  Drift'
<1>1. PICK t \in Trees : t = EventTree
  BY ApplyLeafEffect
<1>2. PICK cm \in Leaf : cm = Event.leaves[job.step]
  BY ApplyLeafEffect
<1>3. /\ AtLeaf /\ chain' = chain /\ log' = log /\ phase' = phase
      /\ job.at \in 1 .. Len(chain) /\ job.step \in 1 .. Len(Event.leaves)
      /\ job'.at = job.at /\ EventTree' = t
      /\ ~LeafExists(cm) /\ InsertLeaf(t, Len(tree[t]), cm)
      /\ tree' = [tree EXCEPT ![t] = Append(@, cm)]
  BY <1>1, <1>2, ApplyLeafEffect
<1>4. job.busy /\ phase # "down" /\ ~halted /\ halted' = halted
  BY <1>3 DEF AtLeaf, Applying, Shape, JobInRange, Drift, HaltedDrifted, ApplyLeaf
<1>5. cm \in ToSet(log[t]) /\ Event' = Event
  <2>1. Event = chain[job.at] /\ t = TreeOf(chain[job.at].topic)
    BY <1>1 DEF Event, EventTree
  <2>2. chain[job.at].leaves[job.step] \in ToSet(log[TreeOf(chain[job.at].topic)])
    BY <1>3, <2>1, LeafInLog
  <2> QED BY <1>2, <1>3, <2>1, <2>2 DEF Event
<1>6. PICK m \in Nat, n \in Nat : m = Len(tree[t]) /\ n = Len(leaves[t]) /\ m <= n
  BY TableTypes DEF Drift, MemoryInLog
<1>7. /\ tree[t] \in Seq(Leaf) /\ leaves[t] \in Seq(Leaf)
      /\ tree'[t] = Append(tree[t], cm)
      /\ leaves'[t] = IF m < n THEN leaves[t] ELSE Append(leaves[t], cm)
      /\ \A u \in Trees : u # t => tree'[u] = tree[u] /\ leaves'[u] = leaves[u]
  BY <1>3, <1>6 DEF InsertLeaf, Shape, TypeOK
<1>8. /\ Len(Append(tree[t], cm)) = m + 1 /\ Append(tree[t], cm)[m + 1] = cm
      /\ \A p \in 1 .. m : Append(tree[t], cm)[p] = tree[t][p]
      /\ ToSet(Append(tree[t], cm)) = ToSet(tree[t]) \cup {cm}
      /\ Len(Append(leaves[t], cm)) = n + 1
  BY <1>6, <1>7, AppendProperties, AppendedSet
<1>9. \A u \in Trees : u # t => (Ordered(u)' <=> Ordered(u))
  BY <1>3, <1>7 DEF Ordered, Begins
<1>10. ASSUME Ordered(t)' PROVE tree'[t] = leaves'[t]
  <2>1. Begins(Append(tree[t], cm), log[t])
    BY <1>3, <1>7, <1>10 DEF Ordered
  <2>2. Ordered(t)
    <3>1. PICK z \in Nat : z = Len(log[t])
      BY TableTypes
    <3>2. m + 1 <= z /\ \A p \in 1 .. m + 1 : Append(tree[t], cm)[p] = log[t][p]
      BY <1>8, <2>1, <3>1 DEF Begins
    <3>3. m <= z /\ \A p \in 1 .. m : p \in 1 .. m + 1
      BY <3>2
    <3> QED BY <1>6, <1>8, <3>1, <3>2, <3>3 DEF Ordered, Begins
  <2>3. Begins(leaves[t], log[t])
    BY <1>4, <2>2 DEF Drift, TableInOrder
  <2>4. tree[t] = leaves[t]
    BY <1>3, <1>6, <2>1, <2>2, <2>3, AddedToBoth
  <2>5. m = n
    BY <1>6, <2>4
  <2> QED BY <1>7, <2>4, <2>5
<1>11. MemoryInLog'
  <2> SUFFICES ASSUME NEW u \in Trees
               PROVE  ToSet(tree'[u]) \subseteq ToSet(log'[u]) /\ Len(tree'[u]) <= Len(leaves'[u])
    BY DEF MemoryInLog
  <2>1. CASE u = t
    <3>1. ToSet(tree'[t]) \subseteq ToSet(log[t])
      BY <1>5, <1>7, <1>8 DEF Drift, MemoryInLog
    <3>2. CASE m < n
      <4>1. Len(tree'[t]) = m + 1 /\ Len(leaves'[t]) = n
        BY <1>6, <1>7, <1>8, <3>2
      <4> QED BY <1>3, <2>1, <3>1, <3>2, <4>1
    <3>3. CASE ~(m < n)
      <4>1. Len(tree'[t]) = m + 1 /\ Len(leaves'[t]) = n + 1
        BY <1>7, <1>8, <3>3
      <4>2. m + 1 <= n + 1
        BY <1>6
      <4> QED BY <1>3, <2>1, <3>1, <4>1, <4>2
    <3> QED BY <3>2, <3>3
  <2>2. CASE u # t
    BY <1>3, <1>7, <2>2 DEF Drift, MemoryInLog
  <2> QED BY <2>1, <2>2
<1>12. TableInOrder'
  <2> SUFFICES ASSUME NEW u \in Trees, Ordered(u)' PROVE Begins(leaves'[u], log'[u])
    BY DEF TableInOrder
  <2>1. CASE u = t
    BY <1>10, <2>1 DEF Ordered
  <2>2. CASE u # t
    <3>1. Begins(leaves[u], log[u])
      BY <1>4, <1>9, <2>2 DEF Drift, TableInOrder
    <3> QED BY <1>3, <1>7, <2>2, <3>1
  <2> QED BY <2>1, <2>2
<1>13. AddedLast'
  <2>1. Len(tree'[t]) > 0 /\ tree'[t][Len(tree'[t])] = Event'.leaves[job.step]
    BY <1>2, <1>5, <1>6, <1>7, <1>8
  <2>2. Ordered(EventTree)' => Ordered(t)'
    BY <1>3 DEF Ordered, Begins
  <2>3. job.step \in 1 .. Len(Event'.leaves)
    BY <1>3, <1>5
  <2> QED BY <1>3, <1>10, <2>1, <2>2, <2>3 DEF AddedLast
<1>14. HaltedDrifted'
  BY <1>4 DEF HaltedDrifted
<1> QED BY <1>11, <1>12, <1>13, <1>14 DEF Drift

LEMMA LostDrift ==
  ASSUME Shape, LogIsChain, Whole, Distinct, Drift, LeafReplyLost
  PROVE  Drift'
<1>1. PICK t \in Trees : t = EventTree
  BY LeafAtHand DEF LeafReplyLost
<1>2. PICK cm \in Leaf : cm = Event.leaves[job.step]
  BY LeafAtHand DEF LeafReplyLost
<1>3. /\ AtLeaf /\ log' = log /\ tree' = tree /\ halted' = halted /\ ~job'.busy
      /\ ~LeafExists(cm) /\ InsertLeaf(t, Len(tree[t]), cm)
  BY <1>1, <1>2 DEF LeafReplyLost, GiveUp, Idle
<1>4. phase # "down" /\ ~halted
  BY <1>3 DEF AtLeaf, Applying, Shape, JobInRange, Drift, HaltedDrifted
<1>5. PICK m \in Nat, n \in Nat : m = Len(tree[t]) /\ n = Len(leaves[t]) /\ m <= n
  BY TableTypes DEF Drift, MemoryInLog
<1>6. /\ tree[t] \in Seq(Leaf) /\ leaves[t] \in Seq(Leaf)
      /\ leaves'[t] = IF m < n THEN leaves[t] ELSE Append(leaves[t], cm)
      /\ \A u \in Trees : u # t => leaves'[u] = leaves[u]
  BY <1>3, <1>5 DEF InsertLeaf, Shape, TypeOK
<1>7. /\ Len(Append(leaves[t], cm)) = n + 1 /\ Append(leaves[t], cm)[n + 1] = cm
      /\ \A p \in 1 .. n : Append(leaves[t], cm)[p] = leaves[t][p]
  BY <1>5, <1>6, AppendProperties
<1>8. \A u \in Trees : Ordered(u)' <=> Ordered(u)
  BY <1>3 DEF Ordered, Begins
<1>9. MemoryInLog'
  <2> SUFFICES ASSUME NEW u \in Trees
               PROVE  ToSet(tree'[u]) \subseteq ToSet(log'[u]) /\ Len(tree'[u]) <= Len(leaves'[u])
    BY DEF MemoryInLog
  <2>1. ToSet(tree'[u]) \subseteq ToSet(log'[u]) /\ Len(tree[u]) <= Len(leaves[u]) /\ tree'[u] = tree[u]
    BY <1>3 DEF Drift, MemoryInLog
  <2>2. CASE u = t
    <3>1. Len(leaves'[t]) = n \/ Len(leaves'[t]) = n + 1
      BY <1>5, <1>6, <1>7
    <3>2. m <= Len(leaves'[t])
      BY <1>5, <3>1
    <3> QED BY <1>5, <2>1, <2>2, <3>2
  <2>3. CASE u # t
    BY <1>6, <2>1, <2>3
  <2> QED BY <2>2, <2>3
<1>10. ASSUME Ordered(t) PROVE Begins(leaves'[t], log[t])
  <2>1. Begins(leaves[t], log[t])
    BY <1>4, <1>10 DEF Drift, TableInOrder
  <2>2. CASE m < n
    BY <1>6, <2>1, <2>2
  <2>3. CASE ~(m < n)
    <3>1. m = n /\ \A p \in 1 .. m : tree[t][p] = log[t][p] /\ leaves[t][p] = log[t][p]
      <4>1. m = n
        BY <1>5, <2>3
      <4> QED BY <1>5, <1>10, <2>1, <4>1 DEF Ordered, Begins
    <3>2. Len(tree[t]) = Len(leaves[t]) /\ \A p \in 1 .. Len(tree[t]) : tree[t][p] = leaves[t][p]
      BY <1>5, <3>1
    <3>3. tree[t] = leaves[t]
      BY <1>6, <3>2, SeqEqual
    <3>4. n + 1 <= Len(log[t]) /\ log[t][n + 1] = cm
      BY <1>1, <1>2, <1>3, <1>5, <2>1, <3>3, LostIsNext
    <3>5. \A p \in 1 .. n + 1 : Append(leaves[t], cm)[p] = log[t][p]
      <4> TAKE p \in 1 .. n + 1
      <4>1. CASE p \in 1 .. n
        BY <1>7, <3>1, <4>1
      <4>2. CASE p = n + 1
        BY <1>7, <3>4, <4>2
      <4>3. p \in 1 .. n \/ p = n + 1
        OBVIOUS
      <4> QED BY <4>1, <4>2, <4>3
    <3> QED BY <1>6, <1>7, <2>3, <3>4, <3>5 DEF Begins
  <2> QED BY <2>2, <2>3
<1>11. TableInOrder'
  <2> SUFFICES ASSUME NEW u \in Trees, Ordered(u)' PROVE Begins(leaves'[u], log'[u])
    BY DEF TableInOrder
  <2>1. CASE u = t
    BY <1>3, <1>8, <1>10, <2>1
  <2>2. CASE u # t
    <3>1. Begins(leaves[u], log[u])
      BY <1>4, <1>8 DEF Drift, TableInOrder
    <3> QED BY <1>3, <1>6, <2>2, <3>1
  <2> QED BY <2>1, <2>2
<1> QED BY <1>3, <1>4, <1>9, <1>11 DEF Drift, AddedLast, Applying, HaltedDrifted

LEMMA HaltDrift ==
  ASSUME Shape, LogIsChain, Whole, Distinct, Drift, Halt
  PROVE  Drift'
<1>1. EventTree \in Trees /\ ~Ordered(EventTree) /\ job.busy /\ phase # "down"
  BY HaltSeesDrift DEF Halt, AtGate, AfterLeaves, Applying, Shape, JobInRange
<1>2. /\ tree' = tree /\ leaves' = leaves /\ log' = log /\ halted' /\ ~job'.busy
      /\ phase' # "down"
  BY <1>1 DEF Halt, GiveUp, Idle, dbVars
<1>3. \A u \in Trees : Ordered(u)' <=> Ordered(u)
  BY <1>2 DEF Ordered, Begins
<1>4. MemoryInLog' /\ TableInOrder'
  BY <1>1, <1>2, <1>3 DEF Drift, MemoryInLog, TableInOrder
<1>5. HaltedDrifted'
  BY <1>1, <1>2, <1>3 DEF HaltedDrifted
<1> QED BY <1>2, <1>4, <1>5 DEF Drift, AddedLast, Applying

LEMMA NextDrift ==
  ASSUME Shape, LogIsChain, Whole, Distinct => Drift, [Next]_vars, Distinct'
  PROVE  Drift'
<1>15. Distinct /\ Drift
  BY DistinctBefore
<1>0. job.busy => ~halted /\ phase # "down"
  BY <1>15 DEF Drift, HaltedDrifted, Shape, JobInRange
<1>1. ASSUME NEW topic \in Topics, Emit(topic) PROVE Drift'
  BY <1>15, <1>1, EmitDrift
<1>2. CASE Boot
  BY <1>15, <1>2, BootDrift
<1>3. CASE FetchPage
  <2>1. ~halted' /\ ~job'.added /\ phase' = phase /\ UNCHANGED <<tree, leaves, log>>
    BY <1>3 DEF FetchPage, dbVars
  <2> QED BY <1>15, <2>1, KeptDrift
<1>4. CASE CaughtUp
  <2>1. /\ UNCHANGED <<tree, leaves, log, chain, halted, job>> /\ phase # "down"
        /\ phase' # "down" /\ ~job.busy
    BY <1>4 DEF CaughtUp, dbVars
  <2> QED BY <1>15, <2>1, KeptDrift DEF Applying
<1>5. CASE ApplyLeaf
  <2>1. CASE LeafExists(Event.leaves[job.step])
    <3>1. /\ tree' = tree /\ leaves' = leaves /\ log' = log /\ chain' = chain /\ phase' = phase
          /\ job'.at = job.at /\ job'.added = job.added /\ AtLeaf
      BY <1>5, <2>1, ApplyLeafEffect
    <3>2. Applying /\ ~halted'
      BY <1>0, <1>5, <3>1 DEF AtLeaf, Applying, ApplyLeaf
    <3> QED BY <1>15, <3>1, <3>2, KeptDrift
  <2>2. CASE ~LeafExists(Event.leaves[job.step])
    BY <1>15, <1>5, <2>2, AddedDrift
  <2> QED BY <2>1, <2>2
<1>6. CASE ApplyTable
  <2>1. /\ tree' = tree /\ leaves' = leaves /\ log' = log /\ chain' = chain /\ phase' = phase
        /\ job'.at = job.at /\ job'.added = job.added /\ AfterLeaves
    BY <1>6, ApplyTableEffect
  <2>2. Applying /\ ~halted'
    BY <1>0, <1>6, <2>1 DEF AfterLeaves, Applying, ApplyTable
  <2> QED BY <1>15, <2>1, <2>2, KeptDrift
<1>7. CASE Gate
  <2>1. /\ UNCHANGED <<tree, leaves, log, phase, halted>> /\ job.busy
        /\ job' = [job EXCEPT !.at = @ + 1, !.step = 1, !.added = FALSE]
    BY <1>7 DEF Gate, AtGate, AfterLeaves, Applying
  <2>2. ~job'.added
    BY <2>1, JobType, NextEvent
  <2> QED BY <1>15, <1>0, <2>1, <2>2, KeptDrift
<1>8. CASE Halt
  BY <1>15, <1>8, HaltDrift
<1>9. CASE EndPage
  <2>1. /\ UNCHANGED <<tree, leaves, log, halted>> /\ job.busy /\ ~job'.busy
    BY <1>9 DEF EndPage, Idle
  <2> QED BY <1>15, <1>0, <2>1, KeptDrift DEF Applying
<1>10. CASE CallFails
  <2>1. /\ UNCHANGED <<tree, leaves, log, halted>> /\ ~halted /\ phase # "down" /\ ~job'.busy
    BY <1>10 DEF CallFails, GiveUp, Idle, dbVars
  <2> QED BY <1>15, <2>1, KeptDrift DEF Applying
<1>11. CASE LeafReplyLost
  BY <1>15, <1>11, LostDrift
<1>12. CASE Crash
  BY <1>15, <1>12, CrashDrift
<1>13. CASE UNCHANGED <<tree, leaves, log, chain, phase, halted, job>>
  <2>1. halted => phase # "down" /\ ~job.busy
    BY <1>15 DEF Drift, HaltedDrifted
  <2> QED BY <1>15, <1>13, <2>1, KeptDrift DEF Applying
<1>14. \/ \E topic \in Topics : Emit(topic)
       \/ Boot \/ FetchPage \/ CaughtUp \/ ApplyLeaf \/ ApplyTable \/ Gate \/ Halt \/ EndPage
       \/ CallFails \/ LeafReplyLost \/ Crash
       \/ UNCHANGED <<tree, leaves, log, chain, phase, halted, job>>
  BY DEF Next, vars, dbVars, AskPaths, LookUpPath
<1> QED BY <1>1, <1>2, <1>3, <1>4, <1>5, <1>6, <1>7, <1>8, <1>9, <1>10, <1>11, <1>12, <1>13, <1>14

LEMMA InitDrift == Init => Drift
<1> SUFFICES ASSUME Init PROVE Drift
  OBVIOUS
<1>1. ToSet(<< >>) = {} /\ Len(<< >>) = 0
  BY DEF ToSet
<1>2. MemoryInLog
  BY <1>1 DEF Init, EmptyTrees, MemoryInLog
<1> QED BY <1>2 DEF Init, Idle, Drift, TableInOrder, AddedLast, Applying, HaltedDrifted

\* The converse of PrefixIntro.
LEMMA PrefixElim ==
  ASSUME NEW S, NEW s \in Seq(S), NEW t \in Seq(S), IsPrefix(s, t)
  PROVE  Len(s) <= Len(t) /\ \A p \in 1 .. Len(s) : s[p] = t[p]
<1>1. Len(s) \in Nat /\ Len(t) \in Nat /\ Len(s) <= Len(t)
  BY LenProperties DEF IsPrefix
<1>2. SubSeq(s, 1, Len(s)) = s
  BY SubSeqFull
<1>3. \A p \in 1 .. Len(s) : t[p] \in S
  BY <1>1, ElementOfSeq
<1>4. \A p \in 1 .. Len(s) : SubSeq(t, 1, Len(s))[p] = t[p]
  <2> DEFINE r == SubSeq(t, 1, Len(s))
  <2>1. \A i \in 1 .. Len(s) - 1 + 1 : r[i] = t[1 + i - 1]
    BY <1>1, <1>3, SubSeqProperties
  <2> HIDE DEF r
  <2> QED BY <1>1, <2>1 DEF r
<1> QED BY <1>1, <1>2, <1>4 DEF IsPrefix

\* The self-check stops the ingestion only after a lost reply, and only while a tree in
\* memory is none the contract had; or after a commitment was inserted twice.
THEOREM NoFalseHalts == Spec => []NoFalseHalt
<1>1. Shape /\ LogIsChain /\ Whole /\ (Distinct => Drift) /\ [Next]_vars => (Distinct => Drift)'
  <2> SUFFICES ASSUME Shape, LogIsChain, Whole, Distinct => Drift, [Next]_vars, Distinct' PROVE Drift'
    OBVIOUS
  <2> QED BY NextDrift
<1>2. Spec => [](Distinct => Drift)
  BY <1>1, InitDrift, WholeHolds, PTL DEF Spec
<1>3. Shape /\ Agrees /\ (Distinct => Drift) => NoFalseHalt
  <2> SUFFICES ASSUME Shape, Agrees, Distinct, Drift, halted
               PROVE  lost /\ \E u \in Trees : ~IsPrefix(tree[u], log[u])
    BY DEF NoFalseHalt, Healthy
  <2>1. lost
    BY DEF Agrees, InOrder
  <2>2. PICK u \in Trees : ~Ordered(u)
    BY DEF Drift, HaltedDrifted
  <2>3. ~IsPrefix(tree[u], log[u])
    <3>1. tree[u] \in Seq(Leaf) /\ log[u] \in Seq(Leaf)
      BY TableTypes
    <3> QED BY <2>2, <3>1, PrefixElim DEF Ordered, Begins
  <2> QED BY <2>1, <2>2, <2>3
<1> QED BY <1>2, <1>3, WholeHolds, PTL
=============================================================================
