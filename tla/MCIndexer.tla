------------------------------ MODULE MCIndexer ------------------------------
(***************************************************************************)
(* Values of the constants for the runs of the indexer.                     *)
(***************************************************************************)
EXTENDS IndexerProperties

\* The first leaf by itself, and the first two in one batch.
OneAndTwo ==
  {[tree |-> "main", indices |-> <<0>>, batch |-> FALSE],
   [tree |-> "main", indices |-> <<0, 1>>, batch |-> TRUE]}
=============================================================================
