------------------------------ MODULE MCIndexer ------------------------------
(* The instance of Indexer: two processes over one account's events.         *)
EXTENDS Indexer
=============================================================================
