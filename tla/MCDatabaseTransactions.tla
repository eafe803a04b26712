------------------------ MODULE MCDatabaseTransactions ------------------------
\* Transactions of two statements and of one, for small pools.
EXTENDS DatabaseTransactions, TLC

CONSTANTS t1, t2

PairSize == (t1 :> 2) @@ (t2 :> 1)
=============================================================================
