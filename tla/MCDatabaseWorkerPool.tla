--------------------------- MODULE MCDatabaseWorkerPool ---------------------------
EXTENDS DatabaseWorkerPool

CONSTANT session
=============================================================================
