------------------------------ MODULE MCPCQueue ------------------------------
\* The queue with a few threads and request objects.
EXTENDS PCQueue, TLC
=============================================================================
