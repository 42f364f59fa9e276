--------------------------- MODULE MCFutexEmulation ---------------------------
EXTENDS FutexEmulation

CONSTANTS i1, i2

\* The first isolate owns all asynchronous nodes, the second one wakes and waits.
OneOwner == [n \in AsyncNodes |-> i1]
=============================================================================
