------------------------------ MODULE MCPidLock ------------------------------
\* Three processes: one that leaves, one that arrives while it leaves, and one
\* that comes later.
EXTENDS PidLock, TLC

Processes == Permutations(Process)
=============================================================================
