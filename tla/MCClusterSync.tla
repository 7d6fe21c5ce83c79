--------------------------- MODULE MCClusterSync ---------------------------
\* Model values for the runs of ClusterSync.
EXTENDS ClusterSync, TLC

CONSTANTS n1, n2

\* Nodes are interchangeable where none has a role of its own (AskTime,
\* Terminators).
Symmetric == Permutations({n1, n2})
=============================================================================
