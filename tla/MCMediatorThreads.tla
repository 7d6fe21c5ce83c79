------------------------ MODULE MCMediatorThreads ------------------------
\* Model values for the runs of MediatorThreads.
EXTENDS MediatorThreads

CONSTANTS n1, n2
=============================================================================
