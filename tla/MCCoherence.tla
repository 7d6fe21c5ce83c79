---------------------------- MODULE MCCoherence ----------------------------
\* Model values for the runs of Coherence.
EXTENDS Coherence, TLC

CONSTANTS c1, c2, c3, t1, t2, t3

\* Cores are interchangeable, and so are lines.
Symmetric == Permutations({c1, c2, c3}) \union Permutations({t1, t2, t3})
=============================================================================
