--------------------------- MODULE MCCacheTiming ---------------------------
\* Model values for the run of CacheTiming.
EXTENDS CacheTiming, TLC

CONSTANTS c1, c2, t1, t2, w1, w2

\* a direct-mapped cache and one with two ways
Sizes == c1 :> {w1} @@ c2 :> {w1, w2}

\* what the theorems on the order of events need
ASSUME ClocksTogether == SkewBelowLatency

\* Lines of memory are interchangeable.
Symmetric == Permutations({t1, t2})
=============================================================================
