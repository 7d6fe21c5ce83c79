---------------------------- MODULE MCCpuTimers ----------------------------
\* Three instructions on two cache lines for bandwidth, of which one makes more
\* accesses than fit in a cycle.
EXTENDS CpuTimers

ThreeInstructions ==
  {[addr |-> 1, loads |-> 0, stores |-> 0],
   [addr |-> 2, loads |-> 2, stores |-> 1],
   [addr |-> 3, loads |-> 0, stores |-> 1]}
=============================================================================
