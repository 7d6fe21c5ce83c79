--------------------------- MODULE MCPacketQueue ---------------------------
\* Model values for the runs of PacketQueue.
EXTENDS PacketQueue

CONSTANTS n1, n2, p1, p2

=============================================================================
