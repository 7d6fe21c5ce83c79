---------------------------- MODULE MCTokenStream ----------------------------
\* Timer0: it remembers one instruction and asks for a history of two.
EXTENDS TokenStream
=============================================================================
