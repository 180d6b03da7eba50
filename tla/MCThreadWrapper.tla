-------------------------- MODULE MCThreadWrapper ---------------------------
EXTENDS ThreadWrapper
CONSTANTS c1, c2, t1, t2, t3
=============================================================================
