------------------------------ MODULE MCBreaker ------------------------------
\* Small instances of Breaker for TLC: two failures that are half of the calls
\* of a window trip it.
EXTENDS Breaker

CONSTANTS g1, g2
=============================================================================
