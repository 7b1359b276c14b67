---------------------------- MODULE MCTokenLedger ----------------------------
\* Small instances of TokenLedger for TLC.
EXTENDS TokenLedger, TLC

CONSTANTS s1, s2

Symmetry == Permutations(Streams)
=============================================================================
