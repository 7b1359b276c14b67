------------------------------ MODULE MCMetrics ------------------------------
\* A small instance of Metrics for TLC: two goroutines, a ring of two seconds.
EXTENDS Metrics, TLC

CONSTANTS g1, g2

GoroutineSymmetry == Permutations(Goroutines)
=============================================================================
