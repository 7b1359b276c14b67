SPECIFICATION Spec
CONSTANTS
  g1 = g1
  g2 = g2
  Goroutines = {g1, g2}
  None = None
  Bounds = 1
  windowBuckets = 2
  Start = 2
  MaxTime = 4
  MaxRequests = 2
  MaxScrapes = 1
SYMMETRY GoroutineSymmetry
INVARIANTS TypeOK HistogramExact SlotExact RateWithinWindow
PROPERTY CounterRefined
CHECK_DEADLOCK FALSE
