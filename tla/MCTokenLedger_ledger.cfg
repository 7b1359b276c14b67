SPECIFICATION Spec
CONSTANTS
  s1 = s1
  s2 = s2
  Streams = {s1, s2}
  Limit = 2
  Win = 1
  Grace = 0
  BufNum = 3
  BufDen = 2
  MaxEst = 1
  MaxExact = 2
  MaxOpen = 1
  MaxTime = 3
  Lossy = TRUE
  MaxRetries = 1
  MaxLate = 1
INVARIANTS TypeOK LedgerBalanced 
SYMMETRY Symmetry
CHECK_DEADLOCK FALSE
