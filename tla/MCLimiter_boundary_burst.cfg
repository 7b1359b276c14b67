SPECIFICATION Spec
CONSTANTS
  q1 = q1
  q2 = q2
  q3 = q3
  i1 = i1
  i2 = i2
  Rules <- SlidingRules
  Dims = {"biz"}
  DimValues = {"b"}
  Requests = {q1, q2, q3}
  Meta <- OneBiz
  TzOffset = 0
  Unit = 1
  ReqIds = {q1, q2, q3}
  ReqId <- OwnIds
  MaxTime = 4
  MaxSkew = 0
  Grace = 2
  Instances = {i1}
  InstCount = 1
  Skew <- NoSkew
  MaxDelay = 1
  MaxRetries = 0
  NegMax = 2
  BreakerVerdicts = {FALSE}
  MaxDelta = 0
  MaxReserves = 0
INVARIANT NoBoundaryBurst
SYMMETRY RequestSymmetry
CHECK_DEADLOCK FALSE
