SPECIFICATION Spec
CONSTANTS
  q1 = q1
  q2 = q2
  q3 = q3
  i1 = i1
  i2 = i2
  Rules <- QuotaRules
  Dims = {"biz"}
  DimValues = {"b"}
  Requests = {q1, q2}
  Meta <- OneBiz
  TzOffset = 1
  Unit = 1
  ReqIds = {q1, q2}
  ReqId <- OwnIds
  MaxTime = 4
  MaxSkew = 1
  Grace = 2
  Instances = {i1, i2}
  InstCount = 2
  Skew <- OneAhead
  MaxDelay = 1
  MaxRetries = 1
  NegMax = 2
  BreakerVerdicts = {FALSE}
  MaxDelta = 1
  MaxReserves = 1
INVARIANTS QuotaBound CounterExact ConcBound OwnSlot
SYMMETRY RequestSymmetry
CHECK_DEADLOCK FALSE
