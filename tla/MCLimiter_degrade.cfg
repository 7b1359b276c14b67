SPECIFICATION Spec
CONSTANTS
  q1 = q1
  q2 = q2
  q3 = q3
  i1 = i1
  i2 = i2
  Rules <- DegradeRules
  Dims = {"biz"}
  DimValues = {"b"}
  Requests = {q1, q2, q3}
  Meta <- OneBiz
  TzOffset = 0
  Unit = 1
  ReqIds = {q1, q2, q3}
  ReqId <- OwnIds
  MaxTime = 2
  MaxSkew = 0
  Grace = 1
  Instances = {i1, i2}
  InstCount = 2
  Skew <- NoSkew
  MaxDelay = 1
  MaxRetries = 0
  NegMax = 2
  BreakerVerdicts = {TRUE}
  MaxDelta = 1
  MaxReserves = 0
INVARIANTS TypeOK DegradedBound
SYMMETRY FullSymmetry
CHECK_DEADLOCK FALSE
