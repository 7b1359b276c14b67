SPECIFICATION FairSpec
CONSTANTS
  w = w
  r = r
  h1 = h1
  h2 = h2
  Instances = {w, r}
  Writer = w
  Handlers = {h1}
  AdminOps = {"rules"}
  MaxOps = 2
  Failing = {"incr", "set"}
  MaxFails = 0
  MaxRestarts = 0
  LossyPubSub = TRUE
  UnixTime = 100
PROPERTY WritesArrive
CHECK_DEADLOCK FALSE
