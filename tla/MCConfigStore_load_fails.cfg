SPECIFICATION FairSpec
CONSTANTS
  w = w
  r = r
  h1 = h1
  h2 = h2
  Instances = {w, r}
  Writer = w
  Handlers = {h1}
  AdminOps = {"rules"}
  MaxOps = 1
  Failing = {"db"}
  MaxFails = 1
  MaxRestarts = 0
  LossyPubSub = FALSE
  UnixTime = 100
PROPERTY WritesArrive
CHECK_DEADLOCK FALSE
