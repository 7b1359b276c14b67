SPECIFICATION Spec
CONSTANTS
  w = w
  r = r
  h1 = h1
  h2 = h2
  Instances = {w}
  Writer = w
  Handlers = {h1, h2}
  AdminOps = {"policy", "reload"}
  MaxOps = 2
  Failing = {"db", "incr", "set"}
  MaxFails = 1
  MaxRestarts = 1
  LossyPubSub = FALSE
  UnixTime = 100
INVARIANTS TypeOK VersionUnique TornOnlyByOverlap
SYMMETRY HandlerSymmetry
CHECK_DEADLOCK FALSE
