SPECIFICATION FairSpec
CONSTANTS
  q1 = q1
  q2 = q2
  Requests = {q1, q2}
  None = None
  Bizs = {"chat", "other"}
  BizOf <- MCBizOf
  Urls = {"up", "env", "new", "ip", "ftp"}
  HostOf <- MCHostOf
  GoodScheme = {"up", "env", "new", "ip"}
  Addresses <- MCAddresses
  PrivateHosts <- MCAddresses
  Flaky <- MCFlaky
  AllowHeader = TRUE
  AllowPrivate = TRUE
  Allowlist = {}
  EnvUrl <- MCEnvUrl
  TrustedHops = 1
  UseRealIP = TRUE
  ClientIP = "client"
  ProxyIPs <- MCProxies
  Garbage = "garbage"
  ProxiesJoin = TRUE
  Locations <- MCLocations
  MaxRedirects = 1
  Shapes <- MCShapes
  Snapshots <- MCSnapshots
  Options <- MCOptions
  MaxChanges = 1
INVARIANTS TypeOK CountedOnce GaugesExact SlotOfItsOwn ChargedAsAdmitted ResolvedAccepted TrueIP
PROPERTY EndsInTime
CHECK_DEADLOCK FALSE
