SPECIFICATION FairSpec
CONSTANTS
  r1 = r1
  Refreshers = {r1}
  Main = Main
  Absent = Absent
  PolicyKeys <- MCKeys
  Values = {0, 1, 2}
  Parsable <- MCParsable
  Accepted <- MCAccepted
  Default <- MCDefault
  Env <- MCEnv
  Pages <- MCPages
  MaxWrites = 1
  MaxInFlight = 1
INVARIANTS TypeOK ListenersFollow NoLostRelease
PROPERTIES ProbeRefined StopsOnSignal BecomesReady PolicyArrives
CHECK_DEADLOCK FALSE
