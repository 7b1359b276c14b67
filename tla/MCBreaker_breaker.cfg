SPECIFICATION FairSpec
CONSTANTS
  g1 = g1
  g2 = g2
  Goroutines = {g1, g2}
  Threshold = 2
  RatioNum = 1
  RatioDen = 2
  Window = 2
  Cooldown = 1
  MaxCalls = 4
INVARIANTS TypeOK NoMissedTrip
PROPERTY Recovers
