CONSTANTS
  c1 = c1
  c2 = c2
  RelayCount = 2
  Publishes = {c1, c2}
  Posts <- Versions
  MaxTime = 2
  Codes <- SomeCodes
  Upper <- InUpper
  Rails <- SomeRails
  AskedFor <- Asking
  Attempts = 2
  DefaultTtl = 3
  LegacyTtl = 2
  Lookback = 1
SPECIFICATION LQFairSpec
INVARIANTS
  LQTypeOK
  NewestDecides
  ShownFits
  
PROPERTIES
  FindEnds
\* The call ends, every listing is published and the clock stops.
CHECK_DEADLOCK FALSE
