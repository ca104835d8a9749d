CONSTANTS
  c1 = c1
  RelayCount = 2
  Publishes = {c1}
  Posts <- Listings
  MaxTime = 0
SPECIFICATION PublishSpec
INVARIANT PublishReports
\* Every call ends and the clock stops.
CHECK_DEADLOCK FALSE
