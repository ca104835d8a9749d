CONSTANTS
  c1 = c1
  c2 = c2
  RelayCount = 2
  Publishes = {c1, c2}
  Posts <- Revoking
  MaxTime = 1
  Subject = "provider"
  Anchor = "anchor"
  Known = {"peer"}
SPECIFICATION TrustSpec
INVARIANT ActiveRevocationsOnly
\* Every call ends and the clock stops.
CHECK_DEADLOCK FALSE
