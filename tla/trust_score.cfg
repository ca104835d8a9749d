CONSTANTS
  c1 = c1
  c2 = c2
  RelayCount = 2
  Publishes = {c1, c2}
  Posts <- Saying
  MaxTime = 1
  Subject = "provider"
  Anchor = "anchor"
  Known = {"peer"}
SPECIFICATION TrustSpec
INVARIANTS
  TrustTypeOK
  ReportTruthful
  OneVoicePerKey
\* Every call ends and the clock stops.
CHECK_DEADLOCK FALSE
