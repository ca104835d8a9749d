CONSTANTS
  p1 = p1
  Payouts = {p1}
  MaxPending = 1
  SettleAttempts = 1
  ConcurrentCalls = 1
  Faults <- BackendFaults
SPECIFICATION Spec
INVARIANT FailedMeansReleased
CHECK_DEADLOCK FALSE
