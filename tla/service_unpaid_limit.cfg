CONSTANTS
  p1 = p1
  p2 = p2
  Payouts = {p1, p2}
  MaxPending = 1
  SettleAttempts = 1
  ConcurrentCalls = 2
  Faults = {}
SPECIFICATION Spec
INVARIANT UnpaidLimit
CHECK_DEADLOCK FALSE
