CONSTANTS
  p1 = p1
  Payouts = {p1}
  MaxPending = 1
  SettleAttempts = 1
  ConcurrentCalls = 2
  Faults = {}
  QuoteLifetimes = {2}
  BackendDelay = 1
  MaxTime = 3
SPECIFICATION LFairSpec
PROPERTIES
  PaidWithinQuote
CHECK_DEADLOCK FALSE
