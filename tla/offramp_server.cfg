CONSTANTS
  p1 = p1
  p2 = p2
  Payouts = {p1, p2}
  MaxPending = 1
  SettleAttempts = 2
  ConcurrentCalls = 2
  Faults <- AllFaults
  QuoteLifetimes = {1}
  BackendDelay = 0
  MaxTime = 1
SPECIFICATION LFairSpec
INVARIANTS
  TypeOK
  LTypeOK
  PendingCountExact
  CaptureOnlyAfterDelivery
  ClaimableWhenOwed
  StuckIsFlagged
  UnflaggedIsBalanced
  RefusalLeavesNothing
PROPERTIES
  VerdictIsFinal
  RampSpec
  EveryPayoutEnds
  CapacityRecovers
  ConfirmedIsSettledOrFlagged
  PollingWalletLearns
\* Every payout may have ended and the bounded clock stops: nothing is left to do.
CHECK_DEADLOCK FALSE
