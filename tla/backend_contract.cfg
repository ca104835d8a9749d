CONSTANTS
  h1 = h1
  h2 = h2
  c1 = c1
  c2 = c2
  NoHash = NoHash
  Hashes = {h1, h2}
  Callers = {c1, c2}
  TicksPerSecond = 2
  ExpirySeconds = {1, 2}
  Timeouts = {0, 1, 3}
  TimerMax = 100
  MaxTime = 6
SPECIFICATION FairSpec
INVARIANTS
  TypeOK
  NobodyForgotten
PROPERTIES
  ContractSpec
  EveryCallerAnswered
\* The clock ends and every invoice may be settled or cancelled by then.
CHECK_DEADLOCK FALSE
