CONSTANTS
  a1 = a1
  a2 = a2
  Addresses = {a1, a2}
  MaxHits = 2
  Window = 3
  TicksPerSecond = 2
  MaxTime = 7
  MaxRequests = 4
SYMMETRY AddressSymmetry
SPECIFICATION Spec
INVARIANTS
  TypeOK
  LimitExact
  MapLean
  ServedNoEarlier
\* The clock and the clients stop at their bounds.
CHECK_DEADLOCK FALSE
