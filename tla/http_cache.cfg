CONSTANTS
  r1 = r1
  r2 = r2
  r3 = r3
  Requests = {r1, r2, r3}
  Queries <- EachParameter
  Codes <- SomeCodes
  Upper <- InUpper
  Rails <- SomeRails
  Kycs = {"none", "required"}
  Ttl = 1
  QueryTime = 1
  MaxTime = 2
SYMMETRY RequestSymmetry
SPECIFICATION Spec
CONSTRAINT OneOther
INVARIANTS
  TypeOK
  RightAnswer
  AnswersNotStale
  GoesBackAtMostOneQuery
\* Every request may be answered and the bounded clock ends.
CHECK_DEADLOCK FALSE
