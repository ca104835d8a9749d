CONSTANTS
  Lists <- SomeLists
  Limit = 2
  Cap = 2
  ChunkSizes = {1, 2}
SPECIFICATION FairSpec
INVARIANTS
  TypeOK
  PoolExact
  FetchedIffPublic
  HealthyIffSaid
PROPERTIES
  FindHealthyEnds
\* Every worker ends.
CHECK_DEADLOCK FALSE
