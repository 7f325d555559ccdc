SPECIFICATION FairSpec
CONSTANTS
  t1 = t1
  t2 = t2
  t3 = t3
  Threads <- ThreeThreads
  POOL_COUNT = 2
  MaxQueries = 3
  MayThrow = TRUE
INVARIANTS
  TypeOK
  ConnectionsExclusive
  NoLostWakeup
PROPERTIES
  PoolPromise
  EveryoneServed
