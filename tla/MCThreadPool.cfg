CONSTANTS
  w1 = w1
  w2 = w2
  w3 = w3
  Workers = {w1, w2, w3}
  MaxJobs = 4
  MAX_THREAD_COUNT = 2
SPECIFICATION FairSpec
INVARIANTS PoolInv WaitedForAll FirstFailureThrown SleeperNotNeeded
PROPERTY CallReturns
