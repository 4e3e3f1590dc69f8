SPECIFICATION FairSpec
CONSTANTS
  Thread = {t1, t2, t3}
  NULL = NULL
  Semaphore = {semaphore}
  Lock = {lock}
  Condition = {}
  InitValue <- MCInitValue
  CondLock <- MCCondLock
  Sector = {0, 1}
  cache_size = 2
  lock = lock
  semaphore = semaphore
  MaxWrites = 1
INVARIANTS DiskExact ReadsLinearizable
PROPERTY LockReleased
