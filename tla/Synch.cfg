SPECIFICATION FairSynchSpec
CONSTANTS
  main = main
  Thread = {main, t1, t2}
  NULL = NULL
  max_thread = 3
  Device = {d1}
  HasTimer = TRUE
  Unchecked = FALSE
  Semaphore = {s1}
  Lock = {l1}
  Condition = {c1}
  s1 = s1
  l1 = l1
  InitValue <- MCInitValue
  CondLock <- MCCondLock
  DevSem <- MCDevSem
  MaxValue = 1
INVARIANTS ObjectsExact NoLostWakeup
PROPERTIES AvailableIsTaken ImplementsThreads ImplementsMonitor
