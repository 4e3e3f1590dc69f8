SPECIFICATION Spec
CONSTANTS
  Thread = {t1, t2, t3, t4}
  NULL = NULL
  Semaphore = {f1, f2}
  Lock = {readerLock, lock, barrierLock}
  Condition = {listEmpty, barrierCond}
  InitValue <- MCInitValue
  CondLock <- MCCondLock
  readerLock = readerLock
  lock = lock
  listEmpty = listEmpty
  barrierLock = barrierLock
  barrierCond = barrierCond
  MaxItems = 4
  max_num = 3
  MaxCalls = 2
  Slot = {0, 1, 2}
  MaxMsgs = 4
INVARIANTS OpensOnce 
PROPERTIES FileLocksExact ListExact FirstRoundPasses
CHECK_DEADLOCK FALSE
