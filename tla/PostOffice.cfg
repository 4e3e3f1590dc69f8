SPECIFICATION Spec
CONSTANTS
  Machine = {a, b}
  Busy = {a}
  NULL = NULL
  Thread <- MCThread
  Semaphore <- MCSemaphore
  Lock = {a, b}
  Condition = {}
  InitValue <- MCInitValue
  CondLock <- MCCondLock
INVARIANTS SignalsExact InOrderDelivery
PROPERTY MailTestEnds
CHECK_DEADLOCK FALSE
