SPECIFICATION FairSpec
CONSTANTS
  main = main
  Thread = {main, t1, t2}
  NULL = NULL
  max_thread = 2
  Device = {d1}
  HasTimer = TRUE
  Unchecked = TRUE
INVARIANTS SchedulerInv NoDanglingThread
PROPERTIES NoOvertaking IdsExact ReadyRuns
