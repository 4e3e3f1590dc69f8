SPECIFICATION Spec
CONSTANTS
  main = main
  Thread = {main, t1, t2}
  NULL = NULL
  max_thread = 3
  Device = {d1}
  HasTimer = TRUE
  Unchecked = FALSE
INVARIANT CarcassWillBeDeleted
