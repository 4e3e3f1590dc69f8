SPECIFICATION Spec
CONSTANTS
  main = main
  Thread = {main, t1, t2}
  NULL = NULL
  MaxChild = 1
  NumPhysPages = 2
  numPages = 2
  TLBSize = 3
  
PROPERTIES  JoinEnds
