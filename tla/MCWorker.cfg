CONSTANTS
  Threads = {t1, t2}
  N = 2
  StraySends = 1
SPECIFICATION Spec
PROPERTIES
  ImplementsMap
  CallReturns
CHECK_DEADLOCK FALSE
