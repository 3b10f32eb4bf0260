CONSTANTS
  Threads = {t1}
  N = 1
  StraySends = 1
SPECIFICATION Spec
PROPERTY KeptHandleReturns
CHECK_DEADLOCK FALSE
