CONSTANTS
  Stoppers = {s1}
  Wakers = {w1}
  Empty = Empty
  Records = 1
SPECIFICATION RunSpec
INVARIANT StopReachesWaker
CHECK_DEADLOCK FALSE
