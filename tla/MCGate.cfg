CONSTANTS
  Threads = {t1, t2, t3}
  Open = Open
  NoEvent = NoEvent
  MaxDepth = 2
SPECIFICATION FairSpec
INVARIANTS
  NoLostWakeup
PROPERTIES
  EveryWaiterEnters
  ImplementsLock
