CONSTANTS
  Threads = {t1, t2}
  Objects = {1}
  Open = Open
  NestElsewhere = FALSE
  MaxFrames = 1
  MaxQueue = 1
  MaxBytes = 0
  MaxGeneration = 2
SPECIFICATION Spec
INVARIANT CallsReachOwnLoad
