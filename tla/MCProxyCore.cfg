CONSTANTS
  Threads = {t1, t2}
  Objects = {1, 2}
  Open = Open
  NestElsewhere = TRUE
  MaxFrames = 2
  MaxQueue = 1
  MaxBytes = 1
  MaxGeneration = 2
SPECIFICATION ShapedSpec
INVARIANTS
  OneExclusiveUser
  NoFreeUnderCall
  PressureFollows
  HandlersOutsideGate
  RaisesTaken
PROPERTY CallsEnd
