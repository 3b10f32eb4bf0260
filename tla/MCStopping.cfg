CONSTANTS
  Stoppers = {s1, s2}
  Wakers = {w1, w2}
  Empty = Empty
  Records = 2
  MaxRecords = 2
SPECIFICATION StoppingSpec
INVARIANTS
  RunsOnce
  EveryGuardWoken
  StopOnLiveInstance
  StoppedWhenAsked
  StopOnLiveContext
  EndAfterRecords
PROPERTIES
  HeardStopEnds
  StopsEnd
CHECK_DEADLOCK FALSE
