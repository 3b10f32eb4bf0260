CONSTANTS
  Raisers = {a, b, c}
  Removers = {a, x}
  Sweeper = s
  Resources = {r1, r2, r3}
  Readers = {m, n}
  Tools = {t1, t2, t3}
  Hashes = {h1, h2}
  Gone = Gone
  Processes = {p1, p2, p3}
  MaxBuilds = 2
SPECIFICATION FairSpec
INVARIANTS
  SerialCallsKeepContext
  SweepRemoves
  ByteLivesWithCall
  AllOrNothing
  OwnerOutlivesUse
  FetchesAgree
  FailsForCause
  NameHoldsBytes
  OneBuildStarts
PROPERTIES
  RemovedIsFreed
  TaskEnds
  EachEndsOnce
CHECK_DEADLOCK FALSE
