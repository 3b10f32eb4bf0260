CONSTANTS
  Runspaces = {r1, r2}
  NoRunspace = NoRunspace
  Free = Free
  MaxImports = 2
  MaxCopies = 3
SPECIFICATION FairSpec
INVARIANTS
  RemovalsMatchImports
  LoadedWhileImported
  UpToDateOnceReloaded
PROPERTIES
  EachCopyOnce
  ClosedIsRemoved
CHECK_DEADLOCK FALSE
