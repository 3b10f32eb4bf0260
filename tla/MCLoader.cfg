CONSTANTS
  Loads = {l1, l2, l3}
  Shells = {s1, s2}
  Root = Root
  None = None
  Rebuilds = 1
SPECIFICATION Spec
INVARIANT LoadsOwnShell
INVARIANT FolderOfOneShell
INVARIANT StagedStays
PROPERTY LoadsEnd
CHECK_DEADLOCK FALSE
