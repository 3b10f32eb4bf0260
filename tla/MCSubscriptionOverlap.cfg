CONSTANTS
  Raisers = {a, b}
  Removers = {x}
  Sweeper = s
SPECIFICATION Spec
INVARIANT NoCallOutlivesContext
CHECK_DEADLOCK FALSE
