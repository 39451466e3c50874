SPECIFICATION Spec
CONSTANTS
  w1 = w1
  w2 = w2
  Works = {w1, w2}
  Adapters <- MCAdapters
  Builtin = FALSE
  Requests <- Unforced
  MaxRequests = 2
  MaxReconnect = 2
  MaxLosses = 1
  MaxErrors = 1
  MaxCloses = 0
SYMMETRY Symmetry
INVARIANTS DrainHolds RetryOwed
 
CHECK_DEADLOCK FALSE
