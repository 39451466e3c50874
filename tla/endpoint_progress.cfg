SPECIFICATION FairSpec
CONSTANTS
  w1 = w1
  w2 = w2
  Works = {w1}
  Adapters <- MCAdapters
  Builtin = TRUE
  Requests <- AnyRequests
  MaxRequests = 2
  MaxReconnect = 2
  MaxLosses = 0
  MaxErrors = 1
  MaxCloses = 1
INVARIANTS ClosedIsSilent
 
CHECK_DEADLOCK FALSE
