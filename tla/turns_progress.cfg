SPECIFICATION LiveSpec
CONSTANTS
  Conversations = {c1}
  Internal = none
  MaxSources = 2
  MaxAttempts = 4
  MaxReconcile = 0
  MaxEffectFree = 2
  MaxStale = 1
  MaxCrashes = 0
  MaxLosses = 0
  MaxErrors = 0
  MaxReadErrors = 0
  MaxEvents = 0
CHECK_DEADLOCK FALSE
PROPERTIES  EveryTerminalFinishes EverySourceEnds
