SPECIFICATION LiveSpec
CONSTANTS
  Conversations = {c1}
  Internal = none
  MaxSources = 1
  MaxAttempts = 4
  MaxReconcile = 1
  MaxEffectFree = 2
  MaxStale = 1
  MaxCrashes = 1
  MaxLosses = 1
  MaxErrors = 0
  MaxReadErrors = 0
  MaxEvents = 0
CHECK_DEADLOCK FALSE
PROPERTIES SettledTerminalFinishes EverySourceEnds
