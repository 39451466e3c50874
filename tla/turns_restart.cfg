SPECIFICATION Spec
CONSTANTS
  Conversations = {c1}
  Internal = none
  MaxSources = 2
  MaxAttempts = 3
  MaxReconcile = 1
  MaxEffectFree = 2
  MaxStale = 1
  MaxCrashes = 1
  MaxLosses = 1
  MaxErrors = 1
  MaxReadErrors = 1
  MaxEvents = 0
CHECK_DEADLOCK FALSE
CONSTRAINT RestartBounds
INVARIANTS NoDoubleExecution WarnedIsOver
PROPERTIES BindingIsFinal 
