SPECIFICATION Spec
CONSTANTS
  Conversations = {c1, c2}
  Internal = none
  MaxSources = 3
  MaxAttempts = 2
  MaxReconcile = 1
  MaxEffectFree = 2
  MaxStale = 1
  MaxCrashes = 0
  MaxLosses = 0
  MaxErrors = 1
  MaxReadErrors = 0
  MaxEvents = 1
CHECK_DEADLOCK FALSE
INVARIANTS TypeOK SourceAccounting TurnIdentity ConversationIsolation RetryBudget
PROPERTIES QueuePromise
SYMMETRY ConversationSymmetry
