SPECIFICATION Spec
CONSTANTS
  MaxTurns = 3
  MaxRetries = 0
  MaxInterrupts = 2
  MaxLosses = 0
  MaxFailures = 1
  Sweeps = TRUE
INVARIANTS ViewIsTrue
PROPERTIES SparesOthers
\* Bounded: a run of the model ends when every message is spent.
CHECK_DEADLOCK FALSE
