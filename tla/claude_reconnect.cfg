SPECIFICATION FairSpec
CONSTANTS
  MaxTurns = 2
  MaxRetries = 1
  MaxInterrupts = 2
  MaxLosses = 1
  MaxFailures = 1
  Sweeps = FALSE
INVARIANTS ViewIsTrue
PROPERTIES  StaleTurnRetires
\* Bounded: a run of the model ends when every message is spent.
CHECK_DEADLOCK FALSE
