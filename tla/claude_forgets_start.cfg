SPECIFICATION Spec
CONSTANTS
  MaxTurns = 2
  MaxRetries = 0
  MaxInterrupts = 0
  MaxLosses = 0
  MaxFailures = 0
  Sweeps = TRUE
PROPERTIES SweepSparesStarts
\* Bounded: a run of the model ends when every message is spent.
CHECK_DEADLOCK FALSE
