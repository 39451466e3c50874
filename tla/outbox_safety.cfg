SPECIFICATION Spec
CONSTANTS
  Messages = {m1, m2, a1}
  Mandatory = {m1, a1}
  WithFile = {m1, m2}
  Reconciled = {m1}
  Alerts = {a1}
  NParts = 2
  MaxTries = 2
  MaxErrors = 1
  MaxCrashes = 2
CHECK_DEADLOCK FALSE
INVARIANTS TypeOK OptionalNotRepeated RefsBalance NoLostWakeup PartsSentOnce ConfirmedWasAccepted FileHeld NoStaleAlert
PROPERTIES SendsInCommitOrder
