SPECIFICATION LiveSpec
CONSTANTS
  Messages = {m1, m2}
  Mandatory = {m1}
  WithFile = {m1, m2}
  Reconciled = {m1}
  Alerts = {}
  NParts = 2
  MaxTries = 2
  MaxErrors = 2
  MaxCrashes = 2
CHECK_DEADLOCK FALSE
PROPERTIES MandatoryEnds OptionalIsReported WeChatEnds
