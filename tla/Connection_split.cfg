SPECIFICATION Spec
CONSTANTS
  MaxMsgs = 2
  Null = Null
INVARIANT ReportsAreRegistered
CHECK_DEADLOCK FALSE
