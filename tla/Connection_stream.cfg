SPECIFICATION Spec
CONSTANTS
  MaxMsgs = 3
  Null = Null
INVARIANTS
  TypeOK
  UptimesInOrder
  NewestSurvives
CHECK_DEADLOCK FALSE
