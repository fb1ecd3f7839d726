SPECIFICATION FairSpec
CONSTANTS
  Devices = {d1}
  Ids = {e1, e2}
  Null = Null
  Half = 2
  MaxAge = 2
  Threshold = 1
  Interval = 1
  Fresh = 1
  PoolSize = 1
  SelectFaults = {"short", "null"}
  InsertFaults = {"lost", "fatal"}
  ForeachCall = {"callee", "fault"}
  StoreReturn = {"entry", "wild"}
  UninitActive = {TRUE, FALSE}
  Contexts = {TRUE, FALSE}
  Kills = TRUE
INVARIANTS TypeOK EntryOwnership NoticeInHand OutageJustified
PROPERTIES RebootPushed OutagePushed
