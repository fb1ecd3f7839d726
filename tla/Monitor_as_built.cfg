SPECIFICATION FairSpec
CONSTANTS
  Devices = {d1}
  Ids = {e1, e2, e3}
  Null = Null
  Half = 2
  MaxAge = 2
  Threshold = 1
  Interval = 1
  Fresh = 1
  PoolSize = 2
  SelectFaults = {}
  InsertFaults = {}
  ForeachCall = {"fault"}
  StoreReturn = {"wild"}
  UninitActive = {TRUE, FALSE}
  Contexts = {TRUE}
  Kills = FALSE
INVARIANT RebootsAreNotified
