SPECIFICATION UpkeepSpec
CONSTANTS
  Devices = {d1, d2}
  Ids = {e1}
  Null = Null
  Half = 1
  MaxAge = 1
  Threshold = 0
  Interval = 1
  Fresh = 1
  PoolSize = 1
  SelectFaults = {}
  InsertFaults = {}
  ForeachCall = {"callee"}
  StoreReturn = {"entry"}
  UninitActive = {FALSE}
  Contexts = {TRUE, FALSE}
  Kills = TRUE
  Loop = loop
  Size = 2
  Bufs = {b1, b2, b3}
SYMMETRY Interchangeable
INVARIANTS UpkeepTypeOK PushReadsLiveEntry
PROPERTY RebootIsCurrent
