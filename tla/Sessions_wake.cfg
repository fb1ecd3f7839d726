SPECIFICATION SessionFairSpec
CONSTANTS
  Size = 2
  Threads = {loop, w1}
  Loop = loop
  Bufs = {b1, b2, b3}
  Null = Null
  Clients = {c1}
  Greeting = {"sent"}
  Write = {"returns"}
  Unasked = FALSE
  MaxBehind = 2
PROPERTY ClientsAreKeptUpToDate
CHECK_DEADLOCK FALSE
