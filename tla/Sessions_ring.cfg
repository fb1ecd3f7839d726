SPECIFICATION SessionSpec
CONSTANTS
  Size = 3
  Threads = {loop, w1}
  Loop = loop
  Bufs = {b1, b2, b3, b4}
  Null = Null
  Clients = {c1}
  Greeting = {"sent", "fault"}
  Write = {"returns", "fault"}
  Unasked = TRUE
  MaxBehind = 3
SYMMETRY Interchangeable
INVARIANTS SessionTypeOK RingMemorySafe SerialRingKeeps WritesOnlyWhenBehind
INVARIANTS ReadsItsStart
CHECK_DEADLOCK FALSE
