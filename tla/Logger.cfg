SPECIFICATION FairSpec
CONSTANT MaxLogs = 5
INVARIANTS TypeOK MessageInOnePlace PoolInOrder ExitWritesQueue AbortHasCause
PROPERTY FlushEnds
CHECK_DEADLOCK FALSE
