SPECIFICATION FairSpec
CONSTANTS
  Requests = {"/", "/icon.png", "/other"}
  UninitActive = {TRUE, FALSE}
  Null = Null
INVARIANTS TypeOK ExitReleasesAll CrashHasCause
PROPERTIES RequestsAreAnswered ShutdownEnds
CHECK_DEADLOCK FALSE
