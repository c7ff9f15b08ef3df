SPECIFICATION FairSpec
CONSTANTS
  r1 = r1
  r2 = r2
  r3 = r3
  Requests = {r1, r2}
  NoTask = NoTask
  NumWorkers = 2
  IoThreads = 2
PROPERTIES
  ShutdownCompletes
CHECK_DEADLOCK FALSE
