SPECIFICATION FairSpec
CONSTANTS
  r1 = r1
  r2 = r2
  r3 = r3
  Requests = {r1, r2, r3}
  NoTask = NoTask
  NumWorkers = 3
  IoThreads = 2
INVARIANTS
  ExactlyOnce
  IdleMeansNothingToDo
  StopFindsNoWork
PROPERTIES
  EveryTaskIsAnswered
CHECK_DEADLOCK FALSE
